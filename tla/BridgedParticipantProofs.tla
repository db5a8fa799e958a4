----------------------- MODULE BridgedParticipantProofs -----------------------
(***************************************************************************)
(* BridgedParticipant puts its parts together soundly.  What was proved of *)
(* the readers and of the writers holds in it, since each of its steps is  *)
(* one of theirs or leaves them alone (HalvesInv).  And it implements      *)
(* ParticipantLifecycle, with its readers and writers for the endpoints:   *)
(* Phases says what the calls of the three may be doing at the same time,  *)
(* Facts what the participant can see of the inductive invariants of the   *)
(* halves, and then each step of the composition is matched by one of the  *)
(* life cycle (LifeStep).                                                  *)
(***************************************************************************)
EXTENDS BridgedParticipant, TLAPS

USE ParticipantAssumption

RP == INSTANCE BridgedReadersProofs WITH
        call <- readerCall, todo <- readerTodo, ignored <- readerIgnored,
        RemovalMayFail <- FALSE
WP == INSTANCE BridgedWritersProofs WITH
        call <- writerCall, todo <- writerTodo, ignored <- writerIgnored,
        RemovalMayFail <- FALSE
-----------------------------------------------------------------------------
(* Every step is one of the readers and one of the writers, or leaves them *)
(* alone.                                                                  *)
LEMMA ReadersStep == [Next]_vars => [R!Next]_R!vars
<1> SUFFICES ASSUME [Next]_vars, ~UNCHANGED R!vars PROVE R!Next
  OBVIOUS
<1>1. UNCHANGED readerVars => UNCHANGED R!vars
  BY DEF readerVars, R!vars
<1>2. BeginReaders => R!Next
  BY DEF BeginReaders, R!Next, R!Begin
<1>3. ContinueReaders => R!Next
  BY DEF ContinueReaders, R!Next
<1>4. ResignAll => R!Next
  BY DEF ResignAll, R!Next, R!Begin
<1>5. ReadersResigned => R!Next
  BY DEF ReadersResigned, R!Next, R!Continue
<1>6. StopAll => R!Next
  BY DEF StopAll, R!Next, R!Begin
<1>7. Receive => R!Next
  BY DEF Receive, R!Next
<1> QED
  BY <1>1, <1>2, <1>3, <1>4, <1>5, <1>6, <1>7
     DEF Next, Begin, Continue, vars, BeginWriters, ContinueWriters,
         CallParticipant, WritersResigned, Sending, Matching, Discover,
         Discovered

(* The same of the writers.                                                *)
LEMMA WritersStep == [Next]_vars => [W!Next]_W!vars
<1> SUFFICES ASSUME [Next]_vars, ~UNCHANGED W!vars PROVE W!Next
  OBVIOUS
<1>1. UNCHANGED writerVars => UNCHANGED W!vars
  BY DEF writerVars, W!vars, W!mapVars, W!ownVars, W!matchVars, W!sendVars
<1>2. BeginWriters => W!Next
  BY DEF BeginWriters, W!Next, W!Begin
<1>3. ContinueWriters => W!Next
  BY DEF ContinueWriters, W!Next
<1>4. ReadersResigned => W!Next
  BY DEF ReadersResigned, W!Next, W!Begin
<1>5. WritersResigned => W!Next
  BY DEF WritersResigned, W!Next, W!Continue
<1>6. StopAll => W!Next
  BY DEF StopAll, W!Next, W!Begin
<1>7. Sending => W!Next
  BY DEF Sending, W!Next
<1>8. Matching => W!Next
  BY DEF Matching, W!Next
<1> QED
  BY <1>1, <1>2, <1>3, <1>4, <1>5, <1>6, <1>7, <1>8
     DEF Next, Begin, Continue, vars, BeginReaders, ContinueReaders,
         CallParticipant, ResignAll, Receive, Discover, Discovered
-----------------------------------------------------------------------------
(* The two halves are the modules proved in BridgedReadersProofs and       *)
(* BridgedWritersProofs, with the same definitions under other names.      *)
LEMMA SameReaders ==
  (R!Init <=> RP!Init) /\ (R!Next <=> RP!Next) /\ R!vars = RP!vars
BY Zenon DEF R!Init, RP!Init,
         R!vars, R!history, R!Idle, R!NoJob, R!At, R!Go, R!Return,
         R!Listed, R!Quiet, R!Release, R!Free, R!Removed, R!Refused,
         R!RemoveRegardless, R!AddReaderDuplicate, R!AddReader,
         R!ReaderCreated, R!ReaderNotCreated, R!ReaderRegistered,
         R!ReaderNotRegistered, R!UnregisterReader, R!RollBackReader,
         R!RemoveReader, R!ReaderRemoved, R!ReaderNotRemoved,
         R!EraseReader, R!ReleaseDecoder, R!ResignAll, R!ResignReader,
         R!ResignRelease, R!ResignFree, R!ResignDone, R!StopAll,
         R!StartDecode, R!SkipDecode, R!EndDecode, R!DropChange,
         R!Continue, R!Begin, R!Receive, R!Next,
         RP!vars, RP!history, RP!Idle, RP!NoJob, RP!At, RP!Go,
         RP!Return, RP!Listed, RP!Quiet, RP!Release, RP!Free,
         RP!Removed, RP!Refused, RP!RemoveRegardless,
         RP!AddReaderDuplicate, RP!AddReader, RP!ReaderCreated,
         RP!ReaderNotCreated, RP!ReaderRegistered,
         RP!ReaderNotRegistered, RP!UnregisterReader,
         RP!RollBackReader, RP!RemoveReader, RP!ReaderRemoved,
         RP!ReaderNotRemoved, RP!EraseReader, RP!ReleaseDecoder,
         RP!ResignAll, RP!ResignReader, RP!ResignRelease,
         RP!ResignFree, RP!ResignDone, RP!StopAll, RP!StartDecode,
         RP!SkipDecode, RP!EndDecode, RP!DropChange, RP!Continue,
         RP!Begin, RP!Receive, RP!Next

(* So they are for the writers.                                            *)
LEMMA SameWriters ==
  (W!Init <=> WP!Init) /\ (W!Next <=> WP!Next) /\ W!vars = WP!vars
BY Zenon DEF W!Init, WP!Init, W!NoSample, WP!NoSample,
         W!mapVars, W!ownVars, W!matchVars, W!sendVars, W!vars,
         W!Idle, W!NoSend, W!NoJob, W!At, W!Go, W!Return, W!SampleOf,
         W!SendGo, W!Listed, W!ApiExclusive, W!Free, W!Removed,
         W!Refused, W!RemoveRegardless, W!AddWriter, W!WriterCreated,
         W!WriterNotCreated, W!WriterRegistered,
         W!WriterNotRegistered, W!RollBackWriter, W!RemoveWriter,
         W!WriterRemoved, W!WriterNotRemoved, W!EraseWriter,
         W!ResignAll, W!ResignWriter, W!ResignFree, W!ResignDone,
         W!StopAll, W!Send, W!ReadSize, W!DropHistory, W!NewChange,
         W!NoNewChange, W!CleanHistory, W!StoreThroughNull,
         W!AddChange, W!Match, W!Unmatch, W!LoseLiveliness,
         W!OnWriterMatched, W!Notified, W!Begin, W!Continue,
         W!Sending, W!Discovery, W!Next,
         WP!mapVars, WP!ownVars, WP!matchVars, WP!sendVars, WP!vars,
         WP!Idle, WP!NoSend, WP!NoJob, WP!At, WP!Go, WP!Return,
         WP!SampleOf, WP!SendGo, WP!Listed, WP!ApiExclusive, WP!Free,
         WP!Removed, WP!Refused, WP!RemoveRegardless, WP!AddWriter,
         WP!WriterCreated, WP!WriterNotCreated, WP!WriterRegistered,
         WP!WriterNotRegistered, WP!RollBackWriter, WP!RemoveWriter,
         WP!WriterRemoved, WP!WriterNotRemoved, WP!EraseWriter,
         WP!ResignAll, WP!ResignWriter, WP!ResignFree, WP!ResignDone,
         WP!StopAll, WP!Send, WP!ReadSize, WP!DropHistory,
         WP!NewChange, WP!NoNewChange, WP!CleanHistory,
         WP!StoreThroughNull, WP!AddChange, WP!Match, WP!Unmatch,
         WP!LoseLiveliness, WP!OnWriterMatched, WP!Notified, WP!Begin,
         WP!Continue, WP!Sending, WP!Discovery, WP!Next

HalvesInv == RP!IInv /\ WP!TypeInv /\ WP!OwnInv

(* Their inductive invariants hold in the whole.                           *)
LEMMA HalvesInit == Init => HalvesInv
<1>1. Init => RP!Init /\ WP!Init
  BY SameReaders, SameWriters DEF Init
<1>2. RP!Init => RP!IInv
  BY RP!InitIInv DEF RP!InitIInv
<1>3. WP!Init => WP!TypeInv
  BY WP!InitTypeInv DEF WP!InitTypeInv, WP!IsFiniteSet, IsFiniteSet
<1>4. WP!Init => WP!OwnInv
  BY WP!InitOwnInv DEF WP!InitOwnInv, WP!IsFiniteSet, IsFiniteSet
<1> QED
  BY <1>1, <1>2, <1>3, <1>4 DEF HalvesInv

(* A step of the whole is one of each half, under either name.             *)
LEMMA HalvesNext ==
  [Next]_vars => [RP!Next]_(RP!vars) /\ [WP!Next]_(WP!vars)
<1>1. R!vars' = RP!vars'
  BY Zenon DEF R!vars, RP!vars, R!history, RP!history
<1>2. W!vars' = WP!vars'
  BY Zenon DEF W!vars, WP!vars, W!mapVars, WP!mapVars, W!ownVars, WP!ownVars,
               W!matchVars, WP!matchVars, W!sendVars, WP!sendVars
<1> QED
  BY <1>1, <1>2, ReadersStep, WritersStep, SameReaders, SameWriters

(* So each step keeps both invariants.                                     *)
LEMMA HalvesStep == HalvesInv /\ [Next]_vars => HalvesInv'
<1> SUFFICES ASSUME HalvesInv, [Next]_vars PROVE HalvesInv'
  OBVIOUS
<1>1. RP!IInv'
  BY HalvesNext, RP!StepIInv DEF RP!StepIInv, HalvesInv
<1>2. WP!TypeInv'
  BY HalvesNext, WP!StepTypeInv DEF WP!StepTypeInv, HalvesInv, WP!IsFiniteSet, IsFiniteSet
<1>3. WP!OwnInv'
  BY HalvesNext, WP!StepOwnInv DEF WP!StepOwnInv, HalvesInv, WP!IsFiniteSet, IsFiniteSet
<1> QED
  BY <1>1, <1>2, <1>3 DEF HalvesInv
-----------------------------------------------------------------------------
(* HalvesInv holds throughout.                                             *)
LEMMA HalvesInvariance == Spec => []HalvesInv
  BY HalvesInit, HalvesStep, PTL DEF Spec

(* The contract on proxies holds of the whole object, whatever its writers,*)
(* its participant and the callbacks of discovery do: ContractKept of      *)
(* BridgedReadersProofs.                                                   *)
THEOREM WholeKeepsContract == Spec => KeepsContract
<1>1. Init => R!Contract!Init
  <2>1. Init => RP!Contract!Init
    BY SameReaders, RP!InitContract DEF RP!InitContract, Init
  <2> QED
    BY <2>1, Zenon DEF R!Contract!Init, RP!Contract!Init, R!Running, RP!Running
<1>2. HalvesInv /\ [Next]_vars => [R!Contract!Next]_(R!Contract!vars)
  <2> SUFFICES ASSUME HalvesInv, [Next]_vars
               PROVE  [R!Contract!Next]_(R!Contract!vars)
    OBVIOUS
  <2>1. [RP!Contract!Next]_<<proxy, RP!Running, readerIgnored>>
    BY HalvesNext, RP!StepContract DEF RP!StepContract, HalvesInv
  <2> QED
    BY <2>1, Zenon
       DEF R!Contract!Next, RP!Contract!Next, R!Contract!vars, R!Running,
           RP!Running, R!Contract!Lend, RP!Contract!Lend, R!Contract!Refuse,
           RP!Contract!Refuse, R!Contract!Enter, RP!Contract!Enter,
           R!Contract!Leave, RP!Contract!Leave, R!Contract!Return,
           RP!Contract!Return, R!Contract!Excuse, RP!Contract!Excuse,
           R!Contract!Break, RP!Contract!Break
<1> QED
  BY <1>1, <1>2, HalvesInvariance, PTL
     DEF Spec, KeepsContract, R!KeepsContract, R!Contract!Spec
-----------------------------------------------------------------------------
(* What the participant sees of its readers and writers.                   *)
ReadersIn == {t \in Topics : /\ readerList[t] # NoDecoder
                             /\ reader[readerList[t]] = "live"}
WritersIn == {t \in Topics : /\ writerList[t] # NoWriter
                             /\ writer[writerList[t]] = "live"}

TopicIn(list, x) == CHOOSE t \in Topics : list[t] = x

ReaderRuns(r) == IF cb[r] = R!NoJob THEN Nil
                 ELSE <<"reader", TopicIn(readerList, cb[r].dec)>>
WriterRuns    == IF disc = W!NoJob THEN Nil
                 ELSE <<"writer", TopicIn(writerList, disc.writer)>>

ReaderFacts ==
  /\ readerList \in [Topics -> Decoders \cup {NoDecoder}]
  /\ reader \in [Decoders -> {"none", "live", "removed"}]
  /\ cb \in [Receivers -> [step : {"none", "decode", "drop"},
                           dec : Decoders \cup {NoDecoder}]]
  /\ readerIgnored = {}
  /\ \A t, u \in Topics :
       readerList[t] = readerList[u] /\ readerList[t] # NoDecoder => t = u
  /\ \A d \in Decoders : reader[d] = "live" => \E t \in Topics : readerList[t] = d
  /\ \A r \in Receivers : cb[r] # R!NoJob =>
       /\ cb[r].dec \in Decoders /\ reader[cb[r].dec] = "live"
       /\ cb[r].step # "none"
       /\ \A s \in Receivers \ {r} : cb[s].dec # cb[r].dec

(* Where the call of the readers is.                                       *)
ReaderCallFacts ==
  /\ readerCall.step \in {"create", "unregister", "rollback", "remove", "erase"} =>
       readerCall.topic \in Topics /\ readerCall.dec \in Decoders
  /\ readerCall.step = "create" => /\ readerList[readerCall.topic] = NoDecoder
                                   /\ reader[readerCall.dec] # "live"
                                   /\ \A t \in Topics :
                                        readerList[t] # readerCall.dec
  /\ readerCall.step \in {"unregister", "rollback", "remove", "erase"} =>
       readerList[readerCall.topic] = readerCall.dec
  /\ readerCall.step \in {"unregister", "remove"} => reader[readerCall.dec] = "live"
  /\ readerCall.step \in {"rollback", "erase"} => reader[readerCall.dec] # "live"
  /\ readerCall.step = "resign" =>
       readerTodo \in SUBSET Topics /\ ReadersIn = readerTodo

WriterFacts ==
  /\ writerList \in [Topics -> Writers \cup {NoWriter}]
  /\ writer \in [Writers -> {"none", "live", "removed"}]
  /\ \A t, u \in Topics :
       writerList[t] = writerList[u] /\ writerList[t] # NoWriter => t = u
  /\ writerIgnored = {} =>
       \A w \in Writers : writer[w] = "live" => \E t \in Topics : writerList[t] = w
  /\ disc \in [step : {"none", "matched", "unmatched", "notify"},
               writer : Writers \cup {NoWriter}]
  /\ disc # W!NoJob => /\ disc.writer \in Writers /\ writer[disc.writer] = "live"
                       /\ disc.step # "none"

WriterCallFacts ==
  /\ writerCall.step \in {"create", "register", "rollback", "remove", "erase"} =>
       writerCall.topic \in Topics /\ writerCall.writer \in Writers
  /\ writerCall.step = "create" => /\ writerList[writerCall.topic] = NoWriter
                                   /\ writer[writerCall.writer] # "live"
                                   /\ \A t \in Topics :
                                        writerList[t] # writerCall.writer
  /\ writerCall.step \in {"register", "rollback", "remove", "erase"} =>
       writerList[writerCall.topic] = writerCall.writer
  /\ writerCall.step \in {"register", "remove"} => writer[writerCall.writer] = "live"
  /\ writerIgnored = {} =>
       /\ writerCall.step \in {"rollback", "erase"} =>
            writer[writerCall.writer] # "live"
       /\ writerCall.step = "resign" =>
            writerTodo \in SUBSET Topics /\ WritersIn = writerTodo

Facts == ReaderFacts /\ ReaderCallFacts /\ WriterFacts /\ WriterCallFacts

(* All this is part of what is known of the halves.                        *)
LEMMA FactsHold == HalvesInv => Facts
<1> SUFFICES ASSUME HalvesInv PROVE Facts
  OBVIOUS
<1>1. ReaderFacts
  BY DEF HalvesInv, ReaderFacts, RP!IInv, RP!TypeOK, RP!OwnersDistinct,
         RP!CallOK, RP!CurrentOK, RP!OthersOK, RP!CbOK, RP!RefusalOK,
         RP!Listed, RP!Gone, RP!Has, RP!Whole, RP!Unused, RP!Finished,
         RP!Resigning, RP!At, RP!Steps, R!NoJob
<1>2. ReaderCallFacts
  BY DEF HalvesInv, ReaderCallFacts, ReadersIn, RP!IInv, RP!TypeOK,
         RP!OwnersDistinct,
         RP!CallOK, RP!CurrentOK, RP!OthersOK, RP!CbOK, RP!RefusalOK,
         RP!Listed, RP!Gone, RP!Has, RP!Whole, RP!Unused, RP!Finished,
         RP!Resigning, RP!At, RP!Steps
<1>3. /\ WP!MapTypes
      /\ disc \in [step : {"none", "matched", "unmatched", "notify"},
                   writer : Writers \cup {NoWriter}]
  BY DEF HalvesInv, WP!MapTypes, WP!TypeInv, WP!TypeOK
<1>4. WriterFacts
  <2>1. writerIgnored = {} =>
          \A w \in Writers : writer[w] = "live" => \E t \in Topics : writerList[t] = w
    BY <1>3 DEF HalvesInv, WP!MapTypes, WP!Shape, WP!OwnInv, WP!CurrentOK,
                WP!OthersOK, WP!Listed, WP!Gone, WP!Whole, WP!Unused,
                WP!Finished, WP!Steps
  <2>2. disc # W!NoJob => /\ disc.writer \in Writers /\ writer[disc.writer] = "live"
                          /\ disc.step # "none"
    BY <1>3 DEF HalvesInv, WP!MapTypes, WP!Shape, WP!OwnInv, WP!DiscOK, W!NoJob
  <2> QED
    BY <1>3, <2>1, <2>2 DEF HalvesInv, WriterFacts, WP!MapTypes, WP!OwnInv,
                            WP!OwnersDistinct
<1>5. WriterCallFacts
  <2>1. writerIgnored = {} /\ writerCall.step = "resign" =>
          writerTodo \in SUBSET Topics /\ WritersIn = writerTodo
    BY <1>3 DEF HalvesInv, WritersIn, WP!MapTypes, WP!Shape, WP!OwnInv,
                WP!OthersOK, WP!Gone, WP!Whole, WP!Finished, WP!Resigning,
                WP!At, WP!Steps
  <2> QED
    BY <1>3, <2>1 DEF HalvesInv, WriterCallFacts, WP!MapTypes, WP!Shape,
                WP!OwnInv, WP!CurrentOK, WP!Listed, WP!Gone, WP!Whole, WP!Steps
<1> QED
  BY <1>1, <1>2, <1>4, <1>5 DEF Facts
-----------------------------------------------------------------------------
(* What the calls of the three parts may be doing at the same time: an     *)
(* addition or removal needs a participant and an idle life cycle, the two *)
(* loops of resignAll follow each other inside one of its three callers,   *)
(* and when removeParticipant is past them the maps are empty.             *)
Changing == {"create", "register", "unregister", "rollback", "remove",
             "erase", "release"}
ReaderLoop == {"resign", "resignRelease", "resignFree"}
WriterLoop == {"resign", "resignFree"}

Phases ==
  /\ phase \in {"create", "created"} => mp_participant = Nil
  /\ mp_participant = Nil =>
       /\ \A t \in Topics : readerList[t] = NoDecoder /\ writerList[t] = NoWriter
       /\ readerCall.step \notin Changing /\ writerCall.step \notin Changing
  /\ readerCall.step \in Changing => phase = "idle"
  /\ writerCall.step \in Changing => phase = "idle"
  /\ readerCall.step \in ReaderLoop =>
       phase \in L!Resigning /\ writerCall.step = "idle"
  /\ writerCall.step \in WriterLoop =>
       /\ phase \in L!Resigning /\ readerCall.step = "idle"
       /\ \A t \in Topics : readerList[t] = NoDecoder
  /\ phase \in {"delete", "remove", "deleteListener", "removed"} =>
       /\ readerCall.step = "idle" /\ writerCall.step = "idle"
       /\ \A t \in Topics : readerList[t] = NoDecoder /\ writerList[t] = NoWriter
  /\ writerIgnored = {}
  /\ discovery \in Attempts \cup {Nil}

WInv == HalvesInv /\ Phases

(* Nothing is under way at the start.                                      *)
LEMMA InitPhases == Init => Phases
BY DEF Init, R!Init, W!Init, R!Idle, W!Idle, Phases, Changing, ReaderLoop,
       WriterLoop

(* Every step keeps to it.                                                 *)
LEMMA StepPhases == WInv /\ [Next]_vars => Phases'
<1> SUFFICES ASSUME WInv, [Next]_vars PROVE Phases'
  OBVIOUS
<1>a. Facts
  BY FactsHold DEF WInv
<1> USE DEF WInv, Phases, Changing, ReaderLoop, WriterLoop, L!Resigning,
            readerVars, writerVars, lifeVars, R!At, W!At, R!Go, W!Go,
            R!Return, W!Return, R!Idle, W!Idle, R!history, W!mapVars,
            W!ownVars
<1>b. /\ readerList \in [Topics -> Decoders \cup {NoDecoder}]
      /\ writerList \in [Topics -> Writers \cup {NoWriter}]
      /\ readerCall \in [step : RP!Steps, topic : Topics \cup {NoTopic},
                         dec : Decoders \cup {NoDecoder}]
      /\ writerCall \in [step : WP!Steps, topic : Topics \cup {NoTopic},
                         writer : Writers \cup {NoWriter}]
  BY DEF HalvesInv, RP!IInv, RP!TypeOK, WP!TypeInv, WP!TypeOK
<1>1. CASE UNCHANGED vars
  BY <1>1 DEF vars
<1>2. CASE BeginReaders
  BY <1>2 DEF BeginReaders, Free, R!AddReaderDuplicate, R!AddReader,
              R!RemoveReader
<1>3. CASE BeginWriters
  BY <1>3 DEF BeginWriters, Free, W!AddWriter, W!RemoveWriter
<1>4. CASE ContinueReaders
  BY <1>4, <1>b
     DEF ContinueReaders, R!Continue, R!ReaderCreated, R!ReaderNotCreated,
         R!ReaderRegistered, R!ReaderNotRegistered, R!UnregisterReader,
         R!RollBackReader, R!ReaderRemoved, R!ReaderNotRemoved,
         R!EraseReader, R!ReleaseDecoder, R!ResignReader, R!ResignRelease,
         R!ResignFree, R!ResignDone
<1>5. CASE ContinueWriters
  BY <1>5, <1>b
     DEF ContinueWriters, W!Continue, W!WriterCreated, W!WriterNotCreated,
         W!WriterRegistered, W!WriterNotRegistered, W!RollBackWriter,
         W!WriterRemoved, W!WriterNotRemoved, W!EraseWriter,
         W!ResignWriter, W!ResignFree, W!ResignDone, W!RemoveRegardless,
         W!Refused
<1>6. CASE ResignAll
  BY <1>6 DEF ResignAll, R!ResignAll, L!ResignAll, L!RemoveParticipant,
              L!StopAnnouncement, L!bridge
<1>7. CASE CallParticipant
  BY <1>7 DEF CallParticipant, Free, L!CreateParticipant,
              L!ParticipantEnabled, L!ParticipantCreated,
              L!ParticipantNotCreated, L!DeleteWithout,
              L!ParticipantRemoved, L!ParticipantNotRemoved,
              L!DeleteListener, L!Drop, L!bridge
<1>8. CASE ReadersResigned
  BY <1>8, <1>b DEF ReadersResigned, R!ResignDone, W!ResignAll
<1>9. CASE WritersResigned
  BY <1>9, <1>b DEF WritersResigned, W!ResignDone, L!AfterResign
<1>10. CASE StopAll
  BY <1>10 DEF StopAll, Free, R!StopAll, W!StopAll, L!StopAll, L!bridge
<1>11. CASE Sending
  BY <1>11 DEF Sending, W!Sending, W!Send, W!ReadSize, W!DropHistory,
               W!NewChange, W!NoNewChange, W!CleanHistory,
               W!StoreThroughNull, W!AddChange
<1>12. CASE Receive
  BY <1>12 DEF Receive, R!Receive, R!StartDecode, R!SkipDecode, R!EndDecode,
               R!DropChange
<1>13. CASE Matching
  BY <1>13 DEF Matching, W!Discovery, W!Match, W!Unmatch, W!LoseLiveliness,
               W!OnWriterMatched, W!Notified
<1>14. CASE Discover \/ Discovered
  BY <1>14 DEF Discover, Discovered
<1> QED
  BY <1>1, <1>2, <1>3, <1>4, <1>5, <1>6, <1>7, <1>8, <1>9, <1>10, <1>11,
     <1>12, <1>13, <1>14 DEF Next, Begin, Continue

(* What is known of the whole object between any two of its steps.         *)
LEMMA WholeInvariance == Spec => []WInv
<1>1. Init => WInv
  BY HalvesInit, InitPhases DEF WInv
<1>2. WInv /\ [Next]_vars => WInv'
  BY HalvesStep, StepPhases DEF WInv
<1> QED
  BY <1>1, <1>2, PTL DEF Spec
-----------------------------------------------------------------------------
(* How the view changes.  A callback runs for an endpoint; the topic the   *)
(* participant sees it under is the only one its proxy or writer is        *)
(* entered under.                                                          *)
LEMMA TopicIs ==
  ASSUME NEW list, NEW x, NEW t \in Topics, list[t] = x,
         \A u \in Topics : list[u] = x => u = t
  PROVE  TopicIn(list, x) = t
BY Zenon DEF TopicIn

(* The view in the terms of ParticipantLifecycle.                          *)
RunningAs ==
  /\ \A r \in Receivers : Running(r) = ReaderRuns(r)
  /\ Running("matching") = WriterRuns
  /\ Running("discovery") = discovery

(* What each kind of thread runs is seen through its own variables.        *)
LEMMA RunningIs == RunningAs
<1>1. ASSUME NEW r \in Receivers PROVE Running(r) = ReaderRuns(r)
  <2>1. r # "matching" /\ r # "discovery"
    BY Zenon DEF ParticipantAssumption
  <2> QED
    BY <2>1, Zenon DEF Running, ReaderRuns, TopicIn
<1>2. Running("matching") = WriterRuns
  <2>1. "matching" # "discovery"
    OBVIOUS
  <2> QED
    BY <2>1, Zenon DEF Running, WriterRuns, TopicIn
<1>3. Running("discovery") = discovery
  BY Zenon DEF Running
<1> QED
  BY <1>1, <1>2, <1>3 DEF RunningAs

(* The same after a step.                                                  *)
LEMMA RunningIsNext == RunningAs'
  BY RunningIs, PTL

(* A callback runs under a topic whose endpoint is in place.               *)
LEMMA ReaderRunsIn ==
  ASSUME ReaderFacts, NEW r \in Receivers, cb[r] # R!NoJob
  PROVE  \E t \in ReadersIn : readerList[t] = cb[r].dec /\ ReaderRuns(r) = <<"reader", t>>
<1>1. cb[r].dec \in Decoders /\ reader[cb[r].dec] = "live"
  BY DEF ReaderFacts
<1>2. PICK t \in Topics : readerList[t] = cb[r].dec
  BY <1>1 DEF ReaderFacts
<1>3. readerList[t] # NoDecoder
  BY <1>1, <1>2 DEF ParticipantAssumption
<1>4. TopicIn(readerList, cb[r].dec) = t
  BY <1>2, <1>3, TopicIs DEF ReaderFacts
<1> QED
  BY <1>1, <1>2, <1>3, <1>4 DEF ReadersIn, ReaderRuns

(* The same of the writers.                                                *)
LEMMA WriterRunsIn ==
  ASSUME WriterFacts, writerIgnored = {}, disc # W!NoJob
  PROVE  \E t \in WritersIn : writerList[t] = disc.writer /\ WriterRuns = <<"writer", t>>
<1>1. disc.writer \in Writers /\ writer[disc.writer] = "live"
  BY DEF WriterFacts
<1>2. PICK t \in Topics : writerList[t] = disc.writer
  BY <1>1 DEF WriterFacts
<1>3. writerList[t] # NoWriter
  BY <1>1, <1>2 DEF ParticipantAssumption
<1>4. TopicIn(writerList, disc.writer) = t
  BY <1>2, <1>3, TopicIs DEF WriterFacts
<1> QED
  BY <1>1, <1>2, <1>3, <1>4 DEF WritersIn, WriterRuns

(* Whoever runs a callback has an endpoint in place.                       *)
RunsIn ==
  /\ \A r \in Receivers : ReaderFacts /\ cb[r] # R!NoJob =>
       \E t \in ReadersIn : /\ readerList[t] = cb[r].dec
                            /\ ReaderRuns(r) = <<"reader", t>>
  /\ WriterFacts /\ writerIgnored = {} /\ disc # W!NoJob =>
       \E t \in WritersIn : /\ writerList[t] = disc.writer
                            /\ WriterRuns = <<"writer", t>>

(* It holds after every step too.                                          *)
LEMMA RunsInNext == RunsIn'
<1>1. RunsIn
  BY ReaderRunsIn, WriterRunsIn DEF RunsIn
<1> QED
  BY <1>1, PTL

(* What runs stays seen as it is while its entry stays.                    *)
LEMMA ReaderRunsKept ==
  ASSUME ReaderFacts, ReaderFacts', NEW r \in Receivers, cb'[r].dec = cb[r].dec,
         cb[r] = R!NoJob <=> cb'[r] = R!NoJob,
         \A t \in Topics : readerList[t] = cb[r].dec /\ cb[r].dec \in Decoders =>
           readerList'[t] = readerList[t]
  PROVE  ReaderRuns(r)' = ReaderRuns(r)
<1>1. CASE cb[r] = R!NoJob
  BY <1>1 DEF ReaderRuns, R!NoJob
<1>2. CASE cb[r] # R!NoJob
  <2>1. PICK t \in Topics : readerList[t] = cb[r].dec
    BY <1>2 DEF ReaderFacts
  <2>2. cb[r].dec \in Decoders
    BY <1>2 DEF ReaderFacts
  <2>3. readerList'[t] = cb[r].dec /\ cb[r].dec # NoDecoder
    BY <2>1, <2>2 DEF ParticipantAssumption
  <2>4. TopicIn(readerList, cb[r].dec) = t
    BY <2>1, <2>3, TopicIs DEF ReaderFacts
  <2>5. \A u \in Topics : readerList'[u] = cb[r].dec => u = t
    BY <2>3 DEF ReaderFacts
  <2>6. TopicIn(readerList', cb[r].dec) = t
    BY <2>3, <2>5, TopicIs
  <2> QED
    BY <1>2, <2>4, <2>6 DEF ReaderRuns, R!NoJob
<1> QED
  BY <1>1, <1>2

(* The same of the writers.                                                *)
LEMMA WriterRunsKept ==
  ASSUME WriterFacts, WriterFacts', writerIgnored = {}, disc'.writer = disc.writer,
         disc = W!NoJob <=> disc' = W!NoJob,
         \A t \in Topics : writerList[t] = disc.writer /\ disc.writer \in Writers =>
           writerList'[t] = writerList[t]
  PROVE  WriterRuns' = WriterRuns
<1>1. CASE disc = W!NoJob
  BY <1>1 DEF WriterRuns, W!NoJob
<1>2. CASE disc # W!NoJob
  <2>1. PICK t \in Topics : writerList[t] = disc.writer
    BY <1>2 DEF WriterFacts
  <2>2. disc.writer \in Writers
    BY <1>2 DEF WriterFacts
  <2>3. writerList'[t] = disc.writer /\ disc.writer # NoWriter
    BY <2>1, <2>2 DEF ParticipantAssumption
  <2>4. TopicIn(writerList, disc.writer) = t
    BY <2>1, <2>3, TopicIs DEF WriterFacts
  <2>5. \A u \in Topics : writerList'[u] = disc.writer => u = t
    BY <2>3 DEF WriterFacts
  <2>6. TopicIn(writerList', disc.writer) = t
    BY <2>3, <2>5, TopicIs
  <2> QED
    BY <1>2, <2>4, <2>6 DEF WriterRuns, W!NoJob
<1> QED
  BY <1>1, <1>2
-----------------------------------------------------------------------------
(* What a change of the view is to ParticipantLifecycle.                   *)
Seen == ({"reader"} \X ReadersIn) \cup ({"writer"} \X WritersIn)

LifeSame == UNCHANGED <<swift, mp_participant, mp_listener, participant,
                        discoveryListener, phase, participantIgnored>>

RunningSame(r) == Running(r)' = Running(r)

(* An endpoint is in place exactly if it is seen.                          *)
LEMMA OwnerIs ==
  /\ Owner = [e \in Endpoints |-> IF e \in Seen THEN mp_participant ELSE Nil]
  /\ Seen \subseteq Endpoints
BY DEF Owner, Endpoints, InPlace, Seen, ReadersIn, WritersIn

(* The same after a step.                                                  *)
LEMMA OwnerIsNext ==
  Owner' = [e \in Endpoints |-> IF e \in Seen' THEN mp_participant' ELSE Nil]
BY DEF Owner, Endpoints, InPlace, Seen, ReadersIn, WritersIn

(* Nothing seen changes: it stutters.                                      *)
LEMMA LifeStutters ==
  ASSUME LifeSame, Seen' = Seen, \A r \in Threads : RunningSame(r)
  PROVE  UNCHANGED L!vars
<1>1. Owner' = Owner
  BY OwnerIs, OwnerIsNext DEF LifeSame
<1>2. [r \in Threads |-> Running(r)]' = [r \in Threads |-> Running(r)]
  BY DEF RunningSame
<1> QED
  BY <1>1, <1>2 DEF LifeSame, L!vars, L!bridge

(* An endpoint appears: it is added.                                       *)
LEMMA LifeAdds ==
  ASSUME LifeSame, \A r \in Threads : RunningSame(r),
         phase = "idle", mp_participant # Nil,
         NEW e \in Endpoints, e \notin Seen, Seen' = Seen \cup {e}
  PROVE  L!Next
<1>1. Owner[e] = Nil
  BY OwnerIs
<1>2. Owner' = [Owner EXCEPT ![e] = mp_participant]
  BY OwnerIs, OwnerIsNext DEF LifeSame
<1>3. [r \in Threads |-> Running(r)]' = [r \in Threads |-> Running(r)]
  BY DEF RunningSame
<1>4. L!AddEndpoint(e)
  BY <1>1, <1>2, <1>3 DEF L!AddEndpoint, L!bridge, LifeSame
<1> QED
  BY <1>4 DEF L!Next, L!Begin

(* An endpoint whose callbacks are over disappears: it is removed.         *)
LEMMA LifeRemoves ==
  ASSUME LifeSame, \A r \in Threads : RunningSame(r),
         phase = "idle" \/ phase \in L!Resigning, mp_participant # Nil,
         NEW e \in Seen, Seen' = Seen \ {e},
         \A r \in Threads : Running(r) # e
  PROVE  L!Next
<1>0. e \in Endpoints
  BY OwnerIs
<1>1. Owner[e] # Nil
  BY <1>0, OwnerIs
<1>2. Owner' = [Owner EXCEPT ![e] = Nil]
  BY OwnerIs, OwnerIsNext DEF LifeSame
<1>3. [r \in Threads |-> Running(r)]' = [r \in Threads |-> Running(r)]
  BY DEF RunningSame
<1>4. L!Quiet(e)
  BY DEF L!Quiet
<1>5. L!RemoveEndpoint(e) \/ L!ResignEndpoint(e)
  BY <1>1, <1>2, <1>3, <1>4 DEF L!RemoveEndpoint, L!ResignEndpoint, L!bridge, LifeSame
<1> QED
  BY <1>0, <1>5 DEF L!Next, L!Begin, L!Continue

(* One thread turns to something else.                                     *)
LEMMA OneTurns ==
  ASSUME NEW r \in Threads, NEW x, Running(r)' = x,
         \A s \in Threads \ {r} : RunningSame(s)
  PROVE  [s \in Threads |-> Running(s)]' = [[s \in Threads |-> Running(s)] EXCEPT ![r] = x]
BY DEF RunningSame

(* A callback starts.                                                      *)
LEMMA LifeEnters ==
  ASSUME LifeSame, Seen' = Seen, NEW r \in Threads, NEW x,
         Running(r) = Nil, Running(r)' = x,
         \A s \in Threads \ {r} : RunningSame(s),
         \A s \in Threads : Running(s) # x,
         \/ x \in Seen /\ mp_participant # Nil
         \/ x \in Attempts /\ participant[x] = "live"
  PROVE  L!Next
<1>1. Owner' = Owner
  BY OwnerIs, OwnerIsNext DEF LifeSame
<1>2. [s \in Threads |-> Running(s)]' = [[s \in Threads |-> Running(s)] EXCEPT ![r] = x]
  BY OneTurns
<1>3. L!Quiet(x)
  BY DEF L!Quiet
<1>4. x \in Attempts \cup Endpoints
  BY OwnerIs
<1>5. IF x \in Attempts THEN participant[x] = "live" ELSE Owner[x] # Nil
  BY OwnerIs DEF ParticipantAssumption, Endpoints
<1>6. L!Enter(r, x)
  BY <1>1, <1>2, <1>3, <1>5 DEF L!Enter, L!bridge, LifeSame
<1> QED
  BY <1>4, <1>6 DEF L!Next, L!Callback

(* A callback ends.                                                        *)
LEMMA LifeLeaves ==
  ASSUME LifeSame, Seen' = Seen, NEW r \in Threads,
         Running(r) # Nil, Running(r)' = Nil,
         \A s \in Threads \ {r} : RunningSame(s)
  PROVE  L!Next
<1>1. Owner' = Owner
  BY OwnerIs, OwnerIsNext DEF LifeSame
<1>2. [s \in Threads |-> Running(s)]' = [[s \in Threads |-> Running(s)] EXCEPT ![r] = Nil]
  BY OneTurns
<1>3. L!Leave(r)
  BY <1>1, <1>2 DEF L!Leave, L!bridge, LifeSame
<1> QED
  BY <1>3 DEF L!Next, L!Callback
-----------------------------------------------------------------------------
(* A step that is not of the writers leaves their part of the view, a step *)
(* that is not of the readers theirs.                                      *)
LEMMA WritersApart ==
  ASSUME UNCHANGED writerVars, UNCHANGED lifeVars
  PROVE  /\ LifeSame /\ WritersIn' = WritersIn
         /\ RunningSame("matching") /\ RunningSame("discovery")
<1>1. WriterRuns' = WriterRuns /\ WritersIn' = WritersIn
  BY DEF WriterRuns, WritersIn, writerVars
<1> QED
  BY <1>1, RunningIs, RunningIsNext DEF RunningAs, RunningSame, LifeSame, lifeVars

(* The same of the readers.                                                *)
LEMMA ReadersApart ==
  ASSUME UNCHANGED readerVars, UNCHANGED lifeVars
  PROVE  /\ LifeSame /\ ReadersIn' = ReadersIn /\ RunningSame("discovery")
         /\ \A r \in Receivers : RunningSame(r)
<1>1. ReadersIn' = ReadersIn
  BY DEF ReadersIn, readerVars
<1>2. ASSUME NEW r \in Receivers PROVE ReaderRuns(r)' = ReaderRuns(r)
  BY DEF ReaderRuns, readerVars
<1> QED
  BY <1>1, <1>2, RunningIs, RunningIsNext
     DEF RunningAs, RunningSame, LifeSame, lifeVars

(* The facts before and after a step.                                      *)
LEMMA FactsHoldNext == HalvesInv' => Facts'
  BY FactsHold, PTL

(* Two kinds of endpoint, one of each per topic.                           *)
LEMMA SeenIs ==
  \A t : /\ <<"reader", t>> \in Seen <=> t \in ReadersIn
         /\ <<"writer", t>> \in Seen <=> t \in WritersIn
BY DEF Seen

(* No thread runs what is another's.                                       *)
LEMMA OthersRun ==
  ASSUME WInv
  PROVE  /\ \A t \in Topics :
              /\ Running("matching") # <<"reader", t>>
              /\ Running("discovery") \notin {<<"reader", t>>, <<"writer", t>>}
              /\ \A r \in Receivers : Running(r) # <<"writer", t>>
         /\ Running("matching") \notin Attempts
         /\ \A r \in Receivers : Running(r) \notin Attempts
<1>1. Facts /\ writerIgnored = {} /\ discovery \in Attempts \cup {Nil}
  BY FactsHold DEF WInv, Phases
<1>2. Running("matching") = Nil \/ \E t \in Topics : Running("matching") = <<"writer", t>>
  BY <1>1, WriterRunsIn, RunningIs DEF RunningAs, Facts, WriterRuns, WritersIn
<1>3. ASSUME NEW r \in Receivers
      PROVE  Running(r) = Nil \/ \E t \in Topics : Running(r) = <<"reader", t>>
  BY <1>1, ReaderRunsIn, RunningIs DEF RunningAs, Facts, ReaderRuns, ReadersIn
<1>4. Running("discovery") \in Attempts \cup {Nil}
  BY <1>1, RunningIs DEF RunningAs
<1> QED
  BY <1>2, <1>3, <1>4 DEF ParticipantAssumption

(* createRTPSReader answered a reader.                                     *)
LEMMA ReaderAppears ==
  ASSUME WInv, WInv', R!ReaderCreated, UNCHANGED writerVars, UNCHANGED lifeVars
  PROVE  L!Next
<1> DEFINE t == readerCall.topic
<1>1. Facts /\ Facts'
  BY FactsHold, FactsHoldNext DEF WInv
<1>2. t \in Topics /\ readerCall.dec \in Decoders /\ readerList[t] = NoDecoder
  BY <1>1 DEF Facts, ReaderCallFacts, R!ReaderCreated, R!At
<1>3. ReadersIn' = ReadersIn \cup {t} /\ t \notin ReadersIn
  BY <1>1, <1>2 DEF Facts, ReaderFacts, ReaderCallFacts, ReadersIn,
                    R!ReaderCreated, R!At, ParticipantAssumption
<1>4. ASSUME NEW r \in Receivers PROVE ReaderRuns(r)' = ReaderRuns(r)
  BY <1>1, <1>2, ReaderRunsKept
     DEF Facts, ReaderFacts, R!ReaderCreated, ParticipantAssumption
<1>5. Seen' = Seen \cup {<<"reader", t>>} /\ <<"reader", t>> \notin Seen
  BY <1>3, WritersApart DEF Seen
<1>6. \A r \in Threads : RunningSame(r)
  BY <1>4, WritersApart, RunningIs, RunningIsNext DEF Threads, RunningAs, RunningSame
<1>7. phase = "idle" /\ mp_participant # Nil
  BY DEF WInv, Phases, Changing, R!ReaderCreated, R!At
<1>8. <<"reader", t>> \in Endpoints
  BY <1>2 DEF Endpoints
<1> QED
  BY <1>5, <1>6, <1>7, <1>8, WritersApart, LifeAdds

(* Fast-DDS removed a reader, in whichever call: its callbacks are over.   *)
LEMMA ReaderDisappears ==
  ASSUME WInv, WInv', NEW t \in Topics, readerList[t] \in Decoders,
         reader[readerList[t]] = "live", R!Removed(readerList[t]),
         UNCHANGED <<readerList, cb>>, UNCHANGED writerVars, UNCHANGED lifeVars,
         phase = "idle" \/ phase \in L!Resigning
  PROVE  L!Next
<1>1. Facts /\ Facts'
  BY FactsHold, FactsHoldNext DEF WInv
<1>2. ReadersIn' = ReadersIn \ {t} /\ t \in ReadersIn
  BY <1>1 DEF Facts, ReaderFacts, ReadersIn, R!Removed, ParticipantAssumption
<1>3. ASSUME NEW r \in Receivers
      PROVE  ReaderRuns(r)' = ReaderRuns(r) /\ ReaderRuns(r) # <<"reader", t>>
  <2>1. ReaderRuns(r)' = ReaderRuns(r)
    BY <1>1, ReaderRunsKept DEF Facts
  <2>2. CASE cb[r] = R!NoJob
    BY <2>2 DEF ReaderRuns, ParticipantAssumption
  <2>3. CASE cb[r] # R!NoJob
    <3>1. PICK u \in ReadersIn : /\ readerList[u] = cb[r].dec
                                 /\ ReaderRuns(r) = <<"reader", u>>
      BY <1>1, <2>3, ReaderRunsIn DEF Facts
    <3>2. u # t
      BY <3>1 DEF R!Removed, R!Quiet
    <3> QED
      BY <2>1, <3>1, <3>2
  <2> QED
    BY <2>1, <2>2, <2>3
<1>4. Seen' = Seen \ {<<"reader", t>>} /\ <<"reader", t>> \in Seen
  BY <1>2, WritersApart DEF Seen
<1>5. \A r \in Threads : RunningSame(r)
  BY <1>3, WritersApart, RunningIs, RunningIsNext DEF Threads, RunningAs, RunningSame
<1>6. mp_participant # Nil
  BY DEF WInv, Phases, ParticipantAssumption
<1>7. Running("matching") # <<"reader", t>> /\ Running("discovery") # <<"reader", t>>
  BY OthersRun
<1> QED
  BY <1>3, <1>4, <1>5, <1>6, <1>7, WritersApart, LifeRemoves, RunningIs
     DEF Threads, RunningAs
(* A step of the readers that changes no reader in place and no callback.  *)
LEMMA ReadersUnseen ==
  ASSUME WInv, WInv', UNCHANGED writerVars, UNCHANGED lifeVars,
         ReadersIn' = ReadersIn,
         \A r \in Receivers : cb'[r].dec = cb[r].dec /\ (cb[r] = R!NoJob <=> cb'[r] = R!NoJob),
         \A t \in ReadersIn : readerList'[t] = readerList[t]
  PROVE  UNCHANGED L!vars
<1>1. Facts /\ Facts'
  BY FactsHold, FactsHoldNext DEF WInv
<1>2. ASSUME NEW r \in Receivers PROVE ReaderRuns(r)' = ReaderRuns(r)
  <2>1. CASE cb[r] = R!NoJob
    BY <2>1 DEF ReaderRuns, R!NoJob
  <2>2. CASE cb[r] # R!NoJob
    <3>1. \A t \in Topics : readerList[t] = cb[r].dec => t \in ReadersIn
      BY <1>1, <2>2 DEF Facts, ReaderFacts, ReadersIn, ParticipantAssumption
    <3> QED
      BY <1>1, <3>1, ReaderRunsKept DEF Facts
  <2> QED
    BY <2>1, <2>2
<1>3. Seen' = Seen
  BY WritersApart DEF Seen
<1>4. \A r \in Threads : RunningSame(r)
  BY <1>2, WritersApart, RunningIs, RunningIsNext DEF Threads, RunningAs, RunningSame
<1> QED
  BY <1>3, <1>4, WritersApart, LifeStutters

(* The steps of a call of the readers.                                     *)
LEMMA ReadersGoOn ==
  ASSUME WInv, WInv', ContinueReaders
  PROVE  L!Next \/ UNCHANGED L!vars
<1> USE DEF R!At, R!Go, R!Return, R!history
<1>1. UNCHANGED writerVars /\ UNCHANGED lifeVars
  BY DEF ContinueReaders
<1>2. Facts /\ readerIgnored' = {}
  BY FactsHold, FactsHoldNext DEF WInv, Facts, ReaderFacts
<1>3. CASE R!ReaderCreated
  BY <1>1, <1>3, ReaderAppears
<1>4. CASE R!UnregisterReader
  <2>1. R!Removed(readerCall.dec)
    BY <1>2, <1>4 DEF R!UnregisterReader, R!RemoveRegardless, R!Refused
  <2>2. phase = "idle"
    BY <1>4 DEF R!UnregisterReader, WInv, Phases, Changing
  <2> QED
    BY <1>1, <1>2, <1>4, <2>1, <2>2, ReaderDisappears
       DEF Facts, ReaderCallFacts, R!UnregisterReader
<1>5. CASE R!ReaderRemoved
  <2>1. phase = "idle"
    BY <1>5 DEF R!ReaderRemoved, WInv, Phases, Changing
  <2> QED
    BY <1>1, <1>2, <1>5, <2>1, ReaderDisappears
       DEF Facts, ReaderCallFacts, R!ReaderRemoved
<1>6. ASSUME NEW t \in Topics, R!ResignReader(t)
      PROVE  L!Next
  <2>1. R!Removed(readerList[t])
    BY <1>2, <1>6 DEF R!ResignReader, R!RemoveRegardless, R!Refused
  <2>2. phase \in L!Resigning
    BY <1>6 DEF R!ResignReader, WInv, Phases, ReaderLoop
  <2>3. t \in ReadersIn
    BY <1>2, <1>6 DEF Facts, ReaderCallFacts, R!ResignReader
  <2>4. readerList[t] \in Decoders /\ reader[readerList[t]] = "live"
    BY <1>2, <2>3 DEF Facts, ReaderFacts, ReadersIn
  <2>5. UNCHANGED <<readerList, cb>>
    BY <1>6 DEF R!ResignReader
  <2> QED
    BY <1>1, <2>1, <2>2, <2>4, <2>5, ReaderDisappears
<1>7. CASE R!RollBackReader \/ R!EraseReader
  <2>1. /\ readerCall.topic \in Topics /\ readerCall.topic \notin ReadersIn
        /\ readerList' = [readerList EXCEPT ![readerCall.topic] = NoDecoder]
        /\ UNCHANGED <<reader, cb>>
    BY <1>2, <1>7 DEF Facts, ReaderCallFacts, ReadersIn, R!RollBackReader, R!EraseReader
  <2>2. \A t \in ReadersIn : readerList'[t] = readerList[t]
    BY <1>2, <2>1 DEF Facts, ReaderFacts, ReadersIn
  <2>3. ReadersIn' = ReadersIn
    BY <1>2, <2>1 DEF Facts, ReaderFacts, ReadersIn
  <2> QED
    BY <1>1, <2>1, <2>2, <2>3, ReadersUnseen
<1>8. CASE R!ReaderNotCreated \/ R!ReaderRegistered \/ R!ReaderNotRegistered
           \/ R!ReaderNotRemoved \/ R!ReleaseDecoder \/ R!ResignRelease
           \/ R!ResignFree
  <2>1. UNCHANGED <<readerList, reader, cb>>
    BY <1>8 DEF R!ReaderNotCreated, R!ReaderRegistered, R!ReaderNotRegistered,
                R!ReaderNotRemoved, R!Refused, R!ReleaseDecoder,
                R!ResignRelease, R!ResignFree
  <2>2. ReadersIn' = ReadersIn
    BY <2>1 DEF ReadersIn
  <2> QED
    BY <1>1, <2>1, <2>2, ReadersUnseen
<1>9. ~R!ResignDone
  BY DEF ContinueReaders, R!ResignDone
<1> QED
  BY <1>3, <1>4, <1>5, <1>6, <1>7, <1>8, <1>9 DEF ContinueReaders, R!Continue

(* The callbacks of the readers.                                           *)
LEMMA ReadersReceive ==
  ASSUME WInv, WInv', Receive
  PROVE  L!Next \/ UNCHANGED L!vars
<1>1. PICK r \in Receivers : R!Receive(r)
  BY DEF Receive
<1>2. UNCHANGED writerVars /\ UNCHANGED lifeVars
  BY DEF Receive
<1>3. Facts /\ Facts'
  BY FactsHold, FactsHoldNext DEF WInv
<1>4. UNCHANGED <<readerList, reader, readerCall>>
  BY <1>1 DEF R!Receive, R!StartDecode, R!SkipDecode, R!EndDecode, R!DropChange
<1>5. ReadersIn' = ReadersIn /\ Seen' = Seen
  BY <1>2, <1>4, WritersApart DEF ReadersIn, Seen
<1>6. ASSUME NEW s \in Receivers \ {r} PROVE cb'[s] = cb[s] /\ RunningSame(s)
  <2>1. cb'[s] = cb[s]
    BY <1>1, <1>3 DEF R!Receive, R!StartDecode, R!SkipDecode, R!EndDecode,
                      R!DropChange, Facts, ReaderFacts
  <2> QED
    BY <1>3, <1>4, <2>1, ReaderRunsKept, RunningIs, RunningIsNext
       DEF Facts, RunningAs, RunningSame
<1>7. \A s \in Threads \ {r} : RunningSame(s)
  BY <1>2, <1>6, WritersApart DEF Threads
<1>8. r \in Threads
  BY DEF Threads
<1>9. ASSUME NEW d \in Decoders, R!StartDecode(r, d) \/ R!SkipDecode(r, d)
      PROVE  L!Next
  <2>1. /\ cb[r] = R!NoJob /\ cb'[r].dec = d /\ cb'[r] # R!NoJob
        /\ \A s \in Receivers : cb[s].dec # d
    BY <1>3, <1>9 DEF R!StartDecode, R!SkipDecode, R!Quiet, R!NoJob, Facts,
                      ReaderFacts, ParticipantAssumption
  <2>2. PICK t \in ReadersIn' : /\ readerList'[t] = d
                                /\ ReaderRuns(r)' = <<"reader", t>>
    BY <1>3, <2>1, RunsInNext DEF RunsIn, Facts, R!NoJob
  <2>3. t \in ReadersIn /\ readerList[t] = d /\ t \in Topics
    BY <1>4, <1>5, <2>2 DEF ReadersIn
  <2>4. Running(r) = Nil /\ Running(r)' = <<"reader", t>>
    BY <2>1, <2>2, RunningIs, RunningIsNext DEF RunningAs, ReaderRuns
  <2>5. \A s \in Threads : Running(s) # <<"reader", t>>
    <3>1. ASSUME NEW s \in Receivers PROVE ReaderRuns(s) # <<"reader", t>>
      <4>1. CASE cb[s] = R!NoJob
        BY <2>3, <4>1 DEF ReaderRuns, ParticipantAssumption
      <4>2. CASE cb[s] # R!NoJob
        BY <1>3, <2>1, <2>3, <4>2, ReaderRunsIn DEF Facts
      <4> QED
        BY <4>1, <4>2
    <3> QED
      BY <2>3, <3>1, OthersRun, RunningIs DEF Threads, RunningAs
  <2>6. <<"reader", t>> \in Seen /\ mp_participant # Nil
    BY <2>3, SeenIs DEF WInv, Phases, ReadersIn
  <2> QED
    BY <1>2, <1>5, <1>7, <1>8, <2>4, <2>5, <2>6, WritersApart, LifeEnters
<1>10. CASE R!EndDecode(r)
  <2>1. cb'[r].dec = cb[r].dec /\ cb[r] # R!NoJob /\ cb'[r] # R!NoJob
    BY <1>3, <1>10 DEF R!EndDecode, R!NoJob, Facts, ReaderFacts
  <2> QED
    BY <1>2, <1>4, <1>5, <1>6, <2>1, ReadersUnseen
<1>11. CASE R!DropChange(r)
  <2>1. cb[r] # R!NoJob /\ cb'[r] = R!NoJob
    BY <1>3, <1>11 DEF R!DropChange, R!NoJob, Facts, ReaderFacts
  <2>2. Running(r)' = Nil
    BY <2>1, RunningIsNext DEF RunningAs, ReaderRuns, R!NoJob
  <2>3. Running(r) # Nil
    BY <1>3, <2>1, ReaderRunsIn, RunningIs
       DEF Facts, RunningAs, ReadersIn, ParticipantAssumption
  <2> QED
    BY <1>2, <1>5, <1>7, <1>8, <2>2, <2>3, WritersApart, LifeLeaves
<1> QED
  BY <1>1, <1>9, <1>10, <1>11 DEF R!Receive
-----------------------------------------------------------------------------
(* The same of the writers: a step that changes nothing the participant    *)
(* sees of them.                                                           *)
LEMMA WritersUnseen ==
  ASSUME WInv, WInv', UNCHANGED readerVars, UNCHANGED lifeVars,
         WritersIn' = WritersIn,
         disc'.writer = disc.writer, disc = W!NoJob <=> disc' = W!NoJob,
         \A t \in WritersIn : writerList'[t] = writerList[t]
  PROVE  UNCHANGED L!vars
<1>1. Facts /\ Facts' /\ writerIgnored = {}
  BY FactsHold, FactsHoldNext DEF WInv, Phases
<1>2. WriterRuns' = WriterRuns
  <2>1. CASE disc = W!NoJob
    BY <2>1 DEF WriterRuns, W!NoJob
  <2>2. CASE disc # W!NoJob
    <3>1. \A t \in Topics : writerList[t] = disc.writer => t \in WritersIn
      BY <1>1, <2>2 DEF Facts, WriterFacts, WritersIn, ParticipantAssumption
    <3> QED
      BY <1>1, <3>1, WriterRunsKept DEF Facts
  <2> QED
    BY <2>1, <2>2
<1>3. Seen' = Seen
  BY ReadersApart DEF Seen
<1>4. \A r \in Threads : RunningSame(r)
  BY <1>2, ReadersApart, RunningIs, RunningIsNext DEF Threads, RunningAs, RunningSame
<1> QED
  BY <1>3, <1>4, ReadersApart, LifeStutters

(* createRTPSWriter answered a writer.                                     *)
LEMMA WriterAppears ==
  ASSUME WInv, WInv', W!WriterCreated, UNCHANGED readerVars, UNCHANGED lifeVars
  PROVE  L!Next
<1> DEFINE t == writerCall.topic
<1>1. Facts /\ Facts' /\ writerIgnored = {}
  BY FactsHold, FactsHoldNext DEF WInv, Phases
<1>2. t \in Topics /\ writerCall.writer \in Writers /\ writerList[t] = NoWriter
  BY <1>1 DEF Facts, WriterCallFacts, W!WriterCreated, W!At
<1>3. WritersIn' = WritersIn \cup {t} /\ t \notin WritersIn
  BY <1>1, <1>2 DEF Facts, WriterFacts, WriterCallFacts, WritersIn,
                    W!WriterCreated, W!At, ParticipantAssumption
<1>4. WriterRuns' = WriterRuns
  BY <1>1, <1>2, WriterRunsKept
     DEF Facts, WriterFacts, W!WriterCreated, W!matchVars, ParticipantAssumption
<1>5. Seen' = Seen \cup {<<"writer", t>>} /\ <<"writer", t>> \notin Seen
  BY <1>3, ReadersApart DEF Seen
<1>6. \A r \in Threads : RunningSame(r)
  BY <1>4, ReadersApart, RunningIs, RunningIsNext DEF Threads, RunningAs, RunningSame
<1>7. phase = "idle" /\ mp_participant # Nil
  BY DEF WInv, Phases, Changing, W!WriterCreated, W!At
<1>8. <<"writer", t>> \in Endpoints
  BY <1>2 DEF Endpoints
<1> QED
  BY <1>5, <1>6, <1>7, <1>8, ReadersApart, LifeAdds

(* Fast-DDS removed a writer, in whichever call: its callback is over.     *)
LEMMA WriterDisappears ==
  ASSUME WInv, WInv', NEW t \in Topics, writerList[t] \in Writers,
         writer[writerList[t]] = "live", W!Removed(writerList[t]),
         UNCHANGED <<writerList, disc>>, UNCHANGED readerVars, UNCHANGED lifeVars,
         phase = "idle" \/ phase \in L!Resigning
  PROVE  L!Next
<1>1. Facts /\ Facts' /\ writerIgnored = {}
  BY FactsHold, FactsHoldNext DEF WInv, Phases
<1>2. WritersIn' = WritersIn \ {t} /\ t \in WritersIn
  BY <1>1 DEF Facts, WriterFacts, WritersIn, W!Removed, ParticipantAssumption
<1>3. WriterRuns' = WriterRuns /\ WriterRuns # <<"writer", t>>
  <2>1. WriterRuns' = WriterRuns
    BY <1>1, WriterRunsKept DEF Facts
  <2>2. CASE disc = W!NoJob
    BY <2>1, <2>2 DEF WriterRuns, ParticipantAssumption
  <2>3. CASE disc # W!NoJob
    <3>1. PICK u \in WritersIn : /\ writerList[u] = disc.writer
                                 /\ WriterRuns = <<"writer", u>>
      BY <1>1, <2>3, WriterRunsIn DEF Facts
    <3>2. u # t
      BY <3>1 DEF W!Removed
    <3> QED
      BY <2>1, <3>1, <3>2
  <2> QED
    BY <2>1, <2>2, <2>3
<1>4. Seen' = Seen \ {<<"writer", t>>} /\ <<"writer", t>> \in Seen
  BY <1>2, ReadersApart DEF Seen
<1>5. \A r \in Threads : RunningSame(r)
  BY <1>3, ReadersApart, RunningIs, RunningIsNext DEF Threads, RunningAs, RunningSame
<1>6. mp_participant # Nil
  BY DEF WInv, Phases, ParticipantAssumption
<1>7. Running("matching") # <<"writer", t>> /\ Running("discovery") # <<"writer", t>>
  BY <1>3, OthersRun, RunningIs DEF RunningAs
<1> QED
  BY <1>4, <1>5, <1>6, <1>7, OthersRun, ReadersApart, LifeRemoves DEF Threads

(* The steps of a call of the writers.                                     *)
LEMMA WritersGoOn ==
  ASSUME WInv, WInv', ContinueWriters
  PROVE  L!Next \/ UNCHANGED L!vars
<1> USE DEF W!At, W!Go, W!Return, W!matchVars, W!ownVars
<1>1. UNCHANGED readerVars /\ UNCHANGED lifeVars
  BY DEF ContinueWriters
<1>2. Facts /\ writerIgnored = {} /\ writerIgnored' = {}
  BY FactsHold DEF WInv, Phases
<1>3. CASE W!WriterCreated
  BY <1>1, <1>3, WriterAppears
<1>4. CASE W!WriterNotRegistered
  <2>1. W!Removed(writerCall.writer)
    BY <1>2, <1>4 DEF W!WriterNotRegistered, W!RemoveRegardless, W!Refused
  <2>2. phase = "idle"
    BY <1>4 DEF W!WriterNotRegistered, WInv, Phases, Changing
  <2> QED
    BY <1>1, <1>2, <1>4, <2>1, <2>2, WriterDisappears
       DEF Facts, WriterCallFacts, W!WriterNotRegistered
<1>5. CASE W!WriterRemoved
  <2>1. phase = "idle"
    BY <1>5 DEF W!WriterRemoved, WInv, Phases, Changing
  <2> QED
    BY <1>1, <1>2, <1>5, <2>1, WriterDisappears
       DEF Facts, WriterCallFacts, W!WriterRemoved
<1>6. ASSUME NEW t \in Topics, W!ResignWriter(t)
      PROVE  L!Next
  <2>1. W!Removed(writerList[t])
    BY <1>2, <1>6 DEF W!ResignWriter, W!RemoveRegardless, W!Refused
  <2>2. phase \in L!Resigning
    BY <1>6 DEF W!ResignWriter, WInv, Phases, WriterLoop
  <2>3. t \in WritersIn
    BY <1>2, <1>6 DEF Facts, WriterCallFacts, W!ResignWriter
  <2>4. writerList[t] \in Writers /\ writer[writerList[t]] = "live"
    BY <1>2, <2>3 DEF Facts, WriterFacts, WritersIn
  <2>5. UNCHANGED <<writerList, disc>>
    BY <1>6 DEF W!ResignWriter
  <2> QED
    BY <1>1, <2>1, <2>2, <2>4, <2>5, WriterDisappears
<1>7. CASE W!RollBackWriter \/ W!EraseWriter
  <2>1. /\ writerCall.topic \in Topics /\ writerCall.topic \notin WritersIn
        /\ writerList' = [writerList EXCEPT ![writerCall.topic] = NoWriter]
        /\ UNCHANGED <<writer, disc>>
    BY <1>2, <1>7 DEF Facts, WriterCallFacts, WritersIn, W!RollBackWriter, W!EraseWriter
  <2>2. \A t \in WritersIn : writerList'[t] = writerList[t]
    BY <1>2, <2>1 DEF Facts, WriterFacts, WritersIn
  <2>3. WritersIn' = WritersIn
    BY <1>2, <2>1 DEF Facts, WriterFacts, WritersIn
  <2> QED
    BY <1>1, <2>1, <2>2, <2>3, WritersUnseen
<1>8. CASE W!WriterNotCreated \/ W!WriterRegistered \/ W!WriterNotRemoved
           \/ W!ResignFree
  <2>1. UNCHANGED <<writerList, writer, disc>>
    BY <1>8 DEF W!WriterNotCreated, W!WriterRegistered, W!WriterNotRemoved,
                W!Refused, W!ResignFree
  <2>2. WritersIn' = WritersIn
    BY <2>1 DEF WritersIn
  <2> QED
    BY <1>1, <2>1, <2>2, WritersUnseen
<1>9. ~W!ResignDone
  BY DEF ContinueWriters, W!ResignDone
<1> QED
  BY <1>3, <1>4, <1>5, <1>6, <1>7, <1>8, <1>9 DEF ContinueWriters, W!Continue

(* The callbacks of the writers.                                           *)
LEMMA WritersMatch ==
  ASSUME WInv, WInv', Matching
  PROVE  L!Next \/ UNCHANGED L!vars
<1>1. UNCHANGED readerVars /\ UNCHANGED lifeVars
  BY DEF Matching
<1>2. Facts /\ Facts' /\ writerIgnored = {} /\ writerIgnored' = {}
  BY FactsHold, FactsHoldNext DEF WInv, Phases
<1>3. UNCHANGED <<writerList, writer>>
  BY DEF Matching, W!Discovery, W!Match, W!Unmatch, W!LoseLiveliness,
         W!OnWriterMatched, W!Notified, W!mapVars, W!ownVars
<1>4. WritersIn' = WritersIn /\ Seen' = Seen
  BY <1>1, <1>3, ReadersApart DEF WritersIn, Seen
<1>5. /\ \A s \in Threads \ {"matching"} : RunningSame(s)
      /\ "matching" \in Threads
  BY <1>1, ReadersApart DEF Threads
<1>6. ASSUME NEW w \in Writers,
             (\E p \in Remotes : W!Match(w, p) \/ W!Unmatch(w, p)) \/ W!LoseLiveliness(w)
      PROVE  L!Next
  <2>1. disc = W!NoJob /\ disc' # W!NoJob
    BY <1>6 DEF W!Match, W!Unmatch, W!LoseLiveliness, W!NoJob
  <2>2. PICK t \in WritersIn' : WriterRuns' = <<"writer", t>>
    BY <1>2, <2>1, RunsInNext DEF RunsIn, Facts, W!NoJob
  <2>3. t \in WritersIn /\ t \in Topics
    BY <1>4, <2>2 DEF WritersIn
  <2>4. Running("matching") = Nil /\ Running("matching")' = <<"writer", t>>
    BY <2>1, <2>2, RunningIs, RunningIsNext DEF RunningAs, WriterRuns
  <2>5. \A s \in Threads : Running(s) # <<"writer", t>>
    BY <2>3, <2>4, OthersRun DEF Threads, ParticipantAssumption
  <2>6. <<"writer", t>> \in Seen /\ mp_participant # Nil
    BY <2>3, SeenIs DEF WInv, Phases, WritersIn
  <2> QED
    BY <1>1, <1>4, <1>5, <2>4, <2>5, <2>6, ReadersApart, LifeEnters
<1>7. CASE W!OnWriterMatched
  <2>1. disc'.writer = disc.writer /\ disc # W!NoJob /\ disc' # W!NoJob
    BY <1>2, <1>7 DEF W!OnWriterMatched, W!NoJob, Facts, WriterFacts
  <2> QED
    BY <1>1, <1>3, <1>4, <2>1, WritersUnseen
<1>8. CASE W!Notified
  <2>1. disc # W!NoJob /\ disc' = W!NoJob
    BY <1>8 DEF W!Notified, W!NoJob
  <2>2. Running("matching")' = Nil
    BY <2>1, RunningIsNext DEF RunningAs, WriterRuns, W!NoJob
  <2>3. Running("matching") # Nil
    BY <1>2, <2>1, WriterRunsIn, RunningIs
       DEF Facts, RunningAs, WritersIn, ParticipantAssumption
  <2> QED
    BY <1>1, <1>4, <1>5, <2>2, <2>3, ReadersApart, LifeLeaves
<1> QED
  BY <1>6, <1>7, <1>8 DEF Matching, W!Discovery
-----------------------------------------------------------------------------
(* The two ends of resignAll: no reader is in place when its first loop is *)
(* over, and no endpoint at all when the second is.                        *)
LEMMA LoopsEnd ==
  ASSUME WInv, WInv', ReadersResigned \/ WritersResigned
  PROVE  L!Next \/ UNCHANGED L!vars
<1>1. Facts /\ writerIgnored = {} /\ Facts'
  BY FactsHold, FactsHoldNext DEF WInv, Phases
<1>2. CASE ReadersResigned
  <2>1. ReadersIn = {} /\ UNCHANGED <<cb, writerList, writer, disc>>
    BY <1>1, <1>2 DEF ReadersResigned, R!ResignDone, R!At, Facts,
                      ReaderCallFacts, W!ResignAll, W!ownVars, W!matchVars
  <2>2. ReadersIn' = {}
    BY <1>2 DEF ReadersResigned, R!ResignDone, ReadersIn
  <2>3. ASSUME NEW r \in Receivers PROVE RunningSame(r)
    BY <1>1, <2>1, ReaderRunsIn, RunningIs, RunningIsNext
       DEF Facts, ReaderRuns, RunningAs, RunningSame
  <2>4. WritersIn' = WritersIn /\ WriterRuns' = WriterRuns
    BY <2>1 DEF WritersIn, WriterRuns
  <2>5. RunningSame("matching") /\ RunningSame("discovery") /\ LifeSame
    BY <1>2, <2>4, RunningIs, RunningIsNext
       DEF RunningAs, RunningSame, ReadersResigned, LifeSame, lifeVars
  <2> QED
    BY <2>1, <2>2, <2>3, <2>4, <2>5, LifeStutters DEF Seen, Threads
<1>3. CASE WritersResigned
  <2>1. WritersIn = {} /\ UNCHANGED disc /\ UNCHANGED readerVars
    BY <1>1, <1>3 DEF WritersResigned, W!ResignDone, W!At, Facts,
                      WriterCallFacts, W!matchVars
  <2>2. WritersIn' = {}
    BY <1>3 DEF WritersResigned, W!ResignDone, WritersIn
  <2>3. ReadersIn = {} /\ phase \in L!Resigning
    BY <1>3 DEF WritersResigned, W!ResignDone, W!At, WInv, Phases,
                WriterLoop, ReadersIn
  <2>4. ReadersIn' = ReadersIn
    BY <2>1 DEF ReadersIn, readerVars
  <2>5. Owner' = Owner /\ \A e \in Endpoints : Owner[e] = Nil
    BY <2>1, <2>2, <2>3, <2>4, OwnerIs, OwnerIsNext DEF Seen
  <2>6. \A r \in Receivers : ReaderRuns(r)' = ReaderRuns(r)
    BY <2>1 DEF ReaderRuns, readerVars
  <2>7. WriterRuns' = WriterRuns
    BY <1>1, <2>1, WriterRunsIn DEF Facts, WriterRuns
  <2>8. \A r \in Threads : RunningSame(r)
    BY <1>3, <2>6, <2>7, RunningIs, RunningIsNext
       DEF Threads, RunningAs, RunningSame, WritersResigned
  <2>9. [r \in Threads |-> Running(r)]' = [r \in Threads |-> Running(r)]
    BY <2>8 DEF RunningSame
  <2>10. L!Resigned
    BY <1>3, <2>3, <2>5, <2>9 DEF L!Resigned, L!bridge, WritersResigned
  <2> QED
    BY <2>10 DEF L!Next, L!Continue
<1> QED
  BY <1>2, <1>3

(* The callbacks of discovery.                                             *)
LEMMA DiscoveryGoesOn ==
  ASSUME WInv, Discover \/ Discovered
  PROVE  L!Next
<1>1. UNCHANGED readerVars /\ UNCHANGED writerVars /\ LifeSame
  BY DEF Discover, Discovered, LifeSame
<1>2. /\ ReadersIn' = ReadersIn /\ WritersIn' = WritersIn
      /\ WriterRuns' = WriterRuns
      /\ \A r \in Receivers : ReaderRuns(r)' = ReaderRuns(r)
  BY <1>1 DEF ReadersIn, WritersIn, WriterRuns, ReaderRuns, readerVars, writerVars
<1>3. Seen' = Seen
  BY <1>2 DEF Seen
<1>4. \A r \in Threads \ {"discovery"} : RunningSame(r)
  BY <1>2, RunningIs, RunningIsNext DEF Threads, RunningAs, RunningSame
<1>5. "discovery" \in Threads
  BY DEF Threads
<1>6. Running("discovery") = discovery /\ Running("discovery")' = discovery'
  BY RunningIs, RunningIsNext DEF RunningAs
<1>7. CASE Discover
  <2>1. discovery = Nil /\ discovery' \in Attempts /\ participant[discovery'] = "live"
    BY <1>7 DEF Discover
  <2>2. \A s \in Threads : Running(s) # discovery'
    BY <1>6, <2>1, OthersRun DEF Threads, ParticipantAssumption
  <2> QED
    BY <1>1, <1>3, <1>4, <1>5, <1>6, <2>1, <2>2, LifeEnters
<1>8. CASE Discovered
  <2>1. discovery # Nil /\ discovery' = Nil
    BY <1>8 DEF Discovered
  <2> QED
    BY <1>1, <1>3, <1>4, <1>5, <1>6, <2>1, LifeLeaves
<1> QED
  BY <1>7, <1>8

(* Calls that begin with a lookup, and sends, are not seen.                *)
LEMMA UnseenSteps ==
  ASSUME WInv, WInv', BeginReaders \/ BeginWriters \/ Sending \/ UNCHANGED vars
  PROVE  UNCHANGED L!vars
<1>1. CASE BeginReaders
  <2>1. UNCHANGED <<readerList, reader, cb>>
    BY <1>1 DEF BeginReaders, R!AddReaderDuplicate, R!AddReader,
                R!RemoveReader, R!history
  <2>2. ReadersIn' = ReadersIn
    BY <2>1 DEF ReadersIn
  <2> QED
    BY <1>1, <2>1, <2>2, ReadersUnseen DEF BeginReaders
<1>2. CASE BeginWriters \/ Sending
  <2>1. UNCHANGED <<writerList, writer, disc>>
    BY <1>2 DEF BeginWriters, Sending, W!AddWriter, W!RemoveWriter, W!Sending,
                W!Send, W!ReadSize, W!DropHistory, W!NewChange,
                W!NoNewChange, W!CleanHistory, W!StoreThroughNull,
                W!AddChange, W!mapVars, W!ownVars, W!matchVars
  <2>2. WritersIn' = WritersIn
    BY <2>1 DEF WritersIn
  <2> QED
    BY <1>2, <2>1, <2>2, WritersUnseen DEF BeginWriters, Sending
<1>3. CASE UNCHANGED vars
  <2>1. UNCHANGED <<readerList, reader, cb>>
    BY <1>3 DEF vars, readerVars
  <2>2. ReadersIn' = ReadersIn
    BY <2>1 DEF ReadersIn
  <2> QED
    BY <1>3, <2>1, <2>2, ReadersUnseen DEF vars
<1> QED
  BY <1>1, <1>2, <1>3

(* Each step of the object is a step of its life cycle, or none.           *)
LEMMA LifeStep ==
  ASSUME WInv, WInv', [Next]_vars
  PROVE  L!Next \/ UNCHANGED L!vars
<1>1. CASE CallParticipant
  BY <1>1 DEF CallParticipant, L!Next, L!Begin, L!Continue
<1>2. CASE ResignAll
  BY <1>2 DEF ResignAll, L!Next, L!Begin, L!Continue
<1>3. CASE StopAll
  BY <1>3 DEF StopAll, L!Next, L!Begin
<1> QED
  BY <1>1, <1>2, <1>3, ReadersGoOn, ReadersReceive, WritersGoOn, WritersMatch,
     LoopsEnd, DiscoveryGoesOn, UnseenSteps DEF Next, Begin, Continue

(* The object as a whole is a ParticipantLifecycle, with the readers and   *)
(* the writers Fast-DDS has for endpoints: what holds of any life cycle    *)
(* holds of the composition, for every number of its parts.                *)
THEOREM WholeImplementsLifecycle == Spec => ImplementsLifecycle
<1>1. Init => L!Init
  <2> SUFFICES ASSUME Init PROVE L!Init
    OBVIOUS
  <2>1. ReadersIn = {} /\ WritersIn = {}
    BY DEF Init, R!Init, W!Init, ReadersIn, WritersIn
  <2>2. Owner = [e \in Endpoints |-> Nil]
    BY <2>1, OwnerIs DEF Seen
  <2>3. \A r \in Threads : Running(r) = Nil
    BY RunningIs DEF Init, R!Init, W!Init, Threads, RunningAs, ReaderRuns, WriterRuns
  <2> QED
    BY <2>2, <2>3 DEF Init, L!Init
<1>2. WInv /\ WInv' /\ [Next]_vars => [L!Next]_(L!vars)
  BY LifeStep
<1> QED
  BY <1>1, <1>2, WholeInvariance, PTL DEF Spec, ImplementsLifecycle, L!Spec
-----------------------------------------------------------------------------
(* What follows of the whole: first from its being a life cycle.           *)
PL == INSTANCE ParticipantLifecycleProofs WITH
        listener <- discoveryListener, step <- phase, owner <- Owner,
        cb <- [r \in Threads |-> Running(r)], ignored <- participantIgnored,
        RemovalMayFail <- ParticipantRemovalMayFail,
        CreateAgain <- FALSE, DropEarly <- FALSE

(* Its definitions under the name of the module of its proofs.             *)
LEMMA SameLife ==
  /\ L!Init <=> PL!Init
  /\ L!Next <=> PL!Next
  /\ L!vars = PL!vars /\ (L!vars)' = (PL!vars)'
BY Zenon
   DEF L!bridge, L!vars, L!Init, L!Quiet, L!CreateParticipant,
       L!ParticipantEnabled, L!ParticipantCreated, L!ParticipantNotCreated,
       L!AddEndpoint, L!RemoveEndpoint, L!Resigning, L!ResignAll,
       L!ResignEndpoint, L!AfterResign, L!Resigned, L!RemoveParticipant,
       L!DeleteWithout, L!StopAnnouncement, L!ParticipantRemoved,
       L!ParticipantNotRemoved, L!DeleteListener, L!StopAll, L!Drop, L!Enter, L!Leave, L!Begin,
       L!Continue, L!Callback, L!Next,
       PL!bridge, PL!vars, PL!Init, PL!Quiet, PL!CreateParticipant,
       PL!ParticipantEnabled, PL!ParticipantCreated,
       PL!ParticipantNotCreated, PL!AddEndpoint, PL!RemoveEndpoint,
       PL!Resigning, PL!ResignAll, PL!ResignEndpoint, PL!AfterResign,
       PL!Resigned, PL!RemoveParticipant, PL!DeleteWithout,
       PL!StopAnnouncement, PL!ParticipantRemoved,
       PL!ParticipantNotRemoved, PL!DeleteListener, PL!StopAll,
       PL!Drop, PL!Enter, PL!Leave, PL!Begin, PL!Continue, PL!Callback,
       PL!Next

(* The assumption of ParticipantLifecycle holds of the endpoints here.     *)
LEMMA LifecycleAssumed == /\ Nil \notin Attempts \cup Endpoints
                          /\ Attempts \cap Endpoints = {}
                          /\ FALSE \in BOOLEAN
                          /\ ParticipantRemovalMayFail \in BOOLEAN
BY DEF ParticipantAssumption, Endpoints

(* The inductive invariant of the life cycle, of the whole.                *)
LEMMA LifeInvariance == Spec => []PL!LInv
<1>1. L!Init => PL!LInv
  BY SameLife, LifecycleAssumed, PL!InitLInv DEF PL!InitLInv
<1>2. PL!LInv /\ [L!Next]_(L!vars) => PL!LInv'
  BY SameLife, LifecycleAssumed, PL!StepLInv DEF PL!StepLInv
<1> QED
  BY <1>1, <1>2, WholeImplementsLifecycle, PTL DEF ImplementsLifecycle, L!Spec

(* Every variable of the whole keeps its type.                             *)
THEOREM WholeTyped == Spec => []TypeOK
<1>1. HalvesInv /\ PL!LInv => TypeOK
  <2>1. HalvesInv => R!TypeOK
    BY Zenon DEF HalvesInv, RP!IInv, RP!TypeOK, R!TypeOK, R!Steps, RP!Steps
  <2>2. HalvesInv => W!TypeOK
    BY Zenon DEF HalvesInv, WP!TypeInv, WP!TypeOK, W!TypeOK, W!Steps, WP!Steps,
                 W!SendSteps, WP!SendSteps, W!Samples, WP!Samples, W!NoSample,
                 WP!NoSample
  <2>3. PL!LInv => L!TypeOK
    BY Zenon DEF PL!LInv, PL!TypeOK, L!TypeOK, PL!Resigning, L!Resigning
  <2> QED
    BY <2>1, <2>2, <2>3 DEF TypeOK
<1> QED
  BY <1>1, HalvesInvariance, LifeInvariance, PTL

(* What is known of the sends under way holds in the whole.                *)
LEMMA SendsInvariance == Spec => []WP!SendsOK
<1>1. Init => WP!SendsOK
  BY SameWriters, WP!InitSendsOK
     DEF WP!InitSendsOK, Init, WP!IsFiniteSet, IsFiniteSet
<1>2. HalvesInv /\ WP!SendsOK /\ [Next]_vars => WP!SendsOK'
  BY HalvesNext, WP!StepSendsOK
     DEF WP!StepSendsOK, HalvesInv, WP!IsFiniteSet, IsFiniteSet
<1> QED
  BY <1>1, <1>2, HalvesInvariance, PTL DEF Spec

(* An endpoint in place has its participant behind it.                     *)
LEMMA OwnerThere ==
  ASSUME PL!LInv, NEW e \in Endpoints, InPlace(e), mp_participant # Nil
  PROVE  ParticipantThere
<1>1. Owner[e] = mp_participant
  BY DEF Owner
<1>2. participant[mp_participant] = "live" /\ phase \notin {"removed", "stopped"}
  BY <1>1 DEF PL!LInv, PL!Endings
<1>3. swift = "live"
  BY <1>2 DEF PL!LInv, PL!TypeOK, PL!Pointers, PL!Over
<1> QED
  BY <1>2, <1>3 DEF ParticipantThere

(* Callbacks of readers, matches, sends and discovery find all they use,   *)
(* in every part, at every step of every call: a callback or a send has an *)
(* entry of a map under it (FactsHold, SendServed), the entry a            *)
(* participant (Phases), and the life cycle says the rest.                 *)
THEOREM EverybodyServed == Spec => []UsersServed
<1>1. WInv /\ WP!SendsOK /\ PL!LInv => UsersServed
  <2> SUFFICES ASSUME WInv, WP!SendsOK, PL!LInv PROVE UsersServed
    OBVIOUS
  <2>1. ReaderFacts /\ WriterFacts
    BY FactsHold DEF WInv, Facts
  <2>2. readerIgnored = {} /\ writerIgnored = {}
    BY <2>1 DEF WInv, Phases, ReaderFacts
  <2>3. ASSUME NEW t \in Topics,
               \/ readerList[t] # NoDecoder /\ reader[readerList[t]] = "live"
               \/ writerList[t] # NoWriter /\ writer[writerList[t]] = "live"
        PROVE  ParticipantThere
    <3>1. mp_participant # Nil
      BY <2>3 DEF WInv, Phases
    <3>2. <<"reader", t>> \in Endpoints /\ <<"writer", t>> \in Endpoints
      BY DEF Endpoints
    <3>3. InPlace(<<"reader", t>>) \/ InPlace(<<"writer", t>>)
      BY <2>3 DEF InPlace
    <3> QED
      BY <3>1, <3>2, <3>3, OwnerThere
  <2>4. ASSUME NEW r \in Receivers, cb[r] # R!NoJob
        PROVE  /\ listener[cb[r].dec] = "live" /\ ParticipantThere
               /\ cb[r].step = "decode" => proxy[cb[r].dec] = "retained"
    <3>1. /\ cb[r].dec \in Decoders /\ reader[cb[r].dec] = "live"
          /\ \E t \in Topics : readerList[t] = cb[r].dec
      BY <2>1, <2>4 DEF ReaderFacts
    <3>2. ParticipantThere
      BY <2>3, <3>1, ParticipantAssumption
    <3>3. /\ listener[cb[r].dec] = "live"
          /\ cb[r].step = "decode" => proxy[cb[r].dec] = "retained"
      BY <2>1, <2>2, <2>4, <3>1
         DEF WInv, HalvesInv, ReaderFacts, RP!IInv, RP!TypeOK, RP!Steps,
             RP!CallOK, RP!CurrentOK, RP!OthersOK, RP!Has, RP!Gone, RP!Whole,
             RP!Unused, RP!Finished, RP!CbOK
    <3> QED
      BY <3>2, <3>3
  <2>5. ASSUME disc # W!NoJob
        PROVE  info[disc.writer] = "live" /\ ParticipantThere
    <3>1. /\ disc.writer \in Writers /\ writer[disc.writer] = "live"
          /\ \E t \in Topics : writerList[t] = disc.writer
      BY <2>1, <2>2, <2>5 DEF WriterFacts
    <3>2. ParticipantThere
      BY <2>3, <3>1, ParticipantAssumption
    <3>3. WP!MapTypes
      BY DEF WInv, HalvesInv, WP!MapTypes, WP!TypeInv, WP!TypeOK
    <3>4. info[disc.writer] = "live"
      <4>1. CASE disc.writer = writerCall.writer
        BY <2>2, <3>1, <3>3, <4>1
           DEF WInv, HalvesInv, WP!MapTypes, WP!Shape, WP!Steps, WP!OwnInv,
               WP!CurrentOK, WP!Whole
      <4>2. CASE disc.writer # writerCall.writer
        BY <2>2, <3>1, <4>2
           DEF WInv, HalvesInv, WP!OwnInv, WP!OthersOK, WP!Whole, WP!Finished,
               WP!Gone
      <4> QED
        BY <4>1, <4>2
    <3> QED
      BY <3>2, <3>4
  <2>6. ASSUME NEW s \in Senders, snd[s] # W!NoSend
        PROVE  /\ info[snd[s].writer] = "live" /\ writer[snd[s].writer] = "live"
               /\ ParticipantThere
    <3>1. /\ snd[s].writer \in Writers /\ WP!Whole(snd[s].writer)
          /\ \E t \in Topics : writerList[t] = snd[s].writer
      BY <2>6, WP!SendServed
         DEF WP!SendServed, WInv, HalvesInv, WP!IsFiniteSet, IsFiniteSet,
             WP!NoSend, W!NoSend, WP!Listed
    <3> QED
      BY <2>3, <3>1, ParticipantAssumption DEF WP!Whole
  <2>7. ASSUME discovery \notin participantIgnored \cup {Nil}
        PROVE  discoveryListener[discovery] = "live" /\ swift = "live"
    <3>1. Running("discovery") = discovery /\ discovery \in Attempts
      BY <2>7 DEF Running, WInv, Phases
    <3>2. participant[discovery] = "live"
      BY <3>1 DEF PL!LInv, PL!Endings, Threads
    <3>3. discovery \notin PL!Lost
      BY DEF PL!LInv, PL!NoneLost
    <3> QED
      BY <2>7, <3>1, <3>2, <3>3 DEF PL!LInv, PL!TypeOK, PL!Pointers, PL!Listeners,
                             PL!Lost, PL!Over, PL!Creating
  <2> QED
    BY <2>4, <2>5, <2>6, <2>7 DEF UsersServed
<1> QED
  BY <1>1, WholeInvariance, SendsInvariance, LifeInvariance, PTL

(* removeParticipant leaves no reader, writer or listener behind, no proxy *)
(* retained but those a roll-back of addReader forgot, and no participant  *)
(* but one whose removal was refused: its two passes over the maps reach   *)
(* everything that was registered.                                         *)
THEOREM RemovalLeavesNothing == Spec => []NothingLeft
<1>1. WInv /\ PL!LInv => NothingLeft
  <2> SUFFICES ASSUME WInv, PL!LInv, phase = "removed"
               PROVE  /\ \A a \in Attempts :
                           participant[a] = "live" => a \in participantIgnored
                      /\ \A d \in Decoders : /\ reader[d] # "live" /\ listener[d] # "live"
                                             /\ proxy[d] = "retained" => d \in leaked
                      /\ \A w \in Writers : writer[w] # "live" /\ info[w] # "live"
    BY DEF NothingLeft
  <2>1. /\ readerCall.step = "idle" /\ writerCall.step = "idle"
        /\ \A t \in Topics : readerList[t] = NoDecoder /\ writerList[t] = NoWriter
        /\ writerIgnored = {}
    BY DEF WInv, Phases
  <2>2. ASSUME NEW d \in Decoders
        PROVE  /\ reader[d] # "live" /\ listener[d] # "live"
               /\ proxy[d] = "retained" => d \in leaked
    <3>1. readerCall.dec = NoDecoder /\ readerIgnored = {}
      BY <2>1 DEF WInv, HalvesInv, RP!IInv, RP!CallOK, RP!RefusalOK
    <3>2. RP!Unused(d) \/ RP!Finished(d)
      BY <2>1, <3>1 DEF WInv, HalvesInv, RP!IInv, RP!OthersOK, RP!Listed,
                        ParticipantAssumption
    <3> QED
      BY <3>1, <3>2 DEF RP!Unused, RP!Finished, RP!Gone, RP!Has
  <2>3. ASSUME NEW w \in Writers PROVE writer[w] # "live" /\ info[w] # "live"
    <3>1. writerCall.writer = NoWriter
      BY <2>1 DEF WInv, HalvesInv, WP!TypeInv, WP!Shape
    <3>2. WP!Unused(w) \/ WP!Finished(w)
      BY <2>1, <3>1 DEF WInv, HalvesInv, WP!OwnInv, WP!OthersOK, WP!Listed,
                        ParticipantAssumption
    <3> QED
      BY <2>1, <3>2 DEF WP!Unused, WP!Finished, WP!Gone
  <2>4. ASSUME NEW a \in Attempts, participant[a] = "live"
        PROVE  a \in participantIgnored
    <3>1. a = mp_participant
      BY <2>4 DEF PL!LInv, PL!NoneLost, PL!Lost
    <3> QED
      BY <2>4, <3>1, ParticipantAssumption DEF PL!LInv, PL!Pointers
  <2> QED
    BY <2>2, <2>3, <2>4
<1> QED
  BY <1>1, WholeInvariance, LifeInvariance, PTL

(* Of the whole, as of the abstract life cycle: callbacks find the Swift   *)
(* object and listeners, but for those of a participant that Fast-DDS      *)
(* refused to remove; the pointer of the participant dangles nowhere, none *)
(* goes out of reach, and a removal leaves the listeners of failed attempts*)
(* and what it was refused.                                                *)
THEOREM WholeLivesWell ==
  Spec => [](L!CallbackSafe /\ L!PointerLive /\ L!OnlyFailedLeft /\ L!Lost = {})
<1>1. PL!LInv => L!Lost = {}
  BY Zenon DEF PL!LInv, PL!NoneLost, PL!Lost, L!Lost
<1>2. PL!LInv => L!CallbackSafe
  BY DEF PL!LInv, PL!TypeOK, PL!Pointers, PL!Listeners, PL!Endings, PL!Over,
         PL!Creating, L!Lost, L!DroppedEarly, L!CallbackSafe
<1>3. PL!LInv => L!PointerLive
  BY DEF PL!LInv, PL!Pointers, PL!Endings, L!PointerLive
<1>4. PL!LInv => L!OnlyFailedLeft
  BY DEF PL!LInv, PL!TypeOK, PL!Pointers, PL!Listeners, PL!Over, L!Lost,
         L!OnlyFailedLeft
<1> QED
  BY <1>1, <1>2, <1>3, <1>4, LifeInvariance, PTL

(* Where the steps of a removal lead, part by part.                        *)
LEMMA StepRemoval ==
  ASSUME WInv, [Next]_vars, L!Ahead(phase) > 0,
         <<phase, readerCall, readerTodo, writerCall, writerTodo>>'
           # <<phase, readerCall, readerTodo, writerCall, writerTodo>>
  PROVE  \/ L!Ahead(phase') < L!Ahead(phase)
         \/ phase' = phase /\ ReadersNearer
         \/ UNCHANGED <<phase, readerCall, readerTodo>> /\ WritersNearer
<1>1. phase \in {"resignWrapper", "delete", "resignDestructor", "remove",
                 "deleteListener"}
  BY DEF L!Ahead
<1>2. CASE ContinueReaders
  <2>1. /\ readerCall.step # "idle" /\ UNCHANGED <<phase, writerCall, writerTodo>>
    BY <1>2 DEF ContinueReaders, writerVars, lifeVars, R!Continue, R!At,
         R!ReaderCreated, R!ReaderNotCreated, R!ReaderRegistered,
         R!ReaderNotRegistered, R!UnregisterReader, R!RollBackReader,
         R!ReaderRemoved, R!ReaderNotRemoved, R!EraseReader,
         R!ReleaseDecoder, R!ResignReader, R!ResignRelease, R!ResignFree,
         R!ResignDone
  <2>2. <<readerCall, readerTodo>>' # <<readerCall, readerTodo>>
    BY <2>1
  <2>3. /\ readerTodo' \subseteq readerTodo
        /\ readerTodo' # readerTodo
             \/ RP!Rank(readerCall'.step) < RP!Rank(readerCall.step)
    BY <2>1, <2>2, HalvesNext, RP!StepAdvances
       DEF RP!StepAdvances, WInv, HalvesInv, RP!At
  <2> QED
    BY <2>1, <2>3 DEF ReadersNearer, R!Rank, RP!Rank
<1>3. CASE ContinueWriters
  <2>1. writerCall.step # "idle" /\ UNCHANGED <<phase, readerCall, readerTodo>>
    BY <1>3 DEF ContinueWriters, readerVars, lifeVars, W!Continue, W!At,
         W!WriterCreated, W!WriterNotCreated, W!WriterRegistered,
         W!WriterNotRegistered, W!RollBackWriter, W!WriterRemoved,
         W!WriterNotRemoved, W!EraseWriter, W!ResignWriter, W!ResignFree,
         W!ResignDone
  <2>2. <<writerCall, writerTodo>>' # <<writerCall, writerTodo>>
    BY <2>1
  <2>3. /\ writerTodo' \subseteq writerTodo
        /\ writerTodo' # writerTodo
             \/ WP!Rank(writerCall'.step) < WP!Rank(writerCall.step)
    BY <2>1, <2>2, HalvesNext, WP!StepAdvances
       DEF WP!StepAdvances, WInv, HalvesInv, WP!At, WP!IsFiniteSet, IsFiniteSet
  <2> QED
    BY <2>1, <2>3 DEF WritersNearer, W!Rank, WP!Rank
<1>4. CASE ReadersResigned
  <2>1. /\ readerCall.step = "resign" /\ readerCall'.step = "idle"
        /\ readerTodo' = readerTodo /\ phase' = phase
    BY <1>4 DEF ReadersResigned, R!ResignDone, R!At, R!Return, R!Idle, lifeVars
  <2> QED
    BY <2>1 DEF ReadersNearer, R!Rank
<1>5. CASE WritersResigned
  <2>1. phase \in {"resignWrapper", "resignDestructor"}
    BY <1>1, <1>5 DEF WritersResigned, W!ResignDone, W!At, WInv, Phases,
                      WriterLoop, L!Resigning
  <2> QED
    BY <1>5, <2>1 DEF WritersResigned, L!AfterResign, L!Ahead
<1>6. CASE ResignAll
  BY <1>1, <1>6 DEF ResignAll, L!ResignAll, L!RemoveParticipant,
                    L!StopAnnouncement, L!Ahead
<1>7. CASE CallParticipant
  BY <1>1, <1>7 DEF CallParticipant, readerVars, writerVars, Free,
         L!CreateParticipant, L!ParticipantEnabled, L!ParticipantCreated,
         L!ParticipantNotCreated, L!DeleteWithout, L!ParticipantRemoved,
         L!ParticipantNotRemoved, L!DeleteListener, L!Drop, L!Ahead
<1>8. ~(BeginReaders \/ BeginWriters \/ StopAll \/ Sending)
  BY <1>1 DEF BeginReaders, BeginWriters, StopAll, Sending, Free
<1>9. ~(Receive \/ Matching \/ Discover \/ Discovered \/ UNCHANGED vars)
  BY DEF Receive, R!Receive, R!StartDecode, R!SkipDecode, R!EndDecode,
         R!DropChange, Matching, W!Discovery, W!Match, W!Unmatch,
         W!LoseLiveliness, W!OnWriterMatched, W!Notified, W!mapVars,
         Discover, Discovered, vars, readerVars, writerVars, lifeVars
<1> QED
  BY <1>2, <1>3, <1>4, <1>5, <1>6, <1>7, <1>8, <1>9 DEF Next, Begin, Continue

(* A removal takes boundedly many steps, whatever runs beside it: two      *)
(* passes with three for each reader and two for each writer, and those in *)
(* between.  What is left to fairness is that each of them is taken.       *)
THEOREM RemovalGoesOneWay == Spec => RemovalAdvances
<1>1. WInv /\ [Next]_vars =>
        [/\ L!Ahead(phase) > 0
         /\ <<phase, readerCall, readerTodo, writerCall, writerTodo>>'
              # <<phase, readerCall, readerTodo, writerCall, writerTodo>>
         => \/ L!Ahead(phase') < L!Ahead(phase)
            \/ phase' = phase /\ ReadersNearer
            \/ UNCHANGED <<phase, readerCall, readerTodo>> /\ WritersNearer]_vars
  BY StepRemoval
<1> QED
  BY <1>1, WholeInvariance, PTL DEF Spec, RemovalAdvances

(* Nor does a removal of the whole ever go back: its readers and writers   *)
(* disappear one by one, none is added under it, and resignAll is passed   *)
(* twice and no more.                                                      *)
THEOREM WholeRemovalAdvances == Spec => L!RemovalAdvances
<1>1. PL!LInv /\ [L!Next]_(L!vars) =>
        [L!Ahead(phase) > 0 /\ <<phase, Owner>>' # <<phase, Owner>> =>
           /\ L!Owned' \subseteq L!Owned
           /\ L!Owned' # L!Owned \/ L!Ahead(phase') < L!Ahead(phase)]_(L!vars)
  BY SameLife, LifecycleAssumed, PL!StepAhead
     DEF PL!StepAhead, PL!Ahead, L!Ahead, PL!Owned, L!Owned
<1> QED
  BY <1>1, LifeInvariance, WholeImplementsLifecycle, PTL
     DEF ImplementsLifecycle, L!Spec, L!RemovalAdvances

=============================================================================
