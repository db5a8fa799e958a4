------------------------ MODULE BridgedWritersProofs ------------------------
(***************************************************************************)
(* Safety of the writer half, for any number of topics, registrations,     *)
(* remote readers and sending threads.  Three inductive invariants: what   *)
(* every registration owns (OwnInv), what the samples of the histories     *)
(* have to do with the sends under way (HistInv), and how far n_matched    *)
(* may be from the number of matched readers (CountInv).                   *)
(***************************************************************************)
EXTENDS BridgedWriters, FiniteSetTheorems, TLAPS

USE WritersAssumption
-----------------------------------------------------------------------------
(* Type correctness: the lookups of send and of the calls give writers     *)
(* because they are made under the key that was found.                     *)
Shape ==
  /\ call.step \in {"idle", "resign", "stopped"} =>
       call.topic = NoTopic /\ call.writer = NoWriter
  /\ call.step \notin {"idle", "resign", "stopped"} =>
       call.topic \in Topics /\ call.writer \in Writers
  /\ \A t \in todo : writerList[t] # NoWriter
  /\ call.step \notin {"resign", "resignFree"} => todo = {}
  /\ call.step = "resignFree" => call.topic \in todo
  /\ \A s \in Senders : snd[s].step = "idle" <=> snd[s].writer = NoWriter
  /\ disc.step = "none" <=> disc.writer = NoWriter

TypeInv == TypeOK /\ Shape

(* An object without readers and writers is well typed.                    *)
LEMMA InitTypeInv == Init => TypeInv
BY DEF Init, TypeInv, TypeOK, Shape, Steps, SendSteps, Idle, NoSend, NoJob,
       Samples

(* A step of a send moves one thread and keeps its writer and its sample.  *)
Moved(s, to) ==
  /\ snd' \in [Senders -> [step : SendSteps,
                          writer : Writers \cup {NoWriter}, no : Nat]]
  /\ \A u \in Senders : /\ snd'[u].writer = snd[u].writer
                        /\ snd'[u].no = snd[u].no
                        /\ u # s => snd'[u] = snd[u]
  /\ snd'[s].step = to

(* What assigning the step of one thread does to snd.                      *)
LEMMA SendMoves ==
  ASSUME TypeOK, NEW s \in Senders, NEW to \in SendSteps, SendGo(s, to)
  PROVE  Moved(s, to)
<1>1. snd[s] \in [step : SendSteps, writer : Writers \cup {NoWriter}, no : Nat]
  BY DEF TypeOK
<1>2. [snd[s] EXCEPT !.step = to] \in
        [step : SendSteps, writer : Writers \cup {NoWriter}, no : Nat]
  BY <1>1
<1>3. snd' = [snd EXCEPT ![s] = [snd[s] EXCEPT !.step = to]]
  BY DEF SendGo
<1> QED
  BY <1>1, <1>2, <1>3 DEF TypeOK, Moved

(* Where each step of a send leads.                                        *)
LEMMA SendSteppings ==
  ASSUME TypeOK, NEW s \in Senders
  PROVE  /\ ReadSize(s) => IF history[snd[s].writer] # <<>> THEN Moved(s, "drop")
                                                         ELSE Moved(s, "alloc")
         /\ DropHistory(s) => Moved(s, "alloc")
         /\ NewChange(s) => Moved(s, "fill")
         /\ NoNewChange(s) => Moved(s, "clean")
         /\ CleanHistory(s) => Moved(s, "retry")
         /\ StoreThroughNull(s) => Moved(s, "crashed")
<1>1. {"drop", "alloc", "fill", "clean", "retry", "crashed"} \subseteq SendSteps
  BY DEF SendSteps
<1>2. \A to \in SendSteps : SendGo(s, to) => Moved(s, to)
  BY SendMoves
<1> QED
  BY <1>1, <1>2 DEF ReadSize, DropHistory, NewChange, NoNewChange,
                    CleanHistory, StoreThroughNull

(* The steps of a send between its lookup and its add_change.              *)
Stepping(s) ==
  \/ ReadSize(s) \/ DropHistory(s) \/ NewChange(s) \/ NoNewChange(s)
  \/ CleanHistory(s) \/ StoreThroughNull(s)

(* They keep the types.                                                    *)
LEMMA SteppingKeepsTypes ==
  ASSUME TypeInv, NEW s \in Senders, Stepping(s)
  PROVE  TypeInv'
<1>1. PICK to \in SendSteps \ {"idle"} : Moved(s, to)
  BY SendSteppings DEF TypeInv, Stepping, SendSteps
<1>2. snd[s].step # "idle"
  BY DEF Stepping, ReadSize, DropHistory, NewChange, NoNewChange,
         CleanHistory, StoreThroughNull
<1>3. snd[s].writer \in Writers
  BY <1>2 DEF TypeInv, TypeOK, Shape
<1>4. UNCHANGED <<mapVars, ownVars, matchVars, sent, newest>>
  BY DEF Stepping, ReadSize, DropHistory, NewChange, NoNewChange,
         CleanHistory, StoreThroughNull
<1>5. history' \in [Writers -> Seq(Samples)]
  <2> DEFINE old == history[snd[s].writer]
  <2>1. history \in [Writers -> Seq(Samples)] /\ old \in Seq(Samples)
    BY <1>3 DEF TypeInv, TypeOK
  <2>2. SubSeq(old, 3, Len(old)) \in Seq(Samples)
    BY <2>1
  <2>3. \/ UNCHANGED history
        \/ history' = [history EXCEPT ![snd[s].writer] = <<>>]
        \/ history' = [history EXCEPT ![snd[s].writer] = SubSeq(old, 3, Len(old))]
    BY DEF Stepping, ReadSize, DropHistory, NewChange, NoNewChange,
           CleanHistory, StoreThroughNull
  <2>4. <<>> \in Seq(Samples)
    OBVIOUS
  <2>5. ASSUME NEW new \in Seq(Samples),
               history' = [history EXCEPT ![snd[s].writer] = new]
        PROVE  history' \in [Writers -> Seq(Samples)]
    BY <1>3, <2>1, <2>5
  <2> HIDE DEF old
  <2> QED
    BY <2>1, <2>2, <2>3, <2>4, <2>5
<1>6. /\ snd' \in [Senders -> [step : SendSteps,
                              writer : Writers \cup {NoWriter}, no : Nat]]
      /\ \A u \in Senders : snd'[u].step = "idle" <=> snd'[u].writer = NoWriter
  <2>1. \A u \in Senders : snd[u].step = "idle" <=> snd[u].writer = NoWriter
    BY DEF TypeInv, Shape
  <2> QED
    BY <1>1, <1>2, <2>1 DEF Moved
<1>7. TypeOK'
  BY <1>4, <1>5, <1>6
     DEF TypeInv, TypeOK, mapVars, ownVars, matchVars, Samples, NoSample
<1>8. Shape'
  BY <1>4, <1>6 DEF TypeInv, Shape, mapVars, matchVars
<1> QED
  BY <1>7, <1>8 DEF TypeInv

(* So does the count of a match.                                           *)
LEMMA CountingKeepsTypes == TypeInv /\ OnWriterMatched => TypeInv'
<1> SUFFICES ASSUME TypeInv, OnWriterMatched PROVE TypeInv'
  OBVIOUS
<1>1. disc.writer \in Writers /\ nMatched \in [Writers -> Int]
  BY DEF TypeInv, TypeOK, Shape, OnWriterMatched
<1>2. nMatched' \in [Writers -> Int]
  BY <1>1 DEF OnWriterMatched
<1>3. disc' \in [step : {"none", "matched", "unmatched", "notify"},
                 writer : Writers \cup {NoWriter}]
      /\ (disc'.step = "none" <=> disc'.writer = NoWriter)
  BY <1>1 DEF TypeInv, TypeOK, Shape, OnWriterMatched
<1> QED
  BY <1>2, <1>3 DEF TypeInv, TypeOK, Shape, OnWriterMatched, mapVars, ownVars,
                    sendVars

(* Every step keeps the types.                                             *)
LEMMA StepTypeInv == TypeInv /\ [Next]_vars => TypeInv'
<1> SUFFICES ASSUME TypeInv, [Next]_vars PROVE TypeInv'
  OBVIOUS
<1> USE DEF TypeInv, TypeOK, Shape, At, Steps, SendSteps, Idle, NoSend,
            NoJob, Samples, NoSample, mapVars, ownVars, matchVars, sendVars
<1>1. ASSUME NEW t \in Topics, NEW w \in Writers, AddWriter(t, w)
      PROVE  TypeInv'
  BY <1>1 DEF AddWriter, ApiExclusive
<1>2. ASSUME NEW t \in Topics, RemoveWriter(t)
      PROVE  TypeInv'
  BY <1>2 DEF RemoveWriter, ApiExclusive
<1>3. ASSUME NEW t \in Topics, ResignWriter(t)
      PROVE  TypeInv'
  BY <1>3 DEF ResignWriter, RemoveRegardless, Removed, Refused
<1>4. CASE WriterCreated
  BY <1>4 DEF WriterCreated, Go
<1>5. CASE WriterNotCreated
  BY <1>5 DEF WriterNotCreated, Free, Return, Idle
<1>6. CASE WriterRegistered
  BY <1>6 DEF WriterRegistered, Return, Idle
<1>7. CASE WriterNotRegistered
  BY <1>7 DEF WriterNotRegistered, Go, RemoveRegardless, Removed,
              Refused
<1>8. CASE RollBackWriter
  BY <1>8 DEF RollBackWriter, Free, Return, Idle
<1>9. CASE WriterRemoved
  BY <1>9 DEF WriterRemoved, Go, Removed
<1>10. CASE WriterNotRemoved
  BY <1>10 DEF WriterNotRemoved, Return, Refused, Idle
<1>11. CASE EraseWriter
  BY <1>11 DEF EraseWriter, Free, Return, Idle
<1>12. CASE ResignAll
  BY <1>12 DEF ResignAll, Go, ApiExclusive
<1>13. CASE ResignFree
  BY <1>13 DEF ResignFree, Free, Idle
<1>14. CASE ResignDone
  BY <1>14 DEF ResignDone, Return, Idle
<1>29. CASE StopAll
  BY <1>29 DEF StopAll, Go, ApiExclusive
<1>15. ASSUME NEW s \in Senders, NEW t \in Topics, Send(s, t)
      PROVE  TypeInv'
  BY <1>15 DEF Send
<1>16. ASSUME NEW s \in Senders, ReadSize(s)
      PROVE  TypeInv'
  BY <1>16, SteppingKeepsTypes DEF Stepping
<1>17. ASSUME NEW s \in Senders, DropHistory(s)
      PROVE  TypeInv'
  BY <1>17, SteppingKeepsTypes DEF Stepping
<1>18. ASSUME NEW s \in Senders, NewChange(s)
      PROVE  TypeInv'
  BY <1>18, SteppingKeepsTypes DEF Stepping
<1>19. ASSUME NEW s \in Senders, NoNewChange(s)
      PROVE  TypeInv'
  BY <1>19, SteppingKeepsTypes DEF Stepping
<1>20. ASSUME NEW s \in Senders, CleanHistory(s)
      PROVE  TypeInv'
  BY <1>20, SteppingKeepsTypes DEF Stepping
<1>21. ASSUME NEW s \in Senders, StoreThroughNull(s)
      PROVE  TypeInv'
  BY <1>21, SteppingKeepsTypes DEF Stepping
<1>22. ASSUME NEW s \in Senders, AddChange(s)
      PROVE  TypeInv'
  BY <1>22 DEF AddChange, SampleOf
<1>23. ASSUME NEW w \in Writers, NEW p \in Remotes, Match(w, p)
      PROVE  TypeInv'
  BY <1>23 DEF Match
<1>24. ASSUME NEW w \in Writers, NEW p \in Remotes, Unmatch(w, p)
      PROVE  TypeInv'
  BY <1>24 DEF Unmatch
<1>25. ASSUME NEW w \in Writers, LoseLiveliness(w)
      PROVE  TypeInv'
  BY <1>25 DEF LoseLiveliness
<1>26. CASE OnWriterMatched
  BY <1>26, CountingKeepsTypes
<1>27. CASE Notified
  BY <1>27 DEF Notified
<1>28. CASE UNCHANGED vars
  BY <1>28 DEF vars
<1> QED
  BY <1>1, <1>2, <1>3, <1>4, <1>5, <1>6, <1>7, <1>8, <1>9, <1>10, <1>11,
     <1>12, <1>13, <1>14, <1>15, <1>16, <1>17, <1>18, <1>19, <1>20, <1>21,
     <1>22, <1>23, <1>24, <1>25, <1>26, <1>27, <1>28, <1>29
     DEF Next, Begin, Continue, Sending, Discovery

-----------------------------------------------------------------------------
(* Ownership.                                                              *)
Gone(w)     == writer[w] = "removed" \/ w \in ignored
Whole(w)    == info[w] = "live" /\ writer[w] = "live"
Unused(w)   == info[w] = "none" /\ writer[w] = "none"
Finished(w) == info[w] = "freed" /\ (writer[w] = "none" \/ Gone(w))

Resigning == call.step \in {"resign", "resignFree"}

OwnersDistinct ==
  \A t, u \in Topics :
    writerList[t] = writerList[u] /\ writerList[t] # NoWriter => t = u

(* The registration the call works on.                                     *)
CurrentOK ==
  /\ call.step = "create" =>
       /\ writerList[call.topic] = NoWriter /\ ~Listed(call.writer)
       /\ info[call.writer] = "live" /\ writer[call.writer] = "none"
  /\ call.step \in {"register", "rollback", "remove", "erase", "resignFree"} =>
       writerList[call.topic] = call.writer
  /\ call.step \in {"register", "remove"} => Whole(call.writer)
  /\ call.step \in {"rollback", "erase", "resignFree"} =>
       info[call.writer] = "live" /\ Gone(call.writer)

(* All the others.  An entry the resignAll loop has visited is finished,   *)
(* although it is still in the map; stopAll leaves entries without writer. *)
OthersOK ==
  \A w \in Writers \ {call.writer} :
    /\ \A t \in Topics : writerList[t] = w =>
         \/ Resigning /\ t \notin todo /\ Finished(w)
         \/ (Resigning => t \in todo) /\ ~At("stopped") /\ Whole(w)
         \/ At("stopped") /\ info[w] = "live" /\ writer[w] = "removed"
    /\ ~Listed(w) => Unused(w) \/ Finished(w)

DiscOK == disc.step # "none" => writer[disc.writer] = "live"

(* The part of the type invariant that ownership depends on.               *)
MapTypes ==
  /\ writerList \in [Topics -> Writers \cup {NoWriter}]
  /\ info \in [Writers -> {"none", "live", "freed", "doubleFreed"}]
  /\ writer \in [Writers -> {"none", "live", "removed"}]
  /\ call \in [step : Steps, topic : Topics \cup {NoTopic},
               writer : Writers \cup {NoWriter}]
  /\ todo \in SUBSET Topics
  /\ Shape

OwnInv == OwnersDistinct /\ CurrentOK /\ OthersOK /\ DiscOK

(* Nothing is owned at the start.                                          *)
LEMMA InitOwnInv == Init => OwnInv
BY DEF Init, OwnInv, OwnersDistinct, CurrentOK, OthersOK, DiscOK, Listed,
       Unused, Resigning, Idle, NoJob

(* Every step of a call, of the sends and of the discovery keeps it.       *)
LEMMA StepOwnInv == TypeInv /\ OwnInv /\ [Next]_vars => OwnInv'
<1> SUFFICES ASSUME TypeInv, OwnInv, [Next]_vars PROVE OwnInv'
  OBVIOUS
<1>a. MapTypes /\ ignored \in SUBSET Writers
  BY DEF TypeInv, TypeOK, MapTypes
<1>0. UNCHANGED <<mapVars, ownVars, disc>> => OwnInv'
  BY DEF OwnInv, OwnersDistinct, CurrentOK, OthersOK, DiscOK, At, Listed, Gone,
         Whole, Unused, Finished, Resigning, mapVars, ownVars
<1> USE DEF At, Steps, NoJob, mapVars, ownVars, matchVars, sendVars,
            MapTypes, Shape, OwnInv, OwnersDistinct, CurrentOK, OthersOK,
            DiscOK, Listed, Gone, Whole, Unused, Finished, Resigning
<1>1. ASSUME NEW t \in Topics, NEW w \in Writers, AddWriter(t, w)
      PROVE  OwnInv'
  BY <1>a, <1>1 DEF AddWriter, ApiExclusive
<1>2. ASSUME NEW t \in Topics, RemoveWriter(t)
      PROVE  OwnInv'
  BY <1>a, <1>2 DEF RemoveWriter, ApiExclusive
<1>3. ASSUME NEW t \in Topics, ResignWriter(t)
      PROVE  OwnInv'
  <2>1. CASE Removed(writerList[t]) /\ UNCHANGED ignored
    BY <1>a, <1>3, <2>1 DEF ResignWriter, Removed
  <2>2. CASE Refused(writerList[t]) /\ ignored' = ignored \cup {writerList[t]}
    BY <1>a, <1>3, <2>2 DEF ResignWriter, Refused
  <2> QED
    BY <1>3, <2>1, <2>2 DEF ResignWriter, RemoveRegardless
<1>4. CASE WriterCreated
  BY <1>a, <1>4 DEF WriterCreated, Go
<1>5. CASE WriterNotCreated
  BY <1>a, <1>5 DEF WriterNotCreated, Free, Return, Idle
<1>6. CASE WriterRegistered
  BY <1>a, <1>6 DEF WriterRegistered, Return, Idle
<1>7. CASE WriterNotRegistered
  <2>1. CASE Removed(call.writer) /\ UNCHANGED ignored
    BY <1>a, <1>7, <2>1 DEF WriterNotRegistered, Go, Removed
  <2>2. CASE Refused(call.writer) /\ ignored' = ignored \cup {call.writer}
    BY <1>a, <1>7, <2>2 DEF WriterNotRegistered, Go, Refused
  <2> QED
    BY <1>7, <2>1, <2>2 DEF WriterNotRegistered, RemoveRegardless
<1>8. CASE RollBackWriter
  BY <1>a, <1>8 DEF RollBackWriter, Free, Return, Idle
<1>9. CASE WriterRemoved
  BY <1>a, <1>9 DEF WriterRemoved, Go, Removed
<1>10. CASE WriterNotRemoved
  BY <1>a, <1>10 DEF WriterNotRemoved, Return, Refused, Idle
<1>11. CASE EraseWriter
  BY <1>a, <1>11 DEF EraseWriter, Free, Return, Idle
<1>12. CASE ResignAll
  BY <1>a, <1>12 DEF ResignAll, Go, ApiExclusive
<1>13. CASE ResignFree
  BY <1>a, <1>13 DEF ResignFree, Free, Idle
<1>14. CASE ResignDone
  BY <1>a, <1>14 DEF ResignDone, Return, Idle
<1>29. CASE StopAll
  BY <1>a, <1>29 DEF StopAll, Go
<1>15. ASSUME NEW s \in Senders, NEW t \in Topics, Send(s, t)
      PROVE  OwnInv'
  BY <1>0, <1>15 DEF Send
<1>16. ASSUME NEW s \in Senders, ReadSize(s)
      PROVE  OwnInv'
  BY <1>0, <1>16 DEF ReadSize
<1>17. ASSUME NEW s \in Senders, DropHistory(s)
      PROVE  OwnInv'
  BY <1>0, <1>17 DEF DropHistory
<1>18. ASSUME NEW s \in Senders, NewChange(s)
      PROVE  OwnInv'
  BY <1>0, <1>18 DEF NewChange
<1>19. ASSUME NEW s \in Senders, NoNewChange(s)
      PROVE  OwnInv'
  BY <1>0, <1>19 DEF NoNewChange
<1>20. ASSUME NEW s \in Senders, CleanHistory(s)
      PROVE  OwnInv'
  BY <1>0, <1>20 DEF CleanHistory
<1>21. ASSUME NEW s \in Senders, StoreThroughNull(s)
      PROVE  OwnInv'
  BY <1>0, <1>21 DEF StoreThroughNull
<1>22. ASSUME NEW s \in Senders, AddChange(s)
      PROVE  OwnInv'
  BY <1>0, <1>22 DEF AddChange
<1>23. ASSUME NEW w \in Writers, NEW p \in Remotes, Match(w, p)
      PROVE  OwnInv'
  BY <1>a, <1>23 DEF Match
<1>24. ASSUME NEW w \in Writers, NEW p \in Remotes, Unmatch(w, p)
      PROVE  OwnInv'
  BY <1>a, <1>24 DEF Unmatch
<1>25. ASSUME NEW w \in Writers, LoseLiveliness(w)
      PROVE  OwnInv'
  BY <1>a, <1>25 DEF LoseLiveliness
<1>26. CASE OnWriterMatched
  BY <1>a, <1>26 DEF OnWriterMatched
<1>27. CASE Notified
  BY <1>a, <1>27 DEF Notified
<1>28. CASE UNCHANGED vars
  BY <1>0, <1>28 DEF vars
<1> QED
  BY <1>1, <1>2, <1>3, <1>4, <1>5, <1>6, <1>7, <1>8, <1>9, <1>10, <1>11,
     <1>12, <1>13, <1>14, <1>15, <1>16, <1>17, <1>18, <1>19, <1>20, <1>21,
     <1>22, <1>23, <1>24, <1>25, <1>26, <1>27, <1>28, <1>29
     DEF Next, Begin, Continue, Sending, Discovery

-----------------------------------------------------------------------------
(* The histories.  A thread between its drop and its add_change has no     *)
(* sample in the history, and no thread ever has two.                      *)
PastDrop(s) == snd[s].step \in {"alloc", "clean", "retry", "fill", "crashed"}

OneEach ==
  \A w \in Writers : \A i, j \in 1..Len(history[w]) :
    history[w][i].by = history[w][j].by => i = j

OwnDropped ==
  \A s \in Senders : PastDrop(s) =>
    \A i \in 1..Len(history[snd[s].writer]) : history[snd[s].writer][i].by # s

LatestOK ==
  \A w \in Writers :
    \/ newest[w] = NoSample
    \/ history[w] # <<>> /\ history[w][Len(history[w])] = newest[w]
    \/ \E s \in Senders : snd[s].writer = w /\ PastDrop(s)

HistInv == OneEach /\ OwnDropped /\ LatestOK

(* The histories are empty at the start.                                   *)
LEMMA InitHistInv == Init => HistInv
BY DEF Init, HistInv, OneEach, OwnDropped, LatestOK, PastDrop, NoSend

(* A send that moves on without touching a history, to a step before its   *)
(* drop or from one behind it, disturbs nothing.                           *)
LEMMA MoveKeepsHist ==
  ASSUME TypeInv, HistInv, NEW s \in Senders, NEW to, Moved(s, to),
         UNCHANGED <<history, newest>>,
         PastDrop(s) => to \in {"clean", "retry", "fill", "crashed"},
         PastDrop(s) \/ to = "drop" \/ history[snd[s].writer] = <<>>
  PROVE  HistInv'
<1>1. \A u \in Senders : PastDrop(u) => PastDrop(u)'
  BY DEF PastDrop, Moved
<1>2. OneEach'
  BY DEF HistInv, OneEach
<1>3. OwnDropped'
  <2> SUFFICES ASSUME NEW u \in Senders, PastDrop(u)',
                      NEW i \in 1..Len(history[snd[u].writer])
               PROVE  history[snd[u].writer][i].by # u
    BY DEF OwnDropped, Moved
  <2>1. CASE PastDrop(u)
    BY <2>1 DEF HistInv, OwnDropped
  <2>2. CASE ~PastDrop(u)
    BY <2>2 DEF PastDrop, Moved
  <2> QED
    BY <2>1, <2>2
<1>4. LatestOK'
  BY <1>1 DEF HistInv, LatestOK, Moved
<1> QED
  BY <1>2, <1>3, <1>4 DEF HistInv

(* Replacing a history by a part of itself, on the way from its drop.      *)
LEMMA CutKeepsHist ==
  ASSUME TypeInv, HistInv, NEW s \in Senders, NEW to \in {"alloc", "retry"},
         Moved(s, to), snd[s].writer \in Writers, UNCHANGED newest,
         DropHistory(s) \/ CleanHistory(s)
  PROVE  HistInv'
<1> DEFINE w == snd[s].writer
           h == history[w]
<1>1. history \in [Writers -> Seq(Samples)] /\ h \in Seq(Samples)
  BY DEF TypeInv, TypeOK
<1>2. PICK k \in Nat : \A i \in 1..Len(history'[w]) :
        history'[w][i] = h[i + k] /\ i + k \in 1..Len(h)
  <2>1. CASE CleanHistory(s)
    <3>1. history'[w] = SubSeq(h, 3, Len(h))
      BY <1>1, <2>1 DEF CleanHistory
    <3>2. \A i \in 1..Len(history'[w]) :
            history'[w][i] = h[i + 2] /\ i + 2 \in 1..Len(h)
      BY <1>1, <3>1
    <3> QED
      BY <3>2
  <2>2. CASE DropHistory(s)
    <3>1. Len(history'[w]) = 0
      BY <1>1, <2>2 DEF DropHistory
    <3> QED
      BY <3>1
  <2> QED
    BY <2>1, <2>2
<1>4. \A v \in Writers \ {w} : history'[v] = history[v]
  BY <1>1 DEF DropHistory, CleanHistory
<1>5. OneEach'
  <2> SUFFICES ASSUME NEW v \in Writers,
                      NEW i \in 1..Len(history'[v]), NEW j \in 1..Len(history'[v]),
                      history'[v][i].by = history'[v][j].by
               PROVE  i = j
    BY DEF OneEach
  <2>1. CASE v = w
    <3>1. /\ i + k \in 1..Len(h) /\ j + k \in 1..Len(h)
          /\ h[i + k].by = h[j + k].by
      BY <1>2, <2>1
    <3> QED
      BY <3>1 DEF HistInv, OneEach
  <2>2. CASE v # w
    BY <1>4, <2>2 DEF HistInv, OneEach
  <2> QED
    BY <2>1, <2>2
<1>6. OwnDropped'
  <2> SUFFICES ASSUME NEW u \in Senders, PastDrop(u)',
                      NEW i \in 1..Len(history'[snd[u].writer])
               PROVE  history'[snd[u].writer][i].by # u
    BY DEF OwnDropped, Moved
  <2>0. snd[u].writer \in Writers
    BY DEF PastDrop, TypeInv, TypeOK, Shape, Moved
  <2>1. CASE snd[u].writer # w
    BY <1>4, <2>0, <2>1 DEF HistInv, OwnDropped, PastDrop, Moved
  <2>2. CASE snd[u].writer = w /\ PastDrop(u)
    <3>1. i \in 1..Len(history'[w])
      BY <2>2
    <3>2. history'[w][i] = h[i + k] /\ i + k \in 1..Len(h)
      BY <1>2, <3>1
    <3> QED
      BY <2>2, <3>2 DEF HistInv, OwnDropped
  <2>3. CASE snd[u].writer = w /\ ~PastDrop(u)
    <3>1. u = s
      BY <2>3 DEF PastDrop, Moved
    <3>2. DropHistory(s)
      BY <2>3, <3>1 DEF CleanHistory, PastDrop
    <3>3. history'[w] = <<>>
      BY <1>1, <3>2 DEF DropHistory
    <3> QED
      BY <2>3, <3>3
  <2> QED
    BY <2>1, <2>2, <2>3
<1>7. LatestOK'
  <2>1. PastDrop(s)' /\ snd'[s].writer = w
    BY DEF PastDrop, Moved
  <2>2. \A u \in Senders : PastDrop(u) => PastDrop(u)'
    BY <2>1 DEF PastDrop, Moved
  <2> SUFFICES ASSUME NEW v \in Writers, v # w
               PROVE  \/ newest'[v] = NoSample
                      \/ history'[v] # <<>> /\ history'[v][Len(history'[v])] = newest'[v]
                      \/ \E u \in Senders : snd'[u].writer = v /\ PastDrop(u)'
    BY <2>1 DEF LatestOK
  <2> QED
    BY <1>4, <2>2 DEF HistInv, LatestOK, Moved
<1> QED
  BY <1>5, <1>6, <1>7 DEF HistInv

(* The addition: the sample is the only one of its thread.                 *)
LEMMA AddKeepsHist ==
  ASSUME TypeInv, HistInv, NEW s \in Senders, AddChange(s)
  PROVE  HistInv'
<1> DEFINE w == snd[s].writer
           h == history[w]
<1>1. w \in Writers /\ history \in [Writers -> Seq(Samples)] /\ h \in Seq(Samples)
  BY DEF TypeInv, TypeOK, Shape, AddChange
<1>2. SampleOf(s) \in Samples /\ SampleOf(s).by = s
  BY DEF TypeInv, TypeOK, SampleOf, Samples
<1>3. /\ history'[w] = Append(h, SampleOf(s))
      /\ Len(history'[w]) = Len(h) + 1
      /\ history'[w][Len(h) + 1] = SampleOf(s)
      /\ \A i \in 1..Len(h) : history'[w][i] = h[i]
  BY <1>1, <1>2 DEF AddChange
<1>4. \A v \in Writers \ {w} : history'[v] = history[v] /\ newest'[v] = newest[v]
  BY <1>1 DEF AddChange, TypeInv, TypeOK
<1>5. /\ \A u \in Senders \ {s} : snd'[u] = snd[u]
      /\ snd'[s] = NoSend
  BY DEF AddChange, TypeInv, TypeOK
<1>6. Len(h) \in Nat /\ \A i \in 1..Len(h) : h[i].by # s
  BY <1>1 DEF HistInv, OwnDropped, PastDrop, AddChange
<1>7. OneEach'
  <2> SUFFICES ASSUME NEW v \in Writers,
                      NEW i \in 1..Len(history'[v]), NEW j \in 1..Len(history'[v]),
                      history'[v][i].by = history'[v][j].by
               PROVE  i = j
    BY DEF OneEach
  <2>1. CASE v = w
    <3>0. /\ i \in 1..(Len(h) + 1) /\ j \in 1..(Len(h) + 1)
          /\ history'[w][i].by = history'[w][j].by
      BY <1>3, <2>1
    <3>1. CASE i \in 1..Len(h) /\ j \in 1..Len(h)
      BY <1>1, <1>3, <3>0, <3>1 DEF HistInv, OneEach
    <3>2. CASE i \notin 1..Len(h) \/ j \notin 1..Len(h)
      <4> HIDE DEF h, w
      <4>1. \A n \in 1..(Len(h) + 1) :
              n \notin 1..Len(h) => n = Len(h) + 1 /\ history'[w][n].by = s
        BY <1>2, <1>3, <1>6
      <4>2. \A n \in 1..Len(h) : history'[w][n].by # s
        BY <1>3, <1>6
      <4> QED
        BY <3>0, <3>2, <4>1, <4>2
    <3> QED
      BY <3>1, <3>2
  <2>2. CASE v # w
    BY <1>4, <2>2 DEF HistInv, OneEach
  <2> QED
    BY <2>1, <2>2
<1>8. OwnDropped'
  <2> SUFFICES ASSUME NEW u \in Senders, PastDrop(u)',
                      NEW i \in 1..Len(history'[snd'[u].writer])
               PROVE  history'[snd'[u].writer][i].by # u
    BY DEF OwnDropped
  <2>1. u # s /\ PastDrop(u) /\ snd'[u].writer = snd[u].writer
    BY <1>5 DEF PastDrop, NoSend
  <2>2. snd[u].writer \in Writers
    BY <2>1 DEF PastDrop, TypeInv, TypeOK, Shape
  <2>3. CASE snd[u].writer = w
    <3>1. i \in 1..(Len(h) + 1)
      BY <1>3, <2>1, <2>3
    <3>2. CASE i \in 1..Len(h)
      BY <1>3, <2>1, <2>3, <3>2 DEF HistInv, OwnDropped
    <3>3. CASE i = Len(h) + 1
      BY <1>2, <1>3, <2>1, <2>3, <3>3
    <3> QED
      <4> HIDE DEF h
      <4> QED
        BY <1>6, <3>1, <3>2, <3>3
  <2>4. CASE snd[u].writer # w
    BY <1>4, <2>1, <2>2, <2>4 DEF HistInv, OwnDropped
  <2> QED
    BY <2>3, <2>4
<1>9. LatestOK'
  <2> SUFFICES ASSUME NEW v \in Writers
               PROVE  \/ newest'[v] = NoSample
                      \/ history'[v] # <<>> /\ history'[v][Len(history'[v])] = newest'[v]
                      \/ \E u \in Senders : snd'[u].writer = v /\ PastDrop(u)'
    BY DEF LatestOK
  <2>1. CASE v = w
    <3>1. newest'[w] = SampleOf(s)
      BY <1>1 DEF AddChange, TypeInv, TypeOK
    <3>2. history'[w] # <<>>
      BY <1>3, <1>6
    <3> QED
      BY <1>3, <2>1, <3>1, <3>2
  <2>2. CASE v # w
    <3>1. CASE \E u \in Senders : snd[u].writer = v /\ PastDrop(u)
      BY <1>5, <2>2, <3>1 DEF PastDrop
    <3> QED
      BY <1>4, <2>2, <3>1 DEF HistInv, LatestOK
  <2> QED
    BY <2>1, <2>2
<1> QED
  BY <1>7, <1>8, <1>9 DEF HistInv

(* Every step keeps it.                                                    *)
LEMMA StepHistInv == TypeInv /\ HistInv /\ [Next]_vars => HistInv'
<1> SUFFICES ASSUME TypeInv, HistInv, [Next]_vars PROVE HistInv'
  OBVIOUS
<1>0. UNCHANGED <<history, newest, snd>> => HistInv'
  BY DEF HistInv, OneEach, OwnDropped, LatestOK, PastDrop
<1>1. ASSUME NEW s \in Senders, ReadSize(s) PROVE HistInv'
  BY <1>1, SendSteppings, MoveKeepsHist DEF ReadSize, TypeInv, PastDrop
<1>2. ASSUME NEW s \in Senders, NewChange(s) PROVE HistInv'
  BY <1>2, SendSteppings, MoveKeepsHist DEF NewChange, TypeInv, PastDrop
<1>3. ASSUME NEW s \in Senders, NoNewChange(s) PROVE HistInv'
  BY <1>3, SendSteppings, MoveKeepsHist DEF NoNewChange, TypeInv, PastDrop
<1>4. ASSUME NEW s \in Senders, StoreThroughNull(s) PROVE HistInv'
  BY <1>4, SendSteppings, MoveKeepsHist DEF StoreThroughNull, TypeInv, PastDrop
<1>5. ASSUME NEW s \in Senders, DropHistory(s) \/ CleanHistory(s) PROVE HistInv'
  BY <1>5, SendSteppings, CutKeepsHist
     DEF DropHistory, CleanHistory, TypeInv, TypeOK, Shape
<1>6. ASSUME NEW s \in Senders, AddChange(s) PROVE HistInv'
  BY <1>6, AddKeepsHist
<1>7. ASSUME NEW s \in Senders, NEW t \in Topics, Send(s, t) PROVE HistInv'
  <2>1. /\ \A u \in Senders \ {s} : snd'[u] = snd[u]
        /\ snd[s].step = "idle" /\ snd'[s].step = "size"
        /\ UNCHANGED <<history, newest>>
    BY <1>7 DEF Send, TypeInv, TypeOK, NoSend
  <2>2. \A u \in Senders : /\ PastDrop(u)' <=> PastDrop(u)
                           /\ PastDrop(u) => snd'[u] = snd[u]
    BY <2>1 DEF PastDrop
  <2> QED
    BY <2>1, <2>2 DEF HistInv, OneEach, OwnDropped, LatestOK
<1>8. ASSUME Begin \/ Continue \/ Discovery \/ UNCHANGED vars PROVE HistInv'
  BY <1>0, <1>8
     DEF Begin, Continue, Discovery, vars, sendVars, StopAll, AddWriter, RemoveWriter,
         ResignWriter, WriterCreated, WriterNotCreated, WriterRegistered,
         WriterNotRegistered, RollBackWriter, WriterRemoved, WriterNotRemoved,
         EraseWriter, ResignAll, ResignFree, ResignDone, Match, Unmatch,
         LoseLiveliness, OnWriterMatched, Notified
<1> QED
  BY <1>1, <1>2, <1>3, <1>4, <1>5, <1>6, <1>7, <1>8 DEF Next, Sending

-----------------------------------------------------------------------------
(* n_matched.  It is behind the number of matched readers by the callback  *)
(* that is still to count.                                                 *)
Owed(w) == IF disc.writer = w /\ disc.step = "matched" THEN 1
           ELSE IF disc.writer = w /\ disc.step = "unmatched" THEN -1 ELSE 0

CountOf(w) ==
  /\ writer[w] = "none" => matched[w] = {} /\ nMatched[w] = 0
  /\ writer[w] = "live" => nMatched[w] + Owed(w) = Cardinality(matched[w])

CountInv == \A w \in Writers : CountOf(w)

(* The matched readers of a writer can be counted.                         *)
LEMMA MatchedFinite ==
  ASSUME TypeInv, NEW w \in Writers
  PROVE  IsFiniteSet(matched[w]) /\ Cardinality(matched[w]) \in Nat
BY FS_Subset, FS_CardinalityType DEF TypeInv, TypeOK

(* Nothing is matched at the start.                                        *)
LEMMA InitCountInv == Init => CountInv
BY DEF Init, CountInv, CountOf

(* A step that matches nothing and counts nothing, and makes no writer     *)
(* live, leaves it alone.                                                  *)
LEMMA QuietKeepsCount ==
  ASSUME TypeInv, CountInv, UNCHANGED <<matched, nMatched, writer>>,
         \A w \in Writers : writer[w] = "live" => Owed(w)' = Owed(w)
  PROVE  CountInv'
BY DEF CountInv, CountOf

(* A writer that is taken out is no longer counted.                        *)
LEMMA RemovalKeepsCount ==
  ASSUME TypeInv, CountInv, UNCHANGED <<nMatched, disc>>,
         NEW w \in Writers, Removed(w) \/ Refused(w)
  PROVE  CountInv'
BY DEF TypeInv, TypeOK, CountInv, CountOf, Owed, Removed, Refused

(* Every step keeps it.                                                    *)
LEMMA StepCountInv == TypeInv /\ OwnInv /\ CountInv /\ [Next]_vars => CountInv'
<1> SUFFICES ASSUME TypeInv, OwnInv, CountInv, [Next]_vars PROVE CountInv'
  OBVIOUS
<1>0. UNCHANGED <<matched, nMatched, writer, disc>> => CountInv'
  BY DEF CountInv, CountOf, Owed
<1>1. CASE WriterCreated
  <2>1. PICK c \in Writers : c = call.writer /\ writer[c] = "none"
    BY <1>1 DEF WriterCreated, At, TypeInv, Shape, OwnInv, CurrentOK
  <2>2. disc.writer # c
    BY <2>1 DEF OwnInv, DiscOK, TypeInv, Shape
  <2>3. \A w \in Writers \ {c} : writer'[w] = writer[w]
    BY <1>1, <2>1 DEF WriterCreated, TypeInv, TypeOK
  <2>4. UNCHANGED <<matched, nMatched, disc>>
    BY <1>1 DEF WriterCreated, matchVars
  <2>5. CountOf(c)'
    BY <2>1, <2>2, <2>4, FS_EmptySet DEF CountInv, CountOf, Owed
  <2> QED
    BY <2>3, <2>4, <2>5 DEF CountInv, CountOf, Owed
<1>2. ASSUME NEW w \in Writers, Removed(w) \/ Refused(w),
             UNCHANGED <<nMatched, disc>>
      PROVE  CountInv'
  BY <1>2, RemovalKeepsCount
<1>3. CASE WriterNotRegistered \/ WriterRemoved \/ WriterNotRemoved
  BY <1>2, <1>3
     DEF WriterNotRegistered, WriterRemoved, WriterNotRemoved, At,
         RemoveRegardless, TypeInv, Shape
<1>4. ASSUME NEW t \in Topics, ResignWriter(t) PROVE CountInv'
  <2>1. writerList[t] \in Writers
    BY <1>4 DEF ResignWriter, TypeInv, TypeOK, Shape
  <2> QED
    BY <1>2, <1>4, <2>1 DEF ResignWriter, RemoveRegardless
<1>5. ASSUME NEW w \in Writers, NEW p \in Remotes, Match(w, p) PROVE CountInv'
  <2>1. /\ matched'[w] = matched[w] \cup {p} /\ p \notin matched[w]
        /\ \A v \in Writers \ {w} : matched'[v] = matched[v]
    BY <1>5 DEF Match, TypeInv, TypeOK
  <2>2. Cardinality(matched[w] \cup {p}) = Cardinality(matched[w]) + 1
    BY <2>1, MatchedFinite, FS_AddElement
  <2>3. Owed(w) = 0 /\ Owed(w)' = 1 /\ \A v \in Writers \ {w} : Owed(v)' = Owed(v)
    BY <1>5 DEF Match, Owed, NoJob
  <2>4. UNCHANGED <<writer, nMatched>> /\ writer[w] = "live"
        /\ nMatched[w] \in Int
    BY <1>5 DEF Match, ownVars, TypeInv, TypeOK
  <2>5. CountOf(w)'
    BY <2>1, <2>2, <2>3, <2>4, MatchedFinite DEF CountInv, CountOf
  <2> QED
    BY <2>1, <2>3, <2>4, <2>5 DEF CountInv, CountOf
<1>6. ASSUME NEW w \in Writers, NEW p \in Remotes, Unmatch(w, p) PROVE CountInv'
  <2>1. /\ matched'[w] = matched[w] \ {p} /\ p \in matched[w]
        /\ \A v \in Writers \ {w} : matched'[v] = matched[v]
    BY <1>6 DEF Unmatch, TypeInv, TypeOK
  <2>2. Cardinality(matched[w] \ {p}) = Cardinality(matched[w]) - 1
    BY <2>1, MatchedFinite, FS_RemoveElement
  <2>3. Owed(w) = 0 /\ Owed(w)' = -1 /\ \A v \in Writers \ {w} : Owed(v)' = Owed(v)
    BY <1>6 DEF Unmatch, Owed, NoJob
  <2>4. UNCHANGED <<writer, nMatched>> /\ writer[w] = "live"
        /\ nMatched[w] \in Int
    BY <1>6 DEF Unmatch, ownVars, TypeInv, TypeOK
  <2>5. CountOf(w)'
    BY <2>1, <2>2, <2>3, <2>4, MatchedFinite DEF CountInv, CountOf
  <2> QED
    BY <2>1, <2>3, <2>4, <2>5 DEF CountInv, CountOf
<1>7. CASE OnWriterMatched
  <2>1. PICK w \in Writers :
          w = disc.writer /\ writer[w] = "live" /\ nMatched[w] \in Int
    BY <1>7 DEF OnWriterMatched, TypeInv, TypeOK, Shape, OwnInv, DiscOK
  <2>2. /\ nMatched'[w] = nMatched[w] + Owed(w) /\ Owed(w)' = 0
        /\ \A v \in Writers \ {w} : /\ nMatched'[v] = nMatched[v]
                                   /\ Owed(v)' = Owed(v)
    BY <1>7, <2>1 DEF OnWriterMatched, TypeInv, TypeOK, Owed
  <2>3. UNCHANGED <<writer, matched>>
    BY <1>7 DEF OnWriterMatched, ownVars
  <2>4. CountOf(w)'
    BY <2>1, <2>2, <2>3, MatchedFinite DEF CountInv, CountOf
  <2> QED
    BY <2>2, <2>3, <2>4 DEF CountInv, CountOf
<1>8. ASSUME NEW w \in Writers, LoseLiveliness(w) PROVE CountInv'
  BY <1>8, QuietKeepsCount DEF LoseLiveliness, Owed, NoJob, ownVars
<1>9. CASE Notified
  BY <1>9, QuietKeepsCount DEF Notified, Owed, NoJob, ownVars
<1>10. ASSUME NEW s \in Senders, Sending(s) PROVE CountInv'
  BY <1>0, <1>10
     DEF Sending, Send, ReadSize, DropHistory, NewChange, NoNewChange,
         CleanHistory, StoreThroughNull, AddChange, ownVars, matchVars
<1>11. CASE \/ WriterNotCreated \/ WriterRegistered \/ RollBackWriter
            \/ EraseWriter \/ ResignAll \/ ResignFree \/ ResignDone
            \/ UNCHANGED vars
            \/ \E t \in Topics : \/ RemoveWriter(t)
                                \/ \E w \in Writers : AddWriter(t, w)
  BY <1>0, <1>11
     DEF WriterNotCreated, WriterRegistered, RollBackWriter, EraseWriter,
         ResignAll, ResignFree, ResignDone, RemoveWriter, AddWriter, vars,
         ownVars, matchVars
<1>12. CASE StopAll
  <2>1. /\ \A w \in Writers : writer'[w] # "live" /\ matched'[w] = {}
        /\ UNCHANGED nMatched
        /\ \A w \in Writers : writer'[w] = "none" => writer[w] = "none"
    BY <1>12 DEF StopAll, TypeInv, TypeOK
  <2> QED
    BY <2>1 DEF CountInv, CountOf
<1> QED
  BY <1>1, <1>3, <1>4, <1>5, <1>6, <1>7, <1>8, <1>9, <1>10, <1>11, <1>12
     DEF Next, Begin, Continue, Discovery

-----------------------------------------------------------------------------
(* The four invariants hold throughout.                                    *)
THEOREM WritersInvariance == Spec => [](TypeInv /\ OwnInv /\ HistInv /\ CountInv)
BY InitTypeInv, InitOwnInv, InitHistInv, InitCountInv,
   StepTypeInv, StepOwnInv, StepHistInv, StepCountInv, PTL DEF Spec

(* Type correctness of the writer half.                                    *)
THEOREM WritersTyped == Spec => []TypeOK
<1>1. TypeInv => TypeOK
  BY DEF TypeInv
<1> QED
  BY <1>1, WritersInvariance, PTL

(* No callback of Fast-DDS runs on a deleted writer listener, except after *)
(* a removal that was refused and ignored.                                 *)
THEOREM WriterCallbackSafety == Spec => []CallbackSafe
<1>1. TypeInv /\ OwnInv => CallbackSafe
  <2> SUFFICES ASSUME TypeInv, OwnInv, disc.step # "none",
                      disc.writer \notin ignored
               PROVE  info[disc.writer] = "live"
    BY DEF CallbackSafe
  <2> DEFINE w == disc.writer
  <2>1. w \in Writers /\ writer[w] = "live"
    BY DEF TypeInv, TypeOK, Shape, OwnInv, DiscOK
  <2>2. CASE w = call.writer
    BY <2>1, <2>2 DEF TypeInv, TypeOK, Shape, Steps, OwnInv, CurrentOK, Whole
  <2>3. CASE w # call.writer
    BY <2>1, <2>3
       DEF OwnInv, OthersOK, Listed, Whole, Unused, Finished, Gone
  <2> QED
    BY <2>2, <2>3
<1> QED
  BY <1>1, WritersInvariance, PTL

(* No WriterInfo is deleted twice.                                         *)
THEOREM WriterDeletedOnce == Spec => []FreedOnce
<1>1. TypeInv /\ OwnInv => FreedOnce
  <2> SUFFICES ASSUME TypeInv, OwnInv, NEW w \in Writers
               PROVE  info[w] # "doubleFreed"
    BY DEF FreedOnce
  <2>1. CASE w = call.writer
    BY <2>1 DEF TypeInv, TypeOK, Shape, Steps, OwnInv, CurrentOK, Whole
  <2>2. CASE w # call.writer
    BY <2>2 DEF OwnInv, OthersOK, Listed, Whole, Unused, Finished
  <2> QED
    BY <2>1, <2>2
<1> QED
  BY <1>1, WritersInvariance, PTL

(* No WriterInfo is deleted twice or, but for ignored refusals, called     *)
(* back after its deletion.                                                *)
THEOREM WriterMemorySafety == Spec => []MemorySafe
<1>1. CallbackSafe /\ FreedOnce => MemorySafe
  BY DEF MemorySafe
<1> QED
  BY <1>1, WriterCallbackSafety, WriterDeletedOnce, PTL

(* Between calls every listener and writer is accounted for.               *)
THEOREM WriterBooksBalanced == Spec => []IdleBooks
<1>1. TypeInv /\ OwnInv => IdleBooks
  <2> SUFFICES ASSUME TypeInv, OwnInv, At("idle"), NEW w \in Writers
               PROVE  IF Listed(w)
                      THEN info[w] = "live" /\ writer[w] = "live"
                      ELSE info[w] # "live" /\ (writer[w] = "live" => w \in ignored)
    BY DEF IdleBooks
  <2>1. w # call.writer /\ ~Resigning
    BY DEF At, TypeInv, Shape, Resigning
  <2> QED
    BY <2>1 DEF OwnInv, OthersOK, At, Listed, Whole, Unused, Finished, Gone
<1> QED
  BY <1>1, WritersInvariance, PTL

(* No history outgrows the number of sending threads: two samples of one   *)
(* thread would be in it, by the pigeonhole principle.                     *)
THEOREM HistoryWithinSenders == Spec => []HistoryBounded
<1>1. TypeInv /\ HistInv => HistoryBounded
  <2> SUFFICES ASSUME TypeInv, HistInv, NEW w \in Writers,
                      ~(Len(history[w]) <= Cardinality(Senders))
               PROVE  FALSE
    BY DEF HistoryBounded
  <2> DEFINE h == history[w]
             by == [i \in 1..Len(h) |-> h[i].by]
  <2>1. h \in Seq(Samples) /\ Len(h) \in Nat
    BY DEF TypeInv, TypeOK
  <2>2. by \in [1..Len(h) -> Senders]
    <3>1. \A i \in 1..Len(h) : h[i] \in Samples
      <4> HIDE DEF h
      <4> QED
        BY <2>1
    <3>2. \A x \in Samples : x.by \in Senders
      BY DEF Samples
    <3> QED
      BY <3>1, <3>2
  <2>3. IsFiniteSet(1..Len(h)) /\ Cardinality(1..Len(h)) = Len(h)
    BY <2>1, FS_Interval
  <2>4. Cardinality(Senders) \in Nat
    BY FS_CardinalityType
  <2>5. Cardinality(Senders) < Cardinality(1..Len(h))
    BY <2>1, <2>3, <2>4
  <2>6. PICK i, j \in 1..Len(h) : i # j /\ by[i] = by[j]
    <3> HIDE DEF by
    <3> QED
      BY <2>2, <2>3, <2>5, FS_PigeonHole
  <2> QED
    BY <2>6 DEF HistInv, OneEach
<1> QED
  BY <1>1, WritersInvariance, PTL

(* When no send is under way the history ends in the latest sample.        *)
THEOREM LatestSampleKept == Spec => []LatestKept
<1>1. TypeInv /\ HistInv => LatestKept
  BY DEF HistInv, LatestOK, LatestKept, InFlight
<1> QED
  BY <1>1, WritersInvariance, PTL

(* A send that cleans the history finds no change of its own thread.       *)
THEOREM OthersCleaned == Spec => []OnlyOthersCleaned
<1>1. HistInv => OnlyOthersCleaned
  BY DEF HistInv, OwnDropped, PastDrop, OnlyOthersCleaned
<1> QED
  BY <1>1, WritersInvariance, PTL

(* n_matched is exact whenever no match callback is still to count.        *)
THEOREM MatchesCounted == Spec => []CountExact
<1>1. TypeInv /\ CountInv => CountExact
  <2> SUFFICES ASSUME TypeInv, CountInv, NEW w \in Writers, writer[w] = "live",
                      disc.writer = w => disc.step = "notify"
               PROVE  nMatched[w] = Cardinality(matched[w])
    BY DEF CountExact
  <2>1. Owed(w) = 0 /\ nMatched[w] \in Int
    BY DEF Owed, TypeInv, TypeOK
  <2> QED
    BY <2>1 DEF CountInv, CountOf
<1> QED
  BY <1>1, WritersInvariance, PTL

-----------------------------------------------------------------------------
(* The listeners keep the contract of LendingContract.                     *)

Called == {disc.writer} \ {NoWriter}

(* What the contract sees of the writer half.                              *)
ContractVars == <<Lent, Called, ignored>>

(* A step that deletes no listener and starts no callback is a stutter.    *)
LEMMA StutterContract ==
  UNCHANGED <<info, disc, ignored>> => UNCHANGED ContractVars
BY DEF ContractVars, Lent, Called

(* No listener is lent at the start.                                       *)
LEMMA InitContract == Init => Contract!Init
BY DEF Init, Contract!Init, Lent, NoJob

(* addWriter lends the listener it allocates.                              *)
LEMMA AddContract ==
  ASSUME TypeInv, NEW t \in Topics, NEW w \in Writers, AddWriter(t, w)
  PROVE  Contract!Lend(w)
BY DEF TypeInv, TypeOK, AddWriter, Contract!Lend, Lent, matchVars

(* Where a listener is deleted, its writer is gone and calls it no more,   *)
(* or the removal was refused and the terms are off for it.                *)
LEMMA FreeContract ==
  ASSUME TypeInv, OwnInv, NEW w \in Writers, w = call.writer,
         At("create") \/ At("rollback") \/ At("erase") \/ At("resignFree"),
         Free(w), UNCHANGED <<disc, ignored>>
  PROVE  Contract!Return(w) \/ Contract!Break(w)
<1>1. info[w] = "live" /\ (writer[w] # "live" \/ w \in ignored)
  BY DEF TypeInv, Shape, OwnInv, CurrentOK, Gone, At
<1>2. Lent' = [Lent EXCEPT ![w] = "released"] /\ Lent[w] = "retained"
  BY <1>1 DEF TypeInv, TypeOK, Free, Lent
<1>3. Called' = Called
  BY DEF Called
<1>4. CASE writer[w] # "live"
  <2>1. w \notin Called
    BY <1>4 DEF Called, OwnInv, DiscOK, TypeInv, Shape
  <2> QED
    BY <1>2, <1>3, <2>1 DEF Contract!Return, Called
<1>5. CASE w \in ignored
  <2>1. Lent' = [Lent EXCEPT ![w] = Lent'[w]]
    BY <1>2 DEF Lent
  <2> QED
    BY <1>3, <1>5, <2>1 DEF Contract!Break, Called
<1> QED
  BY <1>1, <1>4, <1>5

(* A removal whose answer nobody looks at excuses its listener.            *)
LEMMA RegardlessContract ==
  ASSUME NEW w \in Writers, RemoveRegardless(w), UNCHANGED <<info, disc>>
  PROVE  Contract!Excuse(w) \/ UNCHANGED ContractVars
BY DEF RemoveRegardless, Contract!Excuse, ContractVars, Lent, Called

(* A callback starts when none runs, on the listener of a writer that is   *)
(* in place: it is lent, or its removal was refused and ignored.           *)
LEMMA CallbackContract ==
  ASSUME TypeInv, OwnInv, NEW w \in Writers, disc = NoJob, writer[w] = "live",
         disc'.writer = w, UNCHANGED <<info, ignored>>
  PROVE  Contract!Enter(w) \/ Contract!Break(w)
<1>1. Called = {} /\ Called' = {w}
  BY DEF Called, NoJob, TypeInv, Shape
<1>2. Lent' = Lent
  BY DEF Lent
<1>3. CASE w \in ignored
  <2>1. Lent' = [Lent EXCEPT ![w] = Lent'[w]]
    BY <1>2 DEF Lent
  <2> QED
    BY <1>1, <1>3, <2>1 DEF Contract!Break, Called
<1>4. CASE w \notin ignored
  <2>1. info[w] = "live"
    <3>1. CASE w = call.writer
      BY <1>4, <3>1 DEF TypeInv, TypeOK, Shape, Steps, OwnInv, CurrentOK, Whole,
                        Gone
    <3>2. CASE w # call.writer
      BY <1>4, <3>2 DEF OwnInv, OthersOK, Listed, Whole, Unused, Finished, Gone
    <3> QED
      BY <3>1, <3>2
  <2>2. Lent[w] = "retained"
    BY <2>1 DEF Lent
  <2> QED
    BY <1>1, <1>2, <2>2 DEF Contract!Enter, Called
<1> QED
  BY <1>3, <1>4

(* Every step of the writer half is one of the contract or a stutter.      *)
LEMMA StepContract ==
  ASSUME TypeInv, OwnInv, [Next]_vars PROVE [Contract!Next]_ContractVars
<1> USE DEF Contract!Next
<1>1. ASSUME NEW t \in Topics, NEW w \in Writers, AddWriter(t, w)
      PROVE  Contract!Next
  BY <1>1, AddContract
<1>2. CASE WriterNotCreated \/ RollBackWriter \/ EraseWriter \/ ResignFree
  <2>1. PICK w \in Writers : w = call.writer
    BY <1>2 DEF TypeInv, Shape, WriterNotCreated, RollBackWriter, EraseWriter,
                ResignFree, At
  <2>2. Contract!Return(w) \/ Contract!Break(w)
    BY <1>2, <2>1, FreeContract DEF WriterNotCreated, RollBackWriter, EraseWriter,
                                   ResignFree, matchVars
  <2> QED
    BY <2>2
<1>3. CASE WriterNotRegistered
  <2>1. PICK w \in Writers : w = call.writer
    BY <1>3 DEF TypeInv, Shape, WriterNotRegistered, At
  <2>2. Contract!Excuse(w) \/ UNCHANGED ContractVars
    BY <1>3, <2>1, RegardlessContract DEF WriterNotRegistered
  <2> QED
    BY <2>2
<1>4. ASSUME NEW t \in Topics, ResignWriter(t) PROVE [Contract!Next]_ContractVars
  <2>1. PICK w \in Writers : w = writerList[t]
    BY <1>4 DEF ResignWriter, TypeInv, TypeOK, Shape
  <2>2. Contract!Excuse(w) \/ UNCHANGED ContractVars
    BY <1>4, <2>1, RegardlessContract DEF ResignWriter
  <2> QED
    BY <2>2
<1>5. ASSUME NEW w \in Writers,
             LoseLiveliness(w) \/ \E p \in Remotes : Match(w, p) \/ Unmatch(w, p)
      PROVE  Contract!Next
  BY <1>5, CallbackContract DEF LoseLiveliness, Match, Unmatch, ownVars
<1>6. CASE Notified
  <2>1. PICK w \in Writers : w = disc.writer
    BY <1>6 DEF Notified, TypeInv, TypeOK, Shape
  <2>2. Contract!Leave(w)
    BY <1>6, <2>1 DEF Notified, NoJob, Contract!Leave, Called, Lent, ownVars
  <2> QED
    BY <2>2
<1>7. CASE OnWriterMatched
  BY <1>7 DEF OnWriterMatched, ContractVars, Called, Lent, ownVars, TypeInv, TypeOK
<1>8. CASE UNCHANGED <<info, disc, ignored>>
  BY <1>8, StutterContract
<1> QED
  BY <1>1, <1>2, <1>3, <1>4, <1>5, <1>6, <1>7, <1>8
     DEF Next, Begin, Continue, Sending, Discovery, vars, ownVars, matchVars,
         RemoveWriter, ResignAll, StopAll, WriterCreated, WriterRegistered,
         WriterRemoved, WriterNotRemoved, ResignDone, Send, ReadSize,
         DropHistory, NewChange, NoNewChange, CleanHistory, StoreThroughNull,
         AddChange

(* The writer half implements the terms on which it lends its listeners to *)
(* Fast-DDS, whatever removals are refused: only the listener of a refusal *)
(* that the code does not look at is deleted under a writer that may call. *)
THEOREM ListenersContract == Spec => KeepsContract
<1>1. TypeInv /\ OwnInv /\ [Next]_vars => [Contract!Next]_(Contract!vars)
  BY StepContract DEF ContractVars, Contract!vars, Called
<1> QED
  BY <1>1, InitContract, WritersInvariance, PTL
     DEF Spec, KeepsContract, Contract!Spec

-----------------------------------------------------------------------------
(* How a call goes on.                                                     *)

(* Each step of a call has a lower rank, or takes an entry off todo: the   *)
(* one that goes back to the head of the loop of resignAll.                *)
LEMMA StepAdvances ==
  ASSUME TypeInv, [Next]_vars, ~At("idle"), <<call, todo>>' # <<call, todo>>
  PROVE  /\ todo' \subseteq todo
         /\ todo' # todo \/ Rank(call'.step) < Rank(call.step)
<1>0. MapTypes
  BY DEF TypeInv, TypeOK, MapTypes
<1> USE DEF MapTypes, At, Go, Return, Idle, Rank, Steps, mapVars
<1>1. CASE \/ WriterCreated \/ WriterNotCreated \/ WriterRegistered
          \/ WriterNotRegistered \/ RollBackWriter
  BY <1>0, <1>1 DEF WriterCreated, WriterNotCreated, WriterRegistered,
                    WriterNotRegistered, RollBackWriter
<1>2. CASE WriterRemoved \/ WriterNotRemoved \/ EraseWriter
  BY <1>0, <1>2 DEF WriterRemoved, WriterNotRemoved, EraseWriter
<1>3. CASE ResignDone \/ \E t \in Topics : ResignWriter(t)
  BY <1>0, <1>3 DEF ResignDone, ResignWriter
<1>4. CASE ResignFree
  <2>1. call.topic \in todo
    BY <1>0, <1>4 DEF ResignFree, Shape
  <2> QED
    BY <1>0, <1>4, <2>1 DEF ResignFree
<1>5. UNCHANGED <<call, todo>> \/ Continue
  BY DEF Next, Begin, Discovery, Sending, vars, AddWriter, RemoveWriter,
         ResignAll, StopAll, Send, ReadSize, DropHistory, NewChange,
         NoNewChange, CleanHistory, StoreThroughNull, AddChange, Match,
         Unmatch, LoseLiveliness, OnWriterMatched, Notified
<1> QED
  BY <1>1, <1>2, <1>3, <1>4, <1>5 DEF Continue

(* Every call that changes the map takes boundedly many steps: three, or   *)
(* two for each entry that there was when resignAll began, and one.        *)
THEOREM EveryCallAdvances == Spec => CallsAdvance
<1>1. TypeInv /\ [Next]_vars =>
        [~At("idle") /\ <<call, todo>>' # <<call, todo>> =>
           /\ todo' \subseteq todo
           /\ todo' # todo \/ Rank(call'.step) < Rank(call.step)]_vars
  BY StepAdvances
<1> QED
  BY <1>1, WritersInvariance, PTL DEF Spec, CallsAdvance
-----------------------------------------------------------------------------
(* What a send goes through.                                               *)

(* No send is under way while the map changes, and each is through an      *)
(* entry.                                                                  *)
SendsOK ==
  /\ ~At("idle") => ApiExclusive
  /\ \A s \in Senders : snd[s] # NoSend =>
       snd[s].writer \in Writers /\ Listed(snd[s].writer)

(* A call excludes sends from its start to its return, so none of its      *)
(* steps takes the entry of a send away.                                   *)
LEMMA StepSendsOK == TypeInv /\ SendsOK /\ [Next]_vars => SendsOK'
<1> SUFFICES ASSUME TypeInv, SendsOK, [Next]_vars PROVE SendsOK'
  OBVIOUS
<1> USE DEF SendsOK, Listed, ApiExclusive, At
<1>1. CASE UNCHANGED <<writerList, call, snd>>
  BY <1>1
<1>2. CASE ApiExclusive /\ UNCHANGED snd
  BY <1>2
<1>3. ASSUME NEW s \in Senders, NEW t \in Topics, Send(s, t) PROVE SendsOK'
  BY <1>3 DEF Send, mapVars, TypeInv, TypeOK
<1>4. ASSUME NEW s \in Senders, Stepping(s) PROVE SendsOK'
  <2>1. PICK to \in SendSteps \ {"idle"} : Moved(s, to)
    BY <1>4, SendSteppings DEF TypeInv, Stepping, SendSteps
  <2>2. snd[s] # NoSend /\ UNCHANGED <<writerList, call>>
    BY <1>4 DEF Stepping, ReadSize, DropHistory, NewChange, NoNewChange,
                CleanHistory, StoreThroughNull, NoSend, mapVars
  <2> QED
    BY <2>1, <2>2 DEF Moved
<1>5. ASSUME NEW s \in Senders, AddChange(s) PROVE SendsOK'
  <2>1. /\ snd' = [snd EXCEPT ![s] = NoSend] /\ UNCHANGED <<writerList, call>>
        /\ snd[s] # NoSend
    BY <1>5 DEF AddChange, mapVars, NoSend
  <2> QED
    BY <2>1 DEF TypeInv, TypeOK
<1> QED
  BY <1>1, <1>2, <1>3, <1>4, <1>5
     DEF Next, Begin, Continue, Sending, Stepping, Discovery, vars, mapVars,
         ownVars, matchVars, sendVars, AddWriter,
         RemoveWriter, ResignAll, StopAll, WriterCreated, WriterNotCreated,
         WriterRegistered, WriterNotRegistered, RollBackWriter, WriterRemoved,
         WriterNotRemoved, EraseWriter, ResignWriter, ResignFree, ResignDone,
         Match, Unmatch, LoseLiveliness, OnWriterMatched, Notified

(* At the start nobody sends.                                              *)
LEMMA InitSendsOK == Init => SendsOK
BY DEF Init, SendsOK, At, Idle

(* A send under way goes through a WriterInfo and a writer that are there. *)
LEMMA SendServed ==
  ASSUME TypeInv, OwnInv, SendsOK, NEW s \in Senders, snd[s] # NoSend
  PROVE  /\ At("idle") /\ Listed(snd[s].writer) /\ snd[s].writer \in Writers
         /\ Whole(snd[s].writer)
<1>1. snd[s].writer \in Writers /\ At("idle")
  BY DEF SendsOK, ApiExclusive
<1>2. snd[s].writer # call.writer /\ ~Resigning /\ ~At("stopped")
  BY <1>1 DEF At, TypeInv, Shape, Resigning
<1> QED
  BY <1>1, <1>2 DEF SendsOK, OwnInv, OthersOK, Listed

=============================================================================
