------------------------- MODULE BridgedParticipant -------------------------
(***************************************************************************)
(* BridgedParticipant as one object: its readers, its writers and its      *)
(* participant, put together from the modules of the three.                *)
(*                                                                         *)
(* What the parts leave to each other is here: which call may start when,  *)
(* and the calls that go through several of them.  resignAll visits the    *)
(* readers, then the writers; removeParticipant runs it twice, around the  *)
(* end of the announcement; stopAll strikes all three at once.             *)
(*                                                                         *)
(* Three cases are left to the modules of the parts: that Fast-DDS refuses *)
(* to remove a reader or writer, and that the program creates a participant*)
(* over one it has, or drops the Swift object with one.                    *)
(***************************************************************************)
EXTENDS Integers, Sequences, FiniteSets

CONSTANTS
  Topics, Decoders, Receivers, NoTopic, NoDecoder,      \* the readers
  Writers, Remotes, Senders, MaxSends, NoWriter, NoSender,   \* the writers
  AllocMayFail,
  Attempts, Nil, ParticipantRemovalMayFail              \* the participant

ASSUME ParticipantAssumption ==
  /\ NoTopic \notin Topics /\ NoDecoder \notin Decoders
  /\ NoWriter \notin Writers /\ NoSender \notin Senders
  /\ IsFiniteSet(Remotes) /\ IsFiniteSet(Senders) /\ MaxSends \in Nat
  /\ AllocMayFail \in BOOLEAN /\ ParticipantRemovalMayFail \in BOOLEAN
  /\ Nil \notin Attempts \cup ({"reader", "writer"} \X Topics)
  /\ Attempts \cap ({"reader", "writer"} \X Topics) = {}
  /\ Receivers \cap {"matching", "discovery"} = {}

VARIABLES
  readerList, proxy, listener, reader, cb, leaked,
  readerCall, readerTodo, readerIgnored,
  writerList, info, writer, matched, nMatched, disc,
  history, snd, sent, newest,
  writerCall, writerTodo, writerIgnored,
  swift, mp_participant, mp_listener, participant,
  discoveryListener,   \* the BridgedParticipantListener of each attempt
  phase,               \* where the calls of the participant are
  discovery,           \* whose onParticipantDiscovery runs, or Nil
  participantIgnored   \* history: the participants whose removal was refused

readerVars == <<readerList, proxy, listener, reader, cb, leaked, readerCall,
                readerTodo, readerIgnored>>
writerVars == <<writerList, info, writer, matched, nMatched, disc, history, snd,
                sent, newest, writerCall, writerTodo, writerIgnored>>
lifeVars   == <<swift, mp_participant, mp_listener, participant,
                discoveryListener, phase, discovery, participantIgnored>>
vars == <<readerVars, writerVars, lifeVars>>

R == INSTANCE BridgedReaders WITH
       call <- readerCall, todo <- readerTodo, ignored <- readerIgnored,
       RemovalMayFail <- FALSE
W == INSTANCE BridgedWriters WITH
       call <- writerCall, todo <- writerTodo, ignored <- writerIgnored,
       RemovalMayFail <- FALSE
-----------------------------------------------------------------------------
(* What the participant sees of its readers and writers: an endpoint is in *)
(* place from its creation inside Fast-DDS to its removal, and a callback  *)
(* of it is running or not.                                                *)
Endpoints == {"reader", "writer"} \X Topics

InPlace(e) ==
  IF e[1] = "reader"
  THEN readerList[e[2]] # NoDecoder /\ reader[readerList[e[2]]] = "live"
  ELSE writerList[e[2]] # NoWriter /\ writer[writerList[e[2]]] = "live"

Owner == [e \in Endpoints |-> IF InPlace(e) THEN mp_participant ELSE Nil]

Running(r) ==
  CASE r = "discovery" -> discovery
    [] r = "matching"  -> IF disc = W!NoJob THEN Nil
                          ELSE <<"writer", CHOOSE t \in Topics :
                                             writerList[t] = disc.writer>>
    [] OTHER           -> IF cb[r] = R!NoJob THEN Nil
                          ELSE <<"reader", CHOOSE t \in Topics :
                                             readerList[t] = cb[r].dec>>

Threads == Receivers \cup {"matching", "discovery"}

L == INSTANCE ParticipantLifecycle WITH
       listener <- discoveryListener, step <- phase, owner <- Owner,
       cb <- [r \in Threads |-> Running(r)], ignored <- participantIgnored,
       RemovalMayFail <- ParticipantRemovalMayFail,
       CreateAgain <- FALSE, DropEarly <- FALSE

Init ==
  /\ R!Init /\ W!Init
  /\ swift = "live"
  /\ mp_participant = Nil /\ mp_listener = Nil
  /\ participant = [a \in Attempts |-> "none"]
  /\ discoveryListener = [a \in Attempts |-> "none"]
  /\ phase = "idle" /\ discovery = Nil /\ participantIgnored = {}
-----------------------------------------------------------------------------
(* No call is under way but, perhaps, sends.                               *)
Free == phase = "idle" /\ R!At("idle") /\ W!At("idle")

(* addReader and removeReader, up to their return; likewise the writers.   *)
(* Both go through mp_participant, which has to be there.                  *)
BeginReaders ==
  /\ Free /\ mp_participant # Nil
  /\ \E t \in Topics : \/ \E d \in Decoders : \/ R!AddReaderDuplicate(t, d)
                                              \/ R!AddReader(t, d)
                       \/ R!RemoveReader(t)
  /\ UNCHANGED <<writerVars, lifeVars>>

BeginWriters ==
  /\ Free /\ mp_participant # Nil
  /\ \E t \in Topics : (\E w \in Writers : W!AddWriter(t, w)) \/ W!RemoveWriter(t)
  /\ UNCHANGED <<readerVars, lifeVars>>

ContinueReaders ==
  /\ ~(R!At("resign") /\ readerTodo = {})
  /\ R!Continue
  /\ UNCHANGED <<writerVars, lifeVars>>

ContinueWriters ==
  /\ ~(W!At("resign") /\ writerTodo = {})
  /\ W!Continue
  /\ UNCHANGED <<readerVars, lifeVars>>
-----------------------------------------------------------------------------
(* The calls of the participant that touch no endpoint; those of them that *)
(* begin need that there is none, and so no call of one.                   *)
CallParticipant ==
  /\ UNCHANGED <<readerVars, writerVars, discovery>>
  /\ \/ Free /\ \E a \in Attempts : L!CreateParticipant(a)
     \/ L!ParticipantEnabled \/ L!ParticipantCreated \/ L!ParticipantNotCreated
     \/ L!DeleteWithout \/ L!ParticipantRemoved \/ L!ParticipantNotRemoved
     \/ L!DeleteListener \/ L!Drop

(* resignAll starts with the readers, wherever it is called from.  No send *)
(* may be looking at writerList then.                                      *)
ResignAll ==
  /\ R!ResignAll /\ W!At("idle") /\ W!ApiExclusive
  /\ UNCHANGED <<writerVars, discovery>>
  /\ L!ResignAll \/ L!RemoveParticipant \/ L!StopAnnouncement

\* Mutant of ReadersResigned: the loop over the writers is missing.
ReadersResignedOnly ==
  /\ R!ResignDone
  /\ phase' = L!AfterResign(phase)
  /\ UNCHANGED <<writerVars, swift, mp_participant, mp_listener, participant,
                 discoveryListener, discovery, participantIgnored>>

(* readerList is cleared, and the loop over the writers begins.            *)
ReadersResigned ==
  /\ R!ResignDone /\ W!ResignAll
  /\ UNCHANGED lifeVars

(* writerList is cleared: the call is over, where removeParticipant or the *)
(* destructor made it they go on.                                          *)
WritersResigned ==
  /\ W!ResignDone
  /\ phase' = L!AfterResign(phase)
  /\ UNCHANGED <<readerVars, swift, mp_participant, mp_listener, participant,
                 discoveryListener, discovery, participantIgnored>>

StopAll ==
  /\ Free
  /\ R!StopAll /\ W!StopAll
  /\ UNCHANGED discovery
  /\ L!StopAll
-----------------------------------------------------------------------------
(* What runs beside the calls: sends, and the callbacks of Fast-DDS.       *)
Sending ==
  /\ phase = "idle"
  /\ \E s \in Senders : W!Sending(s)
  /\ UNCHANGED <<readerVars, lifeVars>>

Receive ==
  /\ \E r \in Receivers : R!Receive(r)
  /\ UNCHANGED <<writerVars, lifeVars>>

Matching == W!Discovery /\ UNCHANGED <<readerVars, lifeVars>>

Discover ==
  /\ discovery = Nil
  /\ discovery' \in {a \in Attempts : participant[a] = "live"}
  /\ UNCHANGED <<readerVars, writerVars, swift, mp_participant, mp_listener,
                 participant, discoveryListener, phase, participantIgnored>>

Discovered ==
  /\ discovery # Nil
  /\ discovery' = Nil
  /\ UNCHANGED <<readerVars, writerVars, swift, mp_participant, mp_listener,
                 participant, discoveryListener, phase, participantIgnored>>
-----------------------------------------------------------------------------
Continue ==
  \/ ContinueReaders \/ ContinueWriters
  \/ phase # "idle" /\ (ResignAll \/ CallParticipant)
  \/ ReadersResigned \/ WritersResigned

Begin ==
  \/ BeginReaders \/ BeginWriters
  \/ phase = "idle" /\ (ResignAll \/ CallParticipant)
  \/ StopAll

Next == Begin \/ Continue \/ Sending \/ Receive \/ Matching \/ Discover
        \/ Discovered

EndReceive(r) ==
  /\ R!EndDecode(r) \/ R!DropChange(r)
  /\ UNCHANGED <<writerVars, lifeVars>>

EndMatching ==
  /\ W!OnWriterMatched \/ W!Notified
  /\ UNCHANGED <<readerVars, lifeVars>>

Spec == Init /\ [][Next]_vars

(* A call that was entered goes on, also where it waits for a callback,    *)
(* and callbacks return: the application's block and delegates terminate.  *)
Fairness ==
  /\ SF_vars(Continue)
  /\ \A r \in Receivers : WF_vars(EndReceive(r))
  /\ WF_vars(EndMatching) /\ WF_vars(Discovered)

FairSpec == Spec /\ Fairness
-----------------------------------------------------------------------------
TypeOK == R!TypeOK /\ W!TypeOK /\ L!TypeOK

(* The readers and writers together behave, to the participant, as the     *)
(* endpoints of ParticipantLifecycle do: whatever calls and callbacks are  *)
(* mixed, none is created without a participant, none is in place when     *)
(* resignAll, the destructor or stopAll has passed, and what that module   *)
(* is shown to keep holds of the whole object.                             *)
ImplementsLifecycle == L!Spec

(* Also where the participant goes with its readers, Swift's decoder       *)
(* proxies are used and given back under the contract they are lent by.    *)
KeepsContract == R!KeepsContract

(* The object the endpoints belong to: pointer, RTPSParticipant, and the   *)
(* Swift object at the bare address in its containers.                     *)
ParticipantThere == /\ mp_participant # Nil
                    /\ participant[mp_participant] = "live"
                    /\ swift = "live"

(* Whoever is at work finds everything it goes through, whichever part     *)
(* owns it: a reader's callback its listener, its proxy and the            *)
(* participant; a match and a send the WriterInfo, and a send the writer   *)
(* too; discovery its listener and the Swift object, unless Fast-DDS would *)
(* not remove its participant (BridgedParticipant.cpp:46).                 *)
(* Calls that add, remove, resign and delete may be anywhere meanwhile.    *)
UsersServed ==
  /\ \A r \in Receivers : cb[r] # R!NoJob =>
       /\ listener[cb[r].dec] = "live" /\ ParticipantThere
       /\ cb[r].step = "decode" => proxy[cb[r].dec] = "retained"
  /\ disc # W!NoJob => info[disc.writer] = "live" /\ ParticipantThere
  /\ \A s \in Senders : snd[s] # W!NoSend =>
       /\ info[snd[s].writer] = "live" /\ writer[snd[s].writer] = "live"
       /\ ParticipantThere
  /\ discovery \notin participantIgnored \cup {Nil} =>
       discoveryListener[discovery] = "live" /\ swift = "live"

(* "Remove all readers/writers and then remove participant"                *)
(* (FastRTPSSwift.swift:332): no reader, writer or participant is left     *)
(* inside Fast-DDS, no listener of the first two allocated, and no proxy   *)
(* retained but those that an earlier roll-back of addReader forgot.  Only *)
(* a participant that Fast-DDS refused to remove may be left, and then     *)
(* without its readers and writers.                                        *)
NothingLeft ==
  phase = "removed" =>
    /\ \A a \in Attempts : participant[a] = "live" => a \in participantIgnored
    /\ \A d \in Decoders : /\ reader[d] # "live" /\ listener[d] # "live"
                           /\ proxy[d] = "retained" => d \in leaked
    /\ \A w \in Writers : writer[w] # "live" /\ info[w] # "live"

ReadersNearer ==
  /\ readerTodo' \subseteq readerTodo
  /\ readerTodo' # readerTodo \/ R!Rank(readerCall'.step) < R!Rank(readerCall.step)

WritersNearer ==
  /\ writerTodo' \subseteq writerTodo
  /\ writerTodo' # writerTodo \/ W!Rank(writerCall'.step) < W!Rank(writerCall.step)

(* removeParticipant goes one way only: each of its steps ends a pass or   *)
(* leads to the next one, or brings the loop over the readers nearer to    *)
(* its end or, with that at rest, the loop over the writers.  Nothing that *)
(* runs beside it, sends and all callbacks, gives it more to do.           *)
RemovalAdvances ==
  [][/\ L!Ahead(phase) > 0
     /\ <<phase, readerCall, readerTodo, writerCall, writerTodo>>'
          # <<phase, readerCall, readerTodo, writerCall, writerTodo>>
     => \/ L!Ahead(phase') < L!Ahead(phase)
        \/ phase' = phase /\ ReadersNearer
        \/ UNCHANGED <<phase, readerCall, readerTodo>> /\ WritersNearer]_vars

(* removeParticipant returns, whatever is received, matched and discovered *)
(* meanwhile: of its two passes over the endpoints neither waits for ever. *)
RemovalReturns == phase = "resignWrapper" ~> phase = "removed"

=============================================================================
