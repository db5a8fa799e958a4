--------------------------- MODULE BridgedWriters ---------------------------
(***************************************************************************)
(* The writer half of BridgedParticipant: the map writerList, what its     *)
(* entries own, the sending of samples through the history of a writer,    *)
(* and the match callbacks of BridgedWriterListener.                       *)
(*                                                                         *)
(* A WriterInfo, its WriterHistory, its BridgedWriterListener and its      *)
(* RTPSWriter come from one call of addWriter and share one name w.        *)
(*                                                                         *)
(* writerList is a plain std::map and nothing is locked, so a program may  *)
(* look up concurrently but not while the map changes: sends of several    *)
(* threads overlap each other, and no other call (ApiExclusive).  Fast-DDS *)
(* makes its own operations on a history atomic.                           *)
(***************************************************************************)
EXTENDS Integers, Sequences, FiniteSets

CONSTANTS
  Topics,          \* topic names, the keys of writerList
  Writers,         \* registrations; bounds how many a behaviour makes
  Remotes,         \* readers of other participants that may match
  Senders,         \* application threads that send
  MaxSends,        \* bound on the samples of a behaviour
  NoTopic, NoWriter, NoSender,
  AllocMayFail,    \* may new_change answer nullptr?
  RemovalMayFail   \* may RTPSDomain::removeRTPSWriter answer false?

ASSUME WritersAssumption ==
  /\ NoTopic \notin Topics
  /\ NoWriter \notin Writers
  /\ NoSender \notin Senders
  /\ IsFiniteSet(Remotes) /\ IsFiniteSet(Senders)
  /\ MaxSends \in Nat
  /\ AllocMayFail \in BOOLEAN /\ RemovalMayFail \in BOOLEAN

VARIABLES
  writerList,      \* the map: topic -> registration, NoWriter when absent
  info,            \* BridgedWriterListener + WriterHistory
  writer,          \* RTPSWriter inside Fast-DDS
  matched,         \* matched[w]: the remote readers Fast-DDS has matched
  nMatched,        \* BridgedWriterListener::n_matched
  history,         \* history[w]: samples kept by the writer, oldest first
  call,            \* where the call that changes the map is
  todo,            \* resignAll: entries the loop has not visited yet
  snd,             \* snd[s]: where the send of thread s is
  disc,            \* the listener callback Fast-DDS executes
  sent,            \* number of sends so far; names the samples
  newest,          \* history variable: newest[w] is the sample added last
  ignored          \* history variable: refused removals that were ignored

mapVars   == <<writerList, call, todo>>
ownVars   == <<info, writer, ignored>>
matchVars == <<matched, nMatched, disc>>
sendVars  == <<history, snd, sent, newest>>
vars      == <<mapVars, ownVars, matchVars, sendVars>>
-----------------------------------------------------------------------------
Steps     == {"idle", "create", "register", "rollback", "remove", "erase",
              "resign", "resignFree", "stopped"}
SendSteps == {"idle", "size", "drop", "alloc", "clean", "retry", "fill",
              "crashed"}

Idle   == [step |-> "idle", topic |-> NoTopic, writer |-> NoWriter]
NoSend == [step |-> "idle", writer |-> NoWriter, no |-> 0]
NoSample == [by |-> NoSender, no |-> 0]
NoJob  == [step |-> "none", writer |-> NoWriter]

At(step)      == call.step = step
Go(step)      == call' = [call EXCEPT !.step = step]
Return        == call' = Idle
SampleOf(s)   == [by |-> s, no |-> snd[s].no]
SendGo(s, to) == snd' = [snd EXCEPT ![s].step = to]
Listed(w)     == \E t \in Topics : writerList[t] = w

(* The discipline a lock-free std::map asks of the program.                *)
ApiExclusive == \A s \in Senders : snd[s] = NoSend

(* delete listener and delete history, by hand or in ~WriterInfo.          *)
Free(w) == info' = [info EXCEPT ![w] = IF @ = "live" THEN "freed"
                                                     ELSE "doubleFreed"]

(* RTPSDomain::removeRTPSWriter: it waits for a callback of the writer and *)
(* takes it out with its matches, or answers false and leaves it in place. *)
Removed(w) == /\ disc.writer # w
              /\ writer'  = [writer EXCEPT ![w] = "removed"]
              /\ matched' = [matched EXCEPT ![w] = {}]
Refused(w) == RemovalMayFail /\ UNCHANGED <<writer, matched>>

(* A call of removeRTPSWriter whose result the code does not look at.      *)
RemoveRegardless(w) ==
  \/ Removed(w) /\ UNCHANGED ignored
  \/ Refused(w) /\ ignored' = ignored \cup {w}

Init ==
  /\ writerList = [t \in Topics |-> NoWriter]
  /\ info     = [w \in Writers |-> "none"]
  /\ writer   = [w \in Writers |-> "none"]
  /\ matched  = [w \in Writers |-> {}]
  /\ nMatched = [w \in Writers |-> 0]
  /\ history  = [w \in Writers |-> <<>>]
  /\ call = Idle
  /\ todo = {}
  /\ snd  = [s \in Senders |-> NoSend]
  /\ disc = NoJob
  /\ sent = 0
  /\ newest  = [w \in Writers |-> NoSample]
  /\ ignored = {}
-----------------------------------------------------------------------------
(* addWriter; a topic that has a writer is an error that changes nothing.  *)

AddWriter(t, w) ==
  /\ At("idle") /\ ApiExclusive
  /\ info[w] = "none"
  /\ writerList[t] = NoWriter
  /\ info' = [info EXCEPT ![w] = "live"]
  /\ call' = [step |-> "create", topic |-> t, writer |-> w]
  /\ UNCHANGED <<writerList, todo, writer, ignored, matchVars, sendVars>>

WriterCreated ==
  /\ At("create")
  /\ writer'     = [writer EXCEPT ![call.writer] = "live"]
  /\ writerList' = [writerList EXCEPT ![call.topic] = call.writer]
  /\ Go("register")
  /\ UNCHANGED <<todo, info, ignored, matchVars, sendVars>>

\* Mutant of WriterNotCreated: listener and history are forgotten.
WriterNotCreatedLeaks ==
  /\ At("create")
  /\ Return
  /\ UNCHANGED <<writerList, todo, ownVars, matchVars, sendVars>>

WriterNotCreated ==
  /\ At("create")
  /\ Free(call.writer)
  /\ Return
  /\ UNCHANGED <<writerList, todo, writer, ignored, matchVars, sendVars>>

WriterRegistered ==
  /\ At("register")
  /\ Return
  /\ UNCHANGED <<writerList, todo, ownVars, matchVars, sendVars>>

(* registerWriter answers false: the writer is taken out again.            *)
WriterNotRegistered ==
  /\ At("register")
  /\ RemoveRegardless(call.writer)
  /\ Go("rollback")
  /\ UNCHANGED <<writerList, todo, info, nMatched, disc, sendVars>>

RollBackWriter ==
  /\ At("rollback")
  /\ writerList' = [writerList EXCEPT ![call.topic] = NoWriter]
  /\ Free(call.writer)
  /\ Return
  /\ UNCHANGED <<todo, writer, ignored, matchVars, sendVars>>
-----------------------------------------------------------------------------
(* removeWriter; an unknown topic is an error that changes nothing.        *)

\* Mutant of RemoveWriter: the topic is not looked up first.
RemoveWriterUnchecked(t) ==
  /\ At("idle") /\ ApiExclusive
  /\ call' = [step |-> "remove", topic |-> t, writer |-> writerList[t]]
  /\ UNCHANGED <<writerList, todo, ownVars, matchVars, sendVars>>

RemoveWriter(t) ==
  /\ At("idle") /\ ApiExclusive
  /\ writerList[t] # NoWriter
  /\ call' = [step |-> "remove", topic |-> t, writer |-> writerList[t]]
  /\ UNCHANGED <<writerList, todo, ownVars, matchVars, sendVars>>

WriterRemoved ==
  /\ At("remove")
  /\ Removed(call.writer)
  /\ Go("erase")
  /\ UNCHANGED <<writerList, todo, info, ignored, nMatched, disc, sendVars>>

\* Mutant of WriterNotRemoved: the result of the removal is not looked at.
WriterNotRemovedGoesOn ==
  /\ At("remove")
  /\ Refused(call.writer)
  /\ Go("erase")
  /\ UNCHANGED <<writerList, todo, info, ignored, nMatched, disc, sendVars>>

(* The removal failed: the call fails too and the entry stays.             *)
WriterNotRemoved ==
  /\ At("remove")
  /\ Refused(call.writer)
  /\ Return
  /\ UNCHANGED <<writerList, todo, info, ignored, nMatched, disc, sendVars>>

EraseWriter ==
  /\ At("erase")
  /\ writerList' = [writerList EXCEPT ![call.topic] = NoWriter]
  /\ Free(call.writer)
  /\ Return
  /\ UNCHANGED <<todo, writer, ignored, matchVars, sendVars>>
-----------------------------------------------------------------------------
(* resignAll, writer loop; the map is cleared after the last entry.        *)

ResignAll ==
  /\ At("idle") /\ ApiExclusive
  /\ todo' = {t \in Topics : writerList[t] # NoWriter}
  /\ Go("resign")
  /\ UNCHANGED <<writerList, ownVars, matchVars, sendVars>>

ResignWriter(t) ==
  /\ At("resign") /\ t \in todo
  /\ RemoveRegardless(writerList[t])
  /\ call' = [step |-> "resignFree", topic |-> t, writer |-> writerList[t]]
  /\ UNCHANGED <<writerList, todo, info, nMatched, disc, sendVars>>

\* Mutant of ResignFree: the iterator is not advanced.
ResignFreeStuck ==
  /\ At("resignFree")
  /\ Free(call.writer)
  /\ call' = [Idle EXCEPT !.step = "resign"]
  /\ UNCHANGED <<writerList, todo, writer, ignored, matchVars, sendVars>>

ResignFree ==
  /\ At("resignFree")
  /\ Free(call.writer)
  /\ todo' = todo \ {call.topic}
  /\ call' = [Idle EXCEPT !.step = "resign"]
  /\ UNCHANGED <<writerList, writer, ignored, matchVars, sendVars>>

\* Mutant of ResignDone: the map is not cleared.
ResignDoneNoClear ==
  /\ At("resign") /\ todo = {}
  /\ Return
  /\ UNCHANGED <<writerList, todo, ownVars, matchVars, sendVars>>

ResignDone ==
  /\ At("resign") /\ todo = {}
  /\ writerList' = [t \in Topics |-> NoWriter]
  /\ Return
  /\ UNCHANGED <<todo, ownVars, matchVars, sendVars>>

(* stopAll takes every writer of the process out, with its matches; what   *)
(* this object allocated and its map stay.  It ends the use of the object. *)
StopAll ==
  /\ At("idle") /\ ApiExclusive /\ disc = NoJob
  /\ writer' = [w \in Writers |-> IF writer[w] = "live" THEN "removed"
                                                        ELSE writer[w]]
  /\ matched' = [w \in Writers |-> {}]
  /\ Go("stopped")
  /\ UNCHANGED <<writerList, todo, info, ignored, nMatched, disc, sendVars>>
-----------------------------------------------------------------------------
(* send.  An unknown topic, or no matched reader, is an error that changes *)
(* nothing.  n_matched is read once, without a lock.                       *)

Send(s, t) ==
  /\ At("idle") /\ snd[s] = NoSend
  /\ sent < MaxSends
  /\ writerList[t] # NoWriter
  /\ nMatched[writerList[t]] # 0
  /\ sent' = sent + 1
  /\ snd' = [snd EXCEPT ![s] = [step |-> "size", writer |-> writerList[t],
                                no |-> sent + 1]]
  /\ UNCHANGED <<mapVars, ownVars, matchVars, history, newest>>

\* Mutant of ReadSize: the history is dropped only above two samples.
ReadSizeOffByOne(s) ==
  /\ snd[s].step = "size"
  /\ SendGo(s, IF Len(history[snd[s].writer]) > 2 THEN "drop" ELSE "alloc")
  /\ UNCHANGED <<mapVars, ownVars, matchVars, history, sent, newest>>

(* getHistorySize and remove_all_changes lock the history one by one.      *)
ReadSize(s) ==
  /\ snd[s].step = "size"
  /\ SendGo(s, IF history[snd[s].writer] # <<>> THEN "drop" ELSE "alloc")
  /\ UNCHANGED <<mapVars, ownVars, matchVars, history, sent, newest>>

\* Mutant of DropHistory: what was looked at is not taken out.
DropHistoryNot(s) ==
  /\ snd[s].step = "drop"
  /\ SendGo(s, "alloc")
  /\ UNCHANGED <<mapVars, ownVars, matchVars, history, sent, newest>>

DropHistory(s) ==
  /\ snd[s].step = "drop"
  /\ history' = [history EXCEPT ![snd[s].writer] = <<>>]
  /\ SendGo(s, "alloc")
  /\ UNCHANGED <<mapVars, ownVars, matchVars, sent, newest>>

NewChange(s) ==
  /\ snd[s].step \in {"alloc", "retry"}
  /\ SendGo(s, "fill")
  /\ UNCHANGED <<mapVars, ownVars, matchVars, history, sent, newest>>

(* new_change answered nullptr: the code goes on to clean the history.     *)
NoNewChange(s) ==
  /\ AllocMayFail
  /\ snd[s].step = "alloc"
  /\ SendGo(s, "clean")
  /\ UNCHANGED <<mapVars, ownVars, matchVars, history, sent, newest>>

(* remove_older_changes(2), before the second and last attempt.            *)
CleanHistory(s) ==
  /\ snd[s].step = "clean"
  /\ history' = [history EXCEPT ![snd[s].writer] = SubSeq(@, 3, Len(@))]
  /\ SendGo(s, "retry")
  /\ UNCHANGED <<mapVars, ownVars, matchVars, sent, newest>>

(* The second answer is nullptr too.  Nobody looks: the payload is stored  *)
(* through a null pointer.  The process ends; here, only this thread.      *)
StoreThroughNull(s) ==
  /\ AllocMayFail
  /\ snd[s].step = "retry"
  /\ SendGo(s, "crashed")
  /\ UNCHANGED <<mapVars, ownVars, matchVars, history, sent, newest>>

\* Mutant of AddChange: the drop comes after the addition.
AddChangeThenDrop(s) ==
  /\ snd[s].step = "fill"
  /\ history' = [history EXCEPT ![snd[s].writer] = <<>>]
  /\ newest'  = [newest EXCEPT ![snd[s].writer] = SampleOf(s)]
  /\ snd'     = [snd EXCEPT ![s] = NoSend]
  /\ UNCHANGED <<mapVars, ownVars, matchVars, sent>>

(* The payload is stored and add_change appends the sample.                *)
AddChange(s) ==
  /\ snd[s].step = "fill"
  /\ history' = [history EXCEPT ![snd[s].writer] = Append(@, SampleOf(s))]
  /\ newest'  = [newest EXCEPT ![snd[s].writer] = SampleOf(s)]
  /\ snd'     = [snd EXCEPT ![s] = NoSend]
  /\ UNCHANGED <<mapVars, ownVars, matchVars, sent>>
-----------------------------------------------------------------------------
(* The callbacks of BridgedWriterListener.  Fast-DDS runs them one at a    *)
(* time, under the lock of its discovery, and only for a writer in place.  *)

Match(w, p) ==
  /\ disc = NoJob /\ writer[w] = "live" /\ p \notin matched[w]
  /\ matched' = [matched EXCEPT ![w] = @ \cup {p}]
  /\ disc' = [step |-> "matched", writer |-> w]
  /\ UNCHANGED <<mapVars, ownVars, nMatched, sendVars>>

Unmatch(w, p) ==
  /\ disc = NoJob /\ writer[w] = "live" /\ p \in matched[w]
  /\ matched' = [matched EXCEPT ![w] = @ \ {p}]
  /\ disc' = [step |-> "unmatched", writer |-> w]
  /\ UNCHANGED <<mapVars, ownVars, nMatched, sendVars>>

(* on_liveliness_lost only notifies.                                       *)
LoseLiveliness(w) ==
  /\ disc = NoJob /\ writer[w] = "live"
  /\ disc' = [step |-> "notify", writer |-> w]
  /\ UNCHANGED <<mapVars, ownVars, matched, nMatched, sendVars>>

\* Mutant of OnWriterMatched: a removed match is counted like a new one.
OnWriterMatchedUpOnly ==
  /\ disc.step \in {"matched", "unmatched"}
  /\ nMatched' = [nMatched EXCEPT ![disc.writer] = @ + 1]
  /\ disc' = [disc EXCEPT !.step = "notify"]
  /\ UNCHANGED <<mapVars, ownVars, matched, sendVars>>

(* onWriterMatched: n_matched first, then the notification.                *)
OnWriterMatched ==
  /\ disc.step \in {"matched", "unmatched"}
  /\ nMatched' = [nMatched EXCEPT ![disc.writer] =
                    IF disc.step = "matched" THEN @ + 1 ELSE @ - 1]
  /\ disc' = [disc EXCEPT !.step = "notify"]
  /\ UNCHANGED <<mapVars, ownVars, matched, sendVars>>

(* readerWriterListenerCallback returns, and the callback with it.         *)
Notified ==
  /\ disc.step = "notify"
  /\ disc' = NoJob
  /\ UNCHANGED <<mapVars, ownVars, matched, nMatched, sendVars>>
-----------------------------------------------------------------------------
Begin ==
  \/ \E t \in Topics : \/ \E w \in Writers : AddWriter(t, w)
                       \/ RemoveWriter(t)
  \/ ResignAll \/ StopAll

Continue ==
  \/ WriterCreated \/ WriterNotCreated
  \/ WriterRegistered \/ WriterNotRegistered \/ RollBackWriter
  \/ WriterRemoved \/ WriterNotRemoved \/ EraseWriter
  \/ \E t \in Topics : ResignWriter(t)
  \/ ResignFree \/ ResignDone

Sending(s) ==
  \/ \E t \in Topics : Send(s, t)
  \/ ReadSize(s) \/ DropHistory(s)
  \/ NewChange(s) \/ NoNewChange(s) \/ CleanHistory(s)
  \/ StoreThroughNull(s) \/ AddChange(s)

Discovery ==
  \/ \E w \in Writers : \/ \E p \in Remotes : Match(w, p) \/ Unmatch(w, p)
                        \/ LoseLiveliness(w)
  \/ OnWriterMatched \/ Notified

Next == Begin \/ Continue \/ Discovery \/ \E s \in Senders : Sending(s)

Spec == Init /\ [][Next]_vars
-----------------------------------------------------------------------------
Samples == [by : Senders, no : Nat]

(* A call that goes through a WriterInfo has one.                          *)
TypeOK ==
  /\ writerList \in [Topics -> Writers \cup {NoWriter}]
  /\ info \in [Writers -> {"none", "live", "freed", "doubleFreed"}]
  /\ writer \in [Writers -> {"none", "live", "removed"}]
  /\ matched \in [Writers -> SUBSET Remotes]
  /\ nMatched \in [Writers -> Int]
  /\ history \in [Writers -> Seq(Samples)]
  /\ call \in [step : Steps, topic : Topics \cup {NoTopic},
               writer : Writers \cup {NoWriter}]
  /\ call.step \notin {"idle", "resign", "stopped"} => call.writer \in Writers
  /\ todo \in SUBSET Topics
  /\ snd \in [Senders -> [step : SendSteps, writer : Writers \cup {NoWriter},
                          no : Nat]]
  /\ disc \in [step : {"none", "matched", "unmatched", "notify"},
               writer : Writers \cup {NoWriter}]
  /\ sent \in Nat
  /\ newest \in [Writers -> Samples \cup {NoSample}]
  /\ ignored \in SUBSET Writers

(* No callback of Fast-DDS runs on a listener that was deleted, unless the *)
(* code ignored that the removal was refused (BridgedParticipant.cpp:71,   *)
(* 304).                                                                   *)
CallbackSafe ==
  disc.step # "none" /\ disc.writer \notin ignored => info[disc.writer] = "live"

(* Whatever the order of calls and failures, no WriterInfo is deleted      *)
(* twice.                                                                  *)
FreedOnce == \A w \in Writers : info[w] # "doubleFreed"

(* A WriterInfo is neither deleted twice nor, where the code did not go    *)
(* over a refusal, called back after it was deleted, whatever matches      *)
(* while removeWriter, resignAll and the error paths of addWriter tear a   *)
(* writer down.                                                            *)
MemorySafe == CallbackSafe /\ FreedOnce

(* Between two calls the books are balanced: an entry of the map owns a    *)
(* live writer and its listener, and nothing else of either kind is left.  *)
IdleBooks ==
  At("idle") =>
    \A w \in Writers :
      IF Listed(w)
      THEN info[w] = "live" /\ writer[w] = "live"
      ELSE info[w] # "live" /\ (writer[w] = "live" => w \in ignored)

(* n_matched, by which send decides, is the number of matched readers as   *)
(* soon as the pending callback has run, whatever matched or left before.  *)
CountExact ==
  \A w \in Writers :
    writer[w] = "live" /\ (disc.writer = w => disc.step = "notify") =>
      nMatched[w] = Cardinality(matched[w])

InFlight(w) == {s \in Senders : snd[s].writer = w}

(* The history never holds more samples than there are sending threads:    *)
(* every send drops what it finds before it adds its own, although the     *)
(* look, the drop and the addition are three operations, not one.          *)
HistoryBounded == \A w \in Writers : Len(history[w]) <= Cardinality(Senders)

(* What a late joiner may be given is the latest value: when no send is    *)
(* under way the history of a writer that sent ends in the sample that was *)
(* added last, although every send may drop what another one just added.   *)
LatestKept ==
  \A w \in Writers :
    InFlight(w) = {} /\ newest[w] # NoSample =>
      history[w] # <<>> /\ history[w][Len(history[w])] = newest[w]

(* Where the second attempt at a change is prepared by taking old changes  *)
(* out ("In the case history is full", BridgedParticipant.cpp:360, 367),   *)
(* none of them is of the thread that cleans: this send has dropped all    *)
(* changes before.  So with one sending thread there is nothing to take    *)
(* out, and the second attempt fares as the first.                         *)
OnlyOthersCleaned ==
  \A s \in Senders : snd[s].step = "clean" =>
    \A n \in 1 .. Len(history[snd[s].writer]) :
      history[snd[s].writer][n].by # s

(* How many steps a call has before it at most, for one entry of the map.  *)
Rank(s) == CASE s \in {"create", "resign"} -> 3
             [] s \in {"register", "remove"} -> 2
             [] s \in {"rollback", "erase", "resignFree"} -> 1
             [] s \in {"idle", "stopped"} -> 0

(* No call that changes the map goes round in circles: each of its steps   *)
(* brings it nearer to its return, or takes an entry off those resignAll   *)
(* has still to visit, whatever is refused and whatever matches meanwhile. *)
CallsAdvance ==
  [][~At("idle") /\ <<call, todo>>' # <<call, todo>> =>
       /\ todo' \subseteq todo
       /\ todo' # todo \/ Rank(call'.step) < Rank(call.step)]_vars
-----------------------------------------------------------------------------
(* The listeners, as Fast-DDS is lent them.                                *)
Lent == [w \in Writers |-> CASE info[w] = "none" -> "unused"
                             [] info[w] = "live" -> "retained"
                             [] OTHER            -> "released"]

Contract == INSTANCE LendingContract WITH
              Objects <- Writers, status <- Lent,
              running <- {disc.writer} \ {NoWriter}, excused <- ignored

(* Fast-DDS calls a BridgedWriterListener only between its allocation and  *)
(* its deletion, which comes once and under no callback; a removal that is *)
(* refused and ignored (BridgedParticipant.cpp:71, 304) suspends the terms *)
(* for its own listener and for no other.                                  *)
KeepsContract == Contract!Spec

=============================================================================
