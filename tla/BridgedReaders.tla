--------------------------- MODULE BridgedReaders ---------------------------
(***************************************************************************)
(* The reader half of BridgedParticipant: the map readerList, the life of  *)
(* what an entry owns, and the data callback of BridgedReaderListener that *)
(* the threads of Fast-DDS run meanwhile.                                  *)
(*                                                                         *)
(* One call of registerReaderRaw allocates a PayloadDecoderProxy, a        *)
(* BridgedReaderListener with its ReaderHistory, and (if all goes well) an *)
(* RTPSReader and a ReaderInfo.  They belong together, so the proxy names  *)
(* all of them: reader[d], listener[d] and readerList[t] = d are about the *)
(* registration that lent proxy d.                                         *)
(*                                                                         *)
(* The API is used by one application thread at a time: the class has no   *)
(* lock, and readerList is a plain std::map.  A call is a sequence of      *)
(* steps (variable "call"), cut where Fast-DDS may act in between.         *)
(***************************************************************************)
EXTENDS Naturals

CONSTANTS
  Topics,          \* topic names, the keys of readerList
  Decoders,        \* proxies; each registration takes a fresh one, so this
                   \* bounds the number of registrations of a behaviour
  Receivers,       \* threads of Fast-DDS that run reader callbacks
  NoTopic,         \* not a topic
  NoDecoder,       \* not a proxy: absent map entry
  RemovalMayFail   \* may RTPSDomain::removeRTPSReader answer false?

ASSUME ReadersAssumption ==
  /\ NoTopic \notin Topics
  /\ NoDecoder \notin Decoders
  /\ RemovalMayFail \in BOOLEAN

VARIABLES
  readerList,      \* the map: topic -> registration, NoDecoder when absent
  proxy,           \* the reference lent by Swift, as releaseCallback sees it
  listener,        \* BridgedReaderListener + ReaderHistory
  reader,          \* RTPSReader inside Fast-DDS
  call,            \* where the application thread is: step, topic, proxy
  todo,            \* resignAll: entries the loop has not visited yet
  cb,              \* cb[r]: the callback thread r executes
  ignored,         \* history: readers whose refused removal was ignored
  leaked           \* history: proxies whose registration was rolled back

vars == <<readerList, proxy, listener, reader, call, todo, cb, ignored, leaked>>
history == <<ignored, leaked>>
-----------------------------------------------------------------------------
Steps == {"idle", "create", "register", "unregister", "rollback",
          "remove", "erase", "release",
          "resign", "resignRelease", "resignFree", "stopped"}

Idle  == [step |-> "idle", topic |-> NoTopic, dec |-> NoDecoder]
NoJob == [step |-> "none", dec |-> NoDecoder]

At(step)  == call.step = step
Go(step)  == call' = [call EXCEPT !.step = step]
Return    == call' = Idle

Listed(d) == \E t \in Topics : readerList[t] = d

(* No callback of d is executing.  Fast-DDS runs the callbacks of a reader *)
(* under that reader's mutex.                                              *)
Quiet(d) == \A r \in Receivers : cb[r].dec # d

(* releaseCallback.  A second release of the same reference is recorded as *)
(* such: in the program it corrupts the reference count.                   *)
Release(d) ==
  proxy' = [proxy EXCEPT ![d] = IF @ = "retained" THEN "released"
                                                   ELSE "overReleased"]

(* delete listener and delete history, by hand or in ~ReaderInfo.          *)
Free(d) ==
  listener' = [listener EXCEPT ![d] = IF @ = "live" THEN "freed"
                                                    ELSE "doubleFreed"]

(* RTPSDomain::removeRTPSReader: either it waits for the callbacks of the  *)
(* reader and takes it out, or it answers false and leaves it in place.    *)
Removed(d) == Quiet(d) /\ reader' = [reader EXCEPT ![d] = "removed"]
Refused(d) == RemovalMayFail /\ UNCHANGED reader

(* A call of removeRTPSReader whose result the code does not look at.      *)
RemoveRegardless(d) ==
  \/ Removed(d) /\ UNCHANGED ignored
  \/ Refused(d) /\ ignored' = ignored \cup {d}

Init ==
  /\ readerList = [t \in Topics |-> NoDecoder]
  /\ proxy      = [d \in Decoders |-> "unused"]
  /\ listener   = [d \in Decoders |-> "none"]
  /\ reader     = [d \in Decoders |-> "none"]
  /\ call       = Idle
  /\ todo       = {}
  /\ cb         = [r \in Receivers |-> NoJob]
  /\ ignored    = {}
  /\ leaked     = {}
-----------------------------------------------------------------------------
(* addReader                                                               *)

(* The topic is registered already: the fresh proxy is given back.         *)
AddReaderDuplicate(t, d) ==
  /\ At("idle") /\ proxy[d] = "unused"
  /\ readerList[t] # NoDecoder
  /\ proxy' = [proxy EXCEPT ![d] = "released"]
  /\ UNCHANGED <<readerList, listener, reader, call, todo, cb, history>>

(* The proxy is retained, the listener and the history are allocated.      *)
AddReader(t, d) ==
  /\ At("idle") /\ proxy[d] = "unused"
  /\ readerList[t] = NoDecoder
  /\ proxy'    = [proxy EXCEPT ![d] = "retained"]
  /\ listener' = [listener EXCEPT ![d] = "live"]
  /\ call'     = [step |-> "create", topic |-> t, dec |-> d]
  /\ UNCHANGED <<readerList, reader, todo, cb, history>>

(* createRTPSReader answers a reader: it is live, and entered in the map.  *)
ReaderCreated ==
  /\ At("create")
  /\ reader'     = [reader EXCEPT ![call.dec] = "live"]
  /\ readerList' = [readerList EXCEPT ![call.topic] = call.dec]
  /\ Go("register")
  /\ UNCHANGED <<proxy, listener, todo, cb, history>>

\* Mutant of ReaderNotCreated: the error path forgets releaseCallback.
ReaderNotCreatedLeaks ==
  /\ At("create")
  /\ Free(call.dec)
  /\ Return
  /\ UNCHANGED <<readerList, proxy, reader, todo, cb, history>>

(* createRTPSReader answers nullptr.                                       *)
ReaderNotCreated ==
  /\ At("create")
  /\ Free(call.dec) /\ Release(call.dec)
  /\ Return
  /\ UNCHANGED <<readerList, reader, todo, cb, history>>

ReaderRegistered ==
  /\ At("register")
  /\ Return
  /\ UNCHANGED <<readerList, proxy, listener, reader, todo, cb, history>>

(* registerReader answers false: the code starts to undo.                  *)
ReaderNotRegistered ==
  /\ At("register")
  /\ Go("unregister")
  /\ UNCHANGED <<readerList, proxy, listener, reader, todo, cb, history>>

UnregisterReader ==
  /\ At("unregister")
  /\ RemoveRegardless(call.dec)
  /\ Go("rollback")
  /\ UNCHANGED <<readerList, proxy, listener, todo, cb, leaked>>

(* The entry is erased and ReaderInfo deleted; this path does not call     *)
(* releaseCallback.                                                        *)
RollBackReader ==
  /\ At("rollback")
  /\ readerList' = [readerList EXCEPT ![call.topic] = NoDecoder]
  /\ Free(call.dec)
  /\ Return
  /\ leaked' = leaked \cup {call.dec}
  /\ UNCHANGED <<proxy, reader, todo, cb, ignored>>
-----------------------------------------------------------------------------
(* removeReader; an unknown topic is an error that changes nothing.        *)

\* Mutant of RemoveReader: the proxy is released before the reader is removed.
RemoveReaderReleaseFirst(t) ==
  /\ At("idle")
  /\ readerList[t] # NoDecoder
  /\ Release(readerList[t])
  /\ call' = [step |-> "remove", topic |-> t, dec |-> readerList[t]]
  /\ UNCHANGED <<readerList, listener, reader, todo, cb, history>>

\* Mutant of RemoveReader: the topic is not looked up first.
RemoveReaderUnchecked(t) ==
  /\ At("idle")
  /\ call' = [step |-> "remove", topic |-> t, dec |-> readerList[t]]
  /\ UNCHANGED <<readerList, proxy, listener, reader, todo, cb, history>>

RemoveReader(t) ==
  /\ At("idle")
  /\ readerList[t] # NoDecoder
  /\ call' = [step |-> "remove", topic |-> t, dec |-> readerList[t]]
  /\ UNCHANGED <<readerList, proxy, listener, reader, todo, cb, history>>

ReaderRemoved ==
  /\ At("remove")
  /\ Removed(call.dec)
  /\ Go("erase")
  /\ UNCHANGED <<readerList, proxy, listener, todo, cb, history>>

\* Mutant of ReaderNotRemoved: the result of the removal is not looked at.
ReaderNotRemovedGoesOn ==
  /\ At("remove")
  /\ Refused(call.dec)
  /\ Go("erase")
  /\ UNCHANGED <<readerList, proxy, listener, todo, cb, history>>

\* Mutant of ReaderNotRemoved: the entry is erased before the result is known.
ReaderNotRemovedForgets ==
  /\ At("remove")
  /\ Refused(call.dec)
  /\ readerList' = [readerList EXCEPT ![call.topic] = NoDecoder]
  /\ Return
  /\ UNCHANGED <<proxy, listener, todo, cb, history>>

(* The removal failed: the call fails too and the entry stays.             *)
ReaderNotRemoved ==
  /\ At("remove")
  /\ Refused(call.dec)
  /\ Return
  /\ UNCHANGED <<readerList, proxy, listener, todo, cb, history>>

EraseReader ==
  /\ At("erase")
  /\ readerList' = [readerList EXCEPT ![call.topic] = NoDecoder]
  /\ Free(call.dec)
  /\ Go("release")
  /\ UNCHANGED <<proxy, reader, todo, cb, history>>

ReleaseDecoder ==
  /\ At("release")
  /\ Release(call.dec)
  /\ Return
  /\ UNCHANGED <<readerList, listener, reader, todo, cb, history>>
-----------------------------------------------------------------------------
(* resignAll, reader loop.  The entries stay in the map, dangling, until   *)
(* clear().  The map is visited in key order; here in any order.           *)

ResignAll ==
  /\ At("idle")
  /\ todo' = {t \in Topics : readerList[t] # NoDecoder}
  /\ Go("resign")
  /\ UNCHANGED <<readerList, proxy, listener, reader, cb, history>>

\* Mutant of ResignReader: the loop does not remove the reader.
ResignReaderKeepsIt(t) ==
  /\ At("resign") /\ t \in todo
  /\ call' = [step |-> "resignRelease", topic |-> t, dec |-> readerList[t]]
  /\ UNCHANGED <<readerList, proxy, listener, reader, todo, cb, history>>

ResignReader(t) ==
  /\ At("resign") /\ t \in todo
  /\ RemoveRegardless(readerList[t])
  /\ call' = [step |-> "resignRelease", topic |-> t, dec |-> readerList[t]]
  /\ UNCHANGED <<readerList, proxy, listener, todo, cb, leaked>>

ResignRelease ==
  /\ At("resignRelease")
  /\ Release(call.dec)
  /\ Go("resignFree")
  /\ UNCHANGED <<readerList, listener, reader, todo, cb, history>>

\* Mutant of ResignFree: the iterator is not advanced.
ResignFreeStuck ==
  /\ At("resignFree")
  /\ Free(call.dec)
  /\ call' = [Idle EXCEPT !.step = "resign"]
  /\ UNCHANGED <<readerList, proxy, reader, todo, cb, history>>

ResignFree ==
  /\ At("resignFree")
  /\ Free(call.dec)
  /\ todo' = todo \ {call.topic}
  /\ call' = [Idle EXCEPT !.step = "resign"]
  /\ UNCHANGED <<readerList, proxy, reader, cb, history>>

\* Mutant of ResignDone: the map is not cleared.
ResignDoneNoClear ==
  /\ At("resign") /\ todo = {}
  /\ Return
  /\ UNCHANGED <<readerList, proxy, listener, reader, todo, cb, history>>

ResignDone ==
  /\ At("resign") /\ todo = {}
  /\ readerList' = [t \in Topics |-> NoDecoder]
  /\ Return
  /\ UNCHANGED <<proxy, listener, reader, todo, cb, history>>

(* stopAll: every participant of the process goes, with its readers.  What *)
(* this object allocated stays.  It ends the use of the object: nothing    *)
(* that points into Fast-DDS is valid afterwards.                          *)
StopAll ==
  /\ At("idle")
  /\ \A d \in Decoders : Quiet(d)
  /\ reader' = [d \in Decoders |-> IF reader[d] = "live" THEN "removed"
                                                         ELSE reader[d]]
  /\ Go("stopped")
  /\ UNCHANGED <<readerList, proxy, listener, todo, cb, history>>
-----------------------------------------------------------------------------
(* BridgedReaderListener::onNewCacheChangeAdded, on a thread of Fast-DDS.  *)

(* A change with a body: decoderCallback enters the application's block.   *)
StartDecode(r, d) ==
  /\ cb[r] = NoJob /\ reader[d] = "live" /\ Quiet(d)
  /\ cb' = [cb EXCEPT ![r] = [step |-> "decode", dec |-> d]]
  /\ UNCHANGED <<readerList, proxy, listener, reader, call, todo, history>>

(* A change with no more than the encapsulation header skips the block.    *)
SkipDecode(r, d) ==
  /\ cb[r] = NoJob /\ reader[d] = "live" /\ Quiet(d)
  /\ cb' = [cb EXCEPT ![r] = [step |-> "drop", dec |-> d]]
  /\ UNCHANGED <<readerList, proxy, listener, reader, call, todo, history>>

EndDecode(r) ==
  /\ cb[r].step = "decode"
  /\ cb' = [cb EXCEPT ![r].step = "drop"]
  /\ UNCHANGED <<readerList, proxy, listener, reader, call, todo, history>>

(* remove_change on the reader's history; the callback returns.            *)
DropChange(r) ==
  /\ cb[r].step = "drop"
  /\ cb' = [cb EXCEPT ![r] = NoJob]
  /\ UNCHANGED <<readerList, proxy, listener, reader, call, todo, history>>
-----------------------------------------------------------------------------
Continue ==
  \/ ReaderCreated \/ ReaderNotCreated
  \/ ReaderRegistered \/ ReaderNotRegistered \/ UnregisterReader
  \/ RollBackReader
  \/ ReaderRemoved \/ ReaderNotRemoved \/ EraseReader \/ ReleaseDecoder
  \/ \E t \in Topics : ResignReader(t)
  \/ ResignRelease \/ ResignFree \/ ResignDone

Begin ==
  \/ \E t \in Topics : \/ \E d \in Decoders : \/ AddReaderDuplicate(t, d)
                                              \/ AddReader(t, d)
                       \/ RemoveReader(t)
  \/ ResignAll
  \/ StopAll

Receive(r) ==
  \/ \E d \in Decoders : StartDecode(r, d) \/ SkipDecode(r, d)
  \/ EndDecode(r)
  \/ DropChange(r)

Next == Begin \/ Continue \/ \E r \in Receivers : Receive(r)

(* A call that was entered goes on: the steps that wait for the callbacks  *)
(* of a reader get their turn between two of them (SF), because Fast-DDS   *)
(* detaches the reader from its receivers before it waits.  A callback     *)
(* that was entered returns: the application's block terminates.           *)
Fairness ==
  /\ SF_vars(Continue)
  /\ \A r \in Receivers : WF_vars(EndDecode(r)) /\ WF_vars(DropChange(r))

Spec     == Init /\ [][Next]_vars
FairSpec == Spec /\ Fairness
-----------------------------------------------------------------------------
(* A call that goes through a ReaderInfo has one.                          *)
TypeOK ==
  /\ readerList \in [Topics -> Decoders \cup {NoDecoder}]
  /\ proxy \in [Decoders -> {"unused", "retained", "released", "overReleased"}]
  /\ listener \in [Decoders -> {"none", "live", "freed", "doubleFreed"}]
  /\ reader \in [Decoders -> {"none", "live", "removed"}]
  /\ call \in [step : Steps, topic : Topics \cup {NoTopic},
               dec : Decoders \cup {NoDecoder}]
  /\ call.step \notin {"idle", "resign", "stopped"} => call.dec \in Decoders
  /\ todo \in SUBSET Topics
  /\ cb \in [Receivers -> [step : {"none", "decode", "drop"},
                           dec : Decoders \cup {NoDecoder}]]
  /\ ignored \in SUBSET Decoders
  /\ leaked \in SUBSET Decoders

(* No callback runs on what was given back: while a thread of Fast-DDS is  *)
(* inside onNewCacheChangeAdded, the listener (and its history) is         *)
(* allocated, and while it is inside the block the proxy is retained.  The *)
(* exception is a reader that Fast-DDS refused to remove and that the code *)
(* tore down all the same (BridgedParticipant.cpp:61, 207).                *)
CallbackSafe ==
  \A r \in Receivers : LET d == cb[r].dec IN
    cb[r].step # "none" /\ d \notin ignored =>
      /\ listener[d] = "live"
      /\ cb[r].step = "decode" => proxy[d] = "retained"

(* Whatever the order of calls and failures, no proxy is released twice    *)
(* and no listener deleted twice, on any of the five paths that do it.     *)
FreedOnce ==
  \A d \in Decoders : /\ proxy[d] # "overReleased"
                      /\ listener[d] # "doubleFreed"

(* Proxies and listeners are neither given back twice nor, where the code  *)
(* did not go over a refusal, used after they were given back, whichever   *)
(* callbacks run while removeReader, resignAll and the error paths of      *)
(* addReader tear a reader down.                                           *)
MemorySafe == CallbackSafe /\ FreedOnce

(* Between two calls the books are balanced: an entry of the map owns a    *)
(* live reader, a live listener and a retained proxy; no other reader or   *)
(* listener is left; and a proxy that is retained but owned by no entry    *)
(* went through the one path that forgets it, a reader created and then    *)
(* taken back because registerReader failed.                               *)
IdleBooks ==
  At("idle") =>
    \A d \in Decoders :
      IF Listed(d)
      THEN proxy[d] = "retained" /\ listener[d] = "live" /\ reader[d] = "live"
      ELSE /\ listener[d] # "live"
           /\ reader[d] = "live" => d \in ignored
           /\ proxy[d] = "retained" => d \in leaked

(* What stopAll leaves (BridgedParticipant.cpp:50-53): no reader and no   *)
(* callback, also of those whose removal was refused; of each entry still  *)
(* in the map the proxy and the listener, given back by nobody; of all the *)
(* others nothing but the proxies of registrations that were rolled back.  *)
StoppedBooks ==
  At("stopped") =>
    \A d \in Decoders :
      /\ reader[d] # "live" /\ Quiet(d)
      /\ IF Listed(d)
         THEN proxy[d] = "retained" /\ listener[d] = "live"
         ELSE listener[d] # "live" /\ (proxy[d] = "retained" => d \in leaked)

(* Whenever no call is under way, before stopAll and after it, what exists *)
(* is owned: by an entry of the map, or by one of the two histories of     *)
(* what the code forgot (leaked, BridgedParticipant.cpp:206-211) or went   *)
(* over (ignored, 61, 207).                                                *)
Books == IdleBooks /\ StoppedBooks

(* How many steps a call has before it at most, for one entry of the map.  *)
Rank(s) == CASE s = "create" -> 4
             [] s \in {"register", "remove", "resign"} -> 3
             [] s \in {"unregister", "erase", "resignRelease"} -> 2
             [] s \in {"rollback", "release", "resignFree"} -> 1
             [] s \in {"idle", "stopped"} -> 0

(* No call goes round in circles: each step that a call takes brings it    *)
(* nearer to its return, or takes an entry off those resignAll has still   *)
(* to visit; refusals, errors and what is received meanwhile add nothing.  *)
CallsAdvance ==
  [][~At("idle") /\ <<call, todo>>' # <<call, todo>> =>
       /\ todo' \subseteq todo
       /\ todo' # todo \/ Rank(call'.step) < Rank(call.step)]_vars

(* Every call returns, whatever the readers receive meanwhile.             *)
EveryCallReturns == ~At("idle") /\ ~At("stopped") ~> At("idle")

(* stopAll "may be called at the end of the process to avoid memory leaks" *)
(* (FastRTPSSwift.swift:327): nothing lent or allocated is left then, at   *)
(* least if removeReader or resignAll took out every reader before.        *)
NothingLeftAfterOrderlyStop ==
  At("stopped") /\ (\A t \in Topics : readerList[t] = NoDecoder) =>
    \A d \in Decoders : proxy[d] # "retained" /\ listener[d] # "live"
-----------------------------------------------------------------------------
(* The refinement: the references and the running blocks Swift sees.       *)
Running == {d \in Decoders : \E r \in Receivers : /\ cb[r].step = "decode"
                                                  /\ cb[r].dec = d}

Contract == INSTANCE LendingContract WITH
              Objects <- Decoders, status <- proxy, running <- Running,
              excused <- ignored

(* The C++ side keeps the terms on which Swift lends its proxies:          *)
(* decoderCallback only between the lending and the return, one block of a *)
(* proxy at a time, and one return.  A refused removal that goes unnoticed *)
(* (BridgedParticipant.cpp:61, 207) breaks them for its own proxy and for  *)
(* no other, however many callbacks and calls are under way.               *)
KeepsContract == Contract!Spec

=============================================================================
