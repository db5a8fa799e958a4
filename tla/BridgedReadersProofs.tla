------------------------ MODULE BridgedReadersProofs ------------------------
(***************************************************************************)
(* Safety of the reader half, for any number of topics, registrations and  *)
(* receiving threads.  The invariants checked by TLC speak of the moments  *)
(* between calls, or of a running callback; the inductive invariant says   *)
(* for each step of a call what the registration it works on still owns    *)
(* (CurrentOK), that every other registration is whole, finished or not    *)
(* begun (OthersOK), and that callbacks run on live readers only (CbOK).   *)
(***************************************************************************)
EXTENDS BridgedReaders, TLAPS

Gone(d) == reader[d] = "removed" \/ d \in ignored

Has(d, p, l) == proxy[d] = p /\ listener[d] = l

Whole(d) == Has(d, "retained", "live") /\ reader[d] = "live"

Unused(d) == Has(d, "unused", "none") /\ reader[d] = "none"

Finished(d) ==
  /\ proxy[d] = "released" \/ (proxy[d] = "retained" /\ d \in leaked)
  /\ listener[d] \in {"none", "freed"}
  /\ reader[d] = "none" \/ Gone(d)

Resigning == call.step \in {"resign", "resignRelease", "resignFree"}

(* The shape of call and todo.                                             *)
CallOK ==
  /\ call.step \in {"idle", "resign", "stopped"} =>
       call.topic = NoTopic /\ call.dec = NoDecoder
  /\ call.step \notin {"idle", "resign", "stopped"} =>
       call.topic \in Topics /\ call.dec \in Decoders
  /\ call.step = "create" => readerList[call.topic] = NoDecoder
  /\ call.step \in {"register", "unregister", "rollback", "remove", "erase",
                    "resignRelease", "resignFree"} =>
       readerList[call.topic] = call.dec
  /\ call.step \in {"create", "release"} => ~Listed(call.dec)
  /\ call.step \in {"resignRelease", "resignFree"} => call.topic \in todo
  /\ ~Resigning => todo = {}
  /\ \A t \in todo : readerList[t] # NoDecoder
  /\ call.step = "stopped" => \A d \in Decoders : reader[d] # "live"

(* What the registration the call works on owns, step by step.             *)
CurrentOK ==
  /\ call.step = "create" =>
       Has(call.dec, "retained", "live") /\ reader[call.dec] = "none"
  /\ call.step \in {"register", "unregister", "remove"} => Whole(call.dec)
  /\ call.step \in {"rollback", "resignRelease"} =>
       Has(call.dec, "retained", "live") /\ Gone(call.dec)
  /\ call.step = "erase" =>
       Has(call.dec, "retained", "live") /\ reader[call.dec] = "removed"
  /\ call.step = "release" =>
       Has(call.dec, "retained", "freed") /\ reader[call.dec] = "removed"
  /\ call.step = "resignFree" =>
       Has(call.dec, "released", "live") /\ Gone(call.dec)

(* All the others.  An entry the resignAll loop has visited is finished,   *)
(* although it is still in the map; after stopAll the readers are gone.    *)
OthersOK ==
  \A d \in Decoders \ {call.dec} :
    /\ \A t \in Topics : readerList[t] = d =>
         \/ Resigning /\ t \notin todo /\ Finished(d)
         \/ (Resigning => t \in todo) /\ ~At("stopped") /\ Whole(d)
         \/ At("stopped") /\ Has(d, "retained", "live") /\ reader[d] = "removed"
    /\ ~Listed(d) => Unused(d) \/ Finished(d)

OwnersDistinct ==
  \A t, u \in Topics :
    readerList[t] = readerList[u] /\ readerList[t] # NoDecoder => t = u

CbOK ==
  \A r \in Receivers :
    /\ cb[r].step = "none" <=> cb[r].dec = NoDecoder
    /\ cb[r].step # "none" => reader[cb[r].dec] = "live"
    /\ \A s \in Receivers \ {r} : cb[r].dec = cb[s].dec => cb[r].step = "none"

RefusalOK == ignored # {} => RemovalMayFail

IInv == /\ TypeOK /\ OwnersDistinct /\ CallOK /\ CurrentOK /\ OthersOK
        /\ CbOK /\ RefusalOK

-----------------------------------------------------------------------------
USE ReadersAssumption

(* Nothing is registered, and nothing is running, at the start.            *)
LEMMA InitIInv == Init => IInv
BY DEF Init, IInv, TypeOK, OwnersDistinct, CallOK, CurrentOK, OthersOK, CbOK,
       RefusalOK, Listed, Unused, Has, Resigning, At, Steps, Idle, NoJob

(* Every step of the application thread and of the receivers keeps IInv.   *)
LEMMA StepIInv == IInv /\ [Next]_vars => IInv'
<1> SUFFICES ASSUME IInv, [Next]_vars PROVE IInv'
  OBVIOUS
<1> USE DEF IInv, TypeOK, OwnersDistinct, CallOK, CurrentOK, OthersOK, CbOK,
            RefusalOK, Listed, Gone, Has, Whole, Unused, Finished, Resigning,
            At, Steps
<1>1. ASSUME NEW t \in Topics, NEW d \in Decoders, AddReaderDuplicate(t, d) PROVE IInv'
  BY <1>1 DEF AddReaderDuplicate, history
<1>2. ASSUME NEW t \in Topics, NEW d \in Decoders, AddReader(t, d) PROVE IInv'
  BY <1>2 DEF AddReader, history
<1>3. ASSUME NEW t \in Topics, RemoveReader(t) PROVE IInv'
  BY <1>3 DEF RemoveReader, history
<1>4. CASE ResignAll
  BY <1>4 DEF ResignAll, Go, history
<1>5. CASE StopAll
  BY <1>5 DEF StopAll, Go, Quiet, history
<1>6. CASE ReaderCreated
  BY <1>6 DEF ReaderCreated, Go, history
<1>7. CASE ReaderNotCreated
  BY <1>7 DEF ReaderNotCreated, Return, Release, Free, history, Idle
<1>8. CASE ReaderRegistered
  BY <1>8 DEF ReaderRegistered, Return, history, Idle
<1>9. CASE ReaderNotRegistered
  BY <1>9 DEF ReaderNotRegistered, Go, history
<1>10. CASE UnregisterReader
  BY <1>10 DEF UnregisterReader, Go, RemoveRegardless, Removed, Refused, Quiet
<1>11. CASE RollBackReader
  BY <1>11 DEF RollBackReader, Return, Free, Idle
<1>12. CASE ReaderRemoved
  BY <1>12 DEF ReaderRemoved, Go, Removed, history, Quiet
<1>13. CASE ReaderNotRemoved
  BY <1>13 DEF ReaderNotRemoved, Return, Refused, history, Idle
<1>14. CASE EraseReader
  BY <1>14 DEF EraseReader, Go, Free, history
<1>15. CASE ReleaseDecoder
  BY <1>15 DEF ReleaseDecoder, Return, Release, history, Idle
<1>16. ASSUME NEW t \in Topics, ResignReader(t) PROVE IInv'
  BY <1>16 DEF ResignReader, RemoveRegardless, Removed, Refused, Quiet
<1>17. CASE ResignRelease
  BY <1>17 DEF ResignRelease, Go, Release, history
<1>18. CASE ResignFree
  BY <1>18 DEF ResignFree, Idle, Free, history
<1>19. CASE ResignDone
  BY <1>19 DEF ResignDone, Return, history, Idle
<1>20. ASSUME NEW r \in Receivers, NEW d \in Decoders, StartDecode(r, d) PROVE IInv'
  BY <1>20 DEF StartDecode, NoJob, Quiet, history
<1>21. ASSUME NEW r \in Receivers, NEW d \in Decoders, SkipDecode(r, d) PROVE IInv'
  BY <1>21 DEF SkipDecode, NoJob, Quiet, history
<1>22. ASSUME NEW r \in Receivers, EndDecode(r) PROVE IInv'
  BY <1>22 DEF EndDecode, history
<1>23. ASSUME NEW r \in Receivers, DropChange(r) PROVE IInv'
  BY <1>23 DEF DropChange, NoJob, history
<1>24. CASE UNCHANGED vars
  BY <1>24 DEF vars
<1> QED
  BY <1>1, <1>2, <1>3, <1>4, <1>5, <1>6, <1>7, <1>8, <1>9, <1>10, <1>11,
       <1>12, <1>13, <1>14, <1>15, <1>16, <1>17, <1>18, <1>19, <1>20, <1>21,
       <1>22, <1>23, <1>24 DEF Next, Begin, Continue, Receive

(* The strengthened invariant holds throughout.                            *)
THEOREM Invariance == Spec => []IInv
BY InitIInv, StepIInv, PTL DEF Spec

(* Type correctness of the reader half.                                    *)
THEOREM TypeCorrect == Spec => []TypeOK
<1>1. IInv => TypeOK
  BY DEF IInv
<1> QED
  BY <1>1, Invariance, PTL
-----------------------------------------------------------------------------
(* A reader that is live, and whose removal was never refused, owns a live *)
(* listener and a retained proxy: the fact that makes callbacks safe.      *)
LEMMA LiveOwns ==
  ASSUME IInv, NEW d \in Decoders, reader[d] = "live", d \notin ignored
  PROVE  Has(d, "retained", "live")
<1> USE DEF IInv, TypeOK, CallOK, CurrentOK, OthersOK, Gone, Has, Whole
<1>1. CASE d = call.dec
  BY <1>1 DEF Steps
<1>2. CASE d # call.dec
  BY <1>2 DEF Listed, Unused, Finished
<1> QED
  BY <1>1, <1>2

(* No callback runs on a freed listener or a released proxy, except on a   *)
(* reader whose removal was refused and ignored.                           *)
THEOREM CallbackSafety == Spec => []CallbackSafe
<1>1. IInv => CallbackSafe
  BY LiveOwns DEF IInv, TypeOK, CbOK, CallbackSafe, Has
<1> QED
  BY <1>1, Invariance, PTL

(* No reference is released twice, no listener deleted twice.              *)
THEOREM ReleaseAndDeleteOnce == Spec => []FreedOnce
<1>1. IInv => FreedOnce
  <2> SUFFICES ASSUME IInv, NEW d \in Decoders
               PROVE  proxy[d] # "overReleased" /\ listener[d] # "doubleFreed"
    BY DEF FreedOnce
  <2> USE DEF IInv, TypeOK, CallOK, CurrentOK, OthersOK, Has, Whole
  <2>1. CASE d = call.dec
    BY <2>1 DEF Steps
  <2>2. CASE d # call.dec
    BY <2>2 DEF Listed, Unused, Finished
  <2> QED
    BY <2>1, <2>2
<1> QED
  BY <1>1, Invariance, PTL

(* No second release or deletion, and but for ignored refusals no use      *)
(* after one, for any number of topics, registrations and receiving        *)
(* threads.                                                                *)
THEOREM MemorySafety == Spec => []MemorySafe
<1>1. CallbackSafe /\ FreedOnce => MemorySafe
  BY DEF MemorySafe
<1> QED
  BY <1>1, CallbackSafety, ReleaseAndDeleteOnce, PTL

(* Between calls every proxy, listener and reader is accounted for.        *)
THEOREM BooksBalanced == Spec => []IdleBooks
<1>1. IInv => IdleBooks
  BY DEF IInv, TypeOK, CallOK, OthersOK, IdleBooks, At, Listed, Resigning,
         Has, Whole, Unused, Finished, Gone
<1> QED
  BY <1>1, Invariance, PTL

(* stopAll leaves what entries own, and what was forgotten before.         *)
THEOREM StoppedBooksBalanced == Spec => []StoppedBooks
<1>1. IInv => StoppedBooks
  <2> SUFFICES ASSUME IInv, At("stopped"), NEW d \in Decoders
               PROVE  /\ reader[d] # "live" /\ Quiet(d)
                      /\ IF Listed(d)
                         THEN proxy[d] = "retained" /\ listener[d] = "live"
                         ELSE /\ listener[d] # "live"
                              /\ proxy[d] = "retained" => d \in leaked
    BY DEF StoppedBooks
  <2>1. reader[d] # "live"
    BY DEF IInv, CallOK, At
  <2>2. Quiet(d)
    BY <2>1 DEF IInv, CbOK, Quiet
  <2>3. IF Listed(d) THEN Has(d, "retained", "live") ELSE Unused(d) \/ Finished(d)
    BY DEF IInv, CallOK, OthersOK, At, Listed, Resigning
  <2> QED
    BY <2>1, <2>2, <2>3 DEF Has, Unused, Finished
<1> QED
  BY <1>1, Invariance, PTL

(* At rest everything is owned or accounted for, before stopAll and after. *)
THEOREM BooksKept == Spec => []Books
<1>1. IdleBooks /\ StoppedBooks => Books
  BY DEF Books
<1> QED
  BY <1>1, BooksBalanced, StoppedBooksBalanced, PTL

-----------------------------------------------------------------------------
(* How a call goes on.                                                     *)

(* Each step of a call has a lower rank, or takes an entry off todo: the   *)
(* one that goes back to the head of the loop of resignAll.                *)
LEMMA StepAdvances ==
  ASSUME IInv, [Next]_vars, ~At("idle"), <<call, todo>>' # <<call, todo>>
  PROVE  /\ todo' \subseteq todo
         /\ todo' # todo \/ Rank(call'.step) < Rank(call.step)
<1> USE DEF IInv, TypeOK, At, Go, Return, Idle, Rank, Steps
<1>1. CASE \/ ReaderCreated \/ ReaderRegistered \/ ReaderNotRegistered
          \/ UnregisterReader \/ RollBackReader \/ ReaderNotCreated
  BY <1>1 DEF ReaderCreated, ReaderRegistered, ReaderNotRegistered,
              UnregisterReader, RollBackReader, ReaderNotCreated
<1>2. CASE ReaderRemoved \/ ReaderNotRemoved \/ EraseReader \/ ReleaseDecoder
  BY <1>2 DEF ReaderRemoved, ReaderNotRemoved, EraseReader, ReleaseDecoder
<1>3. CASE ResignRelease \/ ResignDone \/ \E t \in Topics : ResignReader(t)
  BY <1>3 DEF ResignRelease, ResignDone, ResignReader
<1>4. CASE ResignFree
  <2>1. call.topic \in todo
    BY <1>4 DEF ResignFree, CallOK
  <2> QED
    BY <1>4, <2>1 DEF ResignFree
<1>5. UNCHANGED <<call, todo>> \/ Continue
  BY DEF Next, Begin, Receive, vars, AddReaderDuplicate, AddReader, RemoveReader,
         ResignAll, StopAll, StartDecode, SkipDecode, EndDecode, DropChange
<1> QED
  BY <1>1, <1>2, <1>3, <1>4, <1>5 DEF Continue

(* Every call takes boundedly many steps: four, or three for each entry    *)
(* that there was when resignAll began, and one.                           *)
THEOREM EveryCallAdvances == Spec => CallsAdvance
<1>1. IInv /\ [Next]_vars =>
        [~At("idle") /\ <<call, todo>>' # <<call, todo>> =>
           /\ todo' \subseteq todo
           /\ todo' # todo \/ Rank(call'.step) < Rank(call.step)]_vars
  BY StepAdvances
<1> QED
  BY <1>1, Invariance, PTL DEF Spec, CallsAdvance
-----------------------------------------------------------------------------
(* The two facts that let the contract's Return and Leave be taken: a proxy *)
(* is released when its reader is gone, and a running block has one thread. *)
LEMMA QuietWhenGone ==
  ASSUME IInv, NEW d \in Decoders, reader[d] # "live"
  PROVE  d \notin Running
BY DEF IInv, CbOK, Running

(* At the start nothing is lent and nothing runs.                          *)
LEMMA InitContract == Init => Contract!Init
BY DEF Init, Contract!Init, Running, NoJob

(* The calls that touch a proxy without lending it: each gives it back     *)
(* when its reader is gone, or was excused.                                *)
LEMMA ReleaseContract ==
  ASSUME IInv, ReaderNotCreated \/ ReleaseDecoder \/ ResignRelease
  PROVE  Contract!Return(call.dec) \/ Contract!Break(call.dec)
<1>1. /\ call.dec \in Decoders /\ proxy[call.dec] = "retained"
      /\ reader[call.dec] # "live" \/ call.dec \in ignored
  BY DEF IInv, TypeOK, CallOK, CurrentOK, Has, Gone, ReaderNotCreated,
         ReleaseDecoder, ResignRelease, At
<1>2. proxy' = [proxy EXCEPT ![call.dec] = "released"]
  BY <1>1 DEF ReaderNotCreated, ReleaseDecoder, ResignRelease, Release
<1>3. Running' = Running /\ ignored' = ignored
  BY DEF ReaderNotCreated, ReleaseDecoder, ResignRelease, Running, history
<1>4. CASE reader[call.dec] # "live"
  BY <1>1, <1>2, <1>3, <1>4, QuietWhenGone DEF Contract!Return
<1>5. CASE call.dec \in ignored
  <2>1. proxy' = [proxy EXCEPT ![call.dec] = proxy'[call.dec]]
    BY <1>1, <1>2 DEF IInv, TypeOK
  <2> QED
    BY <1>3, <1>5, <2>1 DEF Contract!Break
<1> QED
  BY <1>1, <1>4, <1>5

(* A removal whose answer nobody looks at excuses its proxy, or changes    *)
(* nothing that Swift sees.                                                *)
LEMMA RegardlessContract ==
  ASSUME NEW d \in Decoders, RemoveRegardless(d), UNCHANGED <<proxy, cb>>
  PROVE  Contract!Excuse(d) \/ UNCHANGED <<proxy, Running, ignored>>
BY DEF RemoveRegardless, Contract!Excuse, Running

(* A block is entered for a retained proxy, unless its reader was excused. *)
LEMMA DecodeContract ==
  ASSUME IInv, NEW r \in Receivers, NEW d \in Decoders, StartDecode(r, d)
  PROVE  Contract!Enter(d) \/ Contract!Break(d)
<1>1. Running' = Running \cup {d} /\ UNCHANGED <<proxy, ignored>>
  BY DEF StartDecode, Running, IInv, TypeOK, NoJob, history
<1>2. CASE d \notin ignored
  <2>1. proxy[d] = "retained" /\ d \notin Running
    BY <1>2, LiveOwns DEF StartDecode, Quiet, Running, Has
  <2> QED
    BY <1>1, <2>1 DEF Contract!Enter
<1>3. CASE d \in ignored
  <2>1. proxy' = [proxy EXCEPT ![d] = proxy'[d]]
    BY <1>1 DEF IInv, TypeOK
  <2> QED
    BY <1>1, <1>3, <2>1 DEF Contract!Break
<1> QED
  BY <1>2, <1>3

(* Each step lends, calls, leaves or returns at most one proxy, as the     *)
(* contract allows.                                                        *)
LEMMA StepContract ==
  ASSUME IInv, [Next]_vars
  PROVE  [Contract!Next]_<<proxy, Running, ignored>>
<1> USE DEF Contract!Next, Contract!vars
<1>1. ASSUME UNCHANGED cb PROVE Running' = Running
  BY <1>1 DEF Running
<1>2. ASSUME NEW t \in Topics, NEW d \in Decoders, AddReaderDuplicate(t, d)
      PROVE  Contract!Refuse(d)
  BY <1>1, <1>2 DEF AddReaderDuplicate, history, Contract!Refuse
<1>3. ASSUME NEW t \in Topics, NEW d \in Decoders, AddReader(t, d)
      PROVE  Contract!Lend(d)
  BY <1>1, <1>3 DEF AddReader, history, Contract!Lend
<1>4. CASE ReaderNotCreated \/ ReleaseDecoder \/ ResignRelease
  <2>1. call.dec \in Decoders
    BY <1>4 DEF IInv, CallOK, ReaderNotCreated, ReleaseDecoder, ResignRelease,
                At
  <2> QED
    BY <1>4, <2>1, ReleaseContract
<1>5. CASE UnregisterReader
  <2>1. call.dec \in Decoders
    BY <1>5 DEF IInv, CallOK, UnregisterReader, At
  <2> QED
    BY <1>5, <2>1, RegardlessContract DEF UnregisterReader
<1>6. ASSUME NEW t \in Topics, ResignReader(t)
      PROVE  [Contract!Next]_<<proxy, Running, ignored>>
  <2>1. readerList[t] \in Decoders
    BY <1>6 DEF IInv, TypeOK, CallOK, ResignReader
  <2> QED
    BY <1>6, <2>1, RegardlessContract DEF ResignReader
<1>7. ASSUME NEW r \in Receivers, NEW d \in Decoders, StartDecode(r, d)
      PROVE  Contract!Enter(d) \/ Contract!Break(d)
  BY <1>7, DecodeContract
<1>8. ASSUME NEW r \in Receivers, NEW d \in Decoders, SkipDecode(r, d)
      PROVE  UNCHANGED <<proxy, Running, ignored>>
  BY <1>8 DEF SkipDecode, Running, IInv, TypeOK, NoJob, history
<1>9. ASSUME NEW r \in Receivers, EndDecode(r)
      PROVE  cb[r].dec \in Decoders /\ Contract!Leave(cb[r].dec)
  <2>1. cb[r].dec \in Running /\ cb[r].dec \in Decoders
    BY <1>9 DEF EndDecode, Running, IInv, TypeOK, CbOK
  <2>2. Running' = Running \ {cb[r].dec}
    BY <1>9 DEF EndDecode, Running, IInv, TypeOK, CbOK
  <2> QED
    BY <1>9, <2>1, <2>2 DEF EndDecode, history, Contract!Leave
<1>10. ASSUME NEW r \in Receivers, DropChange(r)
       PROVE  UNCHANGED <<proxy, Running, ignored>>
  BY <1>10 DEF DropChange, Running, IInv, TypeOK, NoJob, history
<1>11. CASE UNCHANGED <<proxy, cb, ignored>>
  BY <1>1, <1>11
<1> QED
  BY <1>2, <1>3, <1>4, <1>5, <1>6, <1>7, <1>8, <1>9, <1>10, <1>11
     DEF Next, Begin, Continue, Receive, vars, history, RemoveReader,
         ResignAll, StopAll, ReaderCreated, ReaderRegistered,
         ReaderNotRegistered, RollBackReader, ReaderRemoved,
         ReaderNotRemoved, EraseReader, ResignFree, ResignDone

(* The reader half implements the terms on which Swift lends its proxies,  *)
(* whatever removals are refused: only the proxy of a refusal that the     *)
(* code does not look at is let down.                                      *)
THEOREM ContractKept == Spec => KeepsContract
<1>1. IInv /\ [Next]_vars => [Contract!Next]_<<proxy, Running, ignored>>
  BY StepContract
<1> QED
  BY <1>1, InitContract, Invariance, PTL
     DEF Spec, KeepsContract, Contract!Spec, Contract!vars

(* Where Fast-DDS refuses nothing nobody is excused.                       *)
THEOREM NoneExcused == ~RemovalMayFail /\ Spec => [](ignored = {})
<1> SUFFICES ASSUME ~RemovalMayFail PROVE Spec => [](ignored = {})
  OBVIOUS
<1>1. IInv => ignored = {}
  BY DEF IInv, RefusalOK
<1> QED
  BY <1>1, Invariance, PTL

=============================================================================
