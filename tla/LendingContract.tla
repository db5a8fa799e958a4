-------------------------- MODULE LendingContract --------------------------
(***************************************************************************)
(* The terms on which one side of the package lends an object to another   *)
(* that calls it back through a bare address: Swift its proxies to C++,    *)
(* C++ its listeners to Fast-DDS.  For a proxy, registerReaderRaw retains  *)
(* it and passes the address; from then on two callbacks of the            *)
(* BridgeContainer touch it: decoderCallback, which runs the application's *)
(* block, and releaseCallback, which gives the reference back.  A listener *)
(* is allocated, called while it is registered, and deleted.  Nobody       *)
(* checks anything: the object must be there at every use, and it may be   *)
(* given back once.                                                        *)
(*                                                                         *)
(* The other side may refuse to let go of the object (removeRTPSReader and *)
(* removeRTPSWriter answer false).  Where the code goes on regardless the  *)
(* terms are off, but for that object alone.                               *)
(***************************************************************************)

CONSTANT Objects        \* the objects ever allocated to be lent

VARIABLES
  status,               \* status[d]: "unused", "retained" or "released"
  running,              \* the objects that are being called
  excused               \* those that the other side would not let go of

vars == <<status, running, excused>>

Init == /\ status = [d \in Objects |-> "unused"]
        /\ running = {}
        /\ excused = {}

(* Unmanaged.passRetained: the object is lent.                             *)
Lend(d) == /\ status[d] = "unused"
           /\ status' = [status EXCEPT ![d] = "retained"]
           /\ UNCHANGED <<running, excused>>

(* An object refused at once: lent and returned within one call.           *)
Refuse(d) == /\ status[d] = "unused"
             /\ status' = [status EXCEPT ![d] = "released"]
             /\ UNCHANGED <<running, excused>>

(* decoderCallback starts the block; one reader never runs it twice at a   *)
(* time.                                                                   *)
Enter(d) == /\ status[d] = "retained"
            /\ d \notin running
            /\ running' = running \cup {d}
            /\ UNCHANGED <<status, excused>>

(* The block returns.                                                      *)
Leave(d) == /\ d \in running
            /\ running' = running \ {d}
            /\ UNCHANGED <<status, excused>>

(* releaseCallback: only what is lent, and never under its own call.       *)
Return(d) == /\ status[d] = "retained"
             /\ d \notin running
             /\ status' = [status EXCEPT ![d] = "released"]
             /\ UNCHANGED <<running, excused>>

(* A refusal that nobody looks at.                                         *)
Excuse(d) == /\ excused' = excused \cup {d}
             /\ UNCHANGED <<status, running>>

(* From there on anything may become of the object, and of it only.        *)
Break(d) == /\ d \in excused
            /\ status' = [status EXCEPT ![d] = status'[d]]
            /\ running' \ {d} = running \ {d}
            /\ UNCHANGED excused

Next == \E d \in Objects :
          \/ Lend(d) \/ Refuse(d) \/ Enter(d) \/ Leave(d) \/ Return(d)
          \/ Excuse(d) \/ Break(d)

Spec == Init /\ [][Next]_vars

=============================================================================
