------------------------ MODULE ParticipantLifecycle ------------------------
(***************************************************************************)
(* The life of a participant: the Swift object, the BridgedParticipant it  *)
(* owns through a bare pointer, the RTPSParticipant of Fast-DDS and the    *)
(* BridgedParticipantListener that discovery calls back.                   *)
(*                                                                         *)
(* Every createParticipant allocates a listener and, if it succeeds, makes *)
(* an RTPSParticipant; the call (an attempt) names both.  The readers and  *)
(* writers are here only as endpoints of a participant; what each of them  *)
(* owns is in BridgedReaders and BridgedWriters.                           *)
(*                                                                         *)
(* The program uses the object from one thread.  The address of the object *)
(* that the BridgeContainer carries is not retained: a program that drops  *)
(* the object while it has a participant leaves it to callbacks.           *)
(***************************************************************************)

EXTENDS Naturals

CONSTANTS
  Attempts,        \* calls of createParticipant; bounds their number
  Endpoints,       \* topics under which a reader or a writer is registered
  Threads,         \* threads of Fast-DDS that run callbacks
  Nil,             \* a null pointer, or no callback
  CreateAgain,     \* may the program create while it has a participant?
  DropEarly,       \* may it drop the object while it has one?
  RemovalMayFail   \* may Fast-DDS refuse to remove a participant?

ASSUME LifecycleAssumption ==
  /\ Nil \notin Attempts \cup Endpoints
  /\ Attempts \cap Endpoints = {}
  /\ CreateAgain \in BOOLEAN /\ DropEarly \in BOOLEAN
  /\ RemovalMayFail \in BOOLEAN

VARIABLES
  swift,           \* the FastRTPSSwift object: "live" or "gone"
  mp_participant,  \* the attempt it points to, or Nil
  mp_listener,     \* the attempt whose listener it points to, or Nil
  participant,     \* participant[a]: the RTPSParticipant inside Fast-DDS
  listener,        \* listener[a]: the BridgedParticipantListener
  owner,           \* owner[e]: the participant endpoint e is in, or Nil
  step,            \* where the application thread is
  cb,              \* cb[r]: whose callback thread r runs: an attempt (its
                   \* discovery), an endpoint, or Nil
  ignored          \* history: the participants whose removal was refused

bridge == <<mp_participant, mp_listener>>
vars   == <<swift, bridge, participant, listener, owner, step, cb, ignored>>

Init ==
  /\ swift = "live"
  /\ mp_participant = Nil /\ mp_listener = Nil
  /\ participant = [a \in Attempts |-> "none"]
  /\ listener    = [a \in Attempts |-> "none"]
  /\ owner = [e \in Endpoints |-> Nil]
  /\ step  = "idle"
  /\ cb    = [r \in Threads |-> Nil]
  /\ ignored = {}

(* Fast-DDS is inside no callback of x.                                    *)
Quiet(x) == \A r \in Threads : cb[r] # x
-----------------------------------------------------------------------------
(* createParticipant                                                       *)

(* The listener is allocated before anything can fail.                     *)
CreateParticipant(a) ==
  /\ step = "idle" /\ listener[a] = "none"
  /\ CreateAgain \/ mp_participant = Nil
  /\ listener' = [listener EXCEPT ![a] = "live"]
  /\ mp_listener' = a
  /\ step' = "create"
  /\ UNCHANGED <<swift, mp_participant, participant, owner, cb, ignored>>

(* RTPSDomain::createParticipant enables the participant: its discovery    *)
(* may call the listener before the pointer is returned.                   *)
ParticipantEnabled ==
  /\ step = "create"
  /\ participant' = [participant EXCEPT ![mp_listener] = "live"]
  /\ step' = "created"
  /\ UNCHANGED <<swift, bridge, listener, owner, cb, ignored>>

\* Mutant of ParticipantCreated: the answer is not stored.
ParticipantCreatedNotStored ==
  /\ step = "created"
  /\ step' = "idle"
  /\ UNCHANGED <<swift, bridge, participant, listener, owner, cb, ignored>>

ParticipantCreated ==
  /\ step = "created"
  /\ mp_participant' = mp_listener
  /\ step' = "idle"
  /\ UNCHANGED <<swift, mp_listener, participant, listener, owner, cb, ignored>>

\* Mutant of ParticipantNotCreated: the pointer is set without a look.
ParticipantNotCreatedKept ==
  /\ step = "create"
  /\ mp_participant' = mp_listener
  /\ step' = "idle"
  /\ UNCHANGED <<swift, mp_listener, participant, listener, owner, cb, ignored>>

(* It answers nullptr: the listener is not deleted.                        *)
ParticipantNotCreated ==
  /\ step = "create"
  /\ mp_participant' = Nil
  /\ step' = "idle"
  /\ UNCHANGED <<swift, mp_listener, participant, listener, owner, cb, ignored>>
-----------------------------------------------------------------------------
(* addReader and addWriter (without a participant they would go through a  *)
(* null pointer), removeReader and removeWriter, as the participant sees   *)
(* them.                                                                   *)

AddEndpoint(e) ==
  /\ step = "idle" /\ mp_participant # Nil /\ owner[e] = Nil
  /\ owner' = [owner EXCEPT ![e] = mp_participant]
  /\ UNCHANGED <<swift, bridge, participant, listener, step, cb, ignored>>

RemoveEndpoint(e) ==
  /\ step = "idle" /\ owner[e] # Nil /\ Quiet(e)
  /\ owner' = [owner EXCEPT ![e] = Nil]
  /\ UNCHANGED <<swift, bridge, participant, listener, step, cb, ignored>>
-----------------------------------------------------------------------------
(* resignAll, alone or at the two places removeParticipant runs it: before *)
(* the object is deleted, and again in ~BridgedParticipant.                *)

Resigning == {"resign", "resignWrapper", "resignDestructor"}

ResignAll ==
  /\ step = "idle"
  /\ step' = "resign"
  /\ UNCHANGED <<swift, bridge, participant, listener, owner, cb, ignored>>

\* Mutant of ResignEndpoint: the iterator is not advanced.
ResignEndpointStuck(e) ==
  /\ step \in Resigning
  /\ owner[e] # Nil /\ Quiet(e)
  /\ UNCHANGED vars

ResignEndpoint(e) ==
  /\ step \in Resigning
  /\ owner[e] # Nil /\ Quiet(e)
  /\ owner' = [owner EXCEPT ![e] = Nil]
  /\ UNCHANGED <<swift, bridge, participant, listener, step, cb, ignored>>

\* Mutant of AfterResign: the destructor deletes the object once more.
AfterResignAgain(s) == IF s = "resign" THEN "idle" ELSE "delete"

AfterResign(s) == CASE s = "resign"           -> "idle"
                    [] s = "resignWrapper"    -> "delete"
                    [] s = "resignDestructor" -> "remove"

\* Mutant of Resigned: the maps are cleared with endpoints still in place.
ResignedEarly ==
  /\ step \in Resigning
  /\ step' = AfterResign(step)
  /\ UNCHANGED <<swift, bridge, participant, listener, owner, cb, ignored>>

Resigned ==
  /\ step \in Resigning
  /\ \A e \in Endpoints : owner[e] = Nil
  /\ step' = AfterResign(step)
  /\ UNCHANGED <<swift, bridge, participant, listener, owner, cb, ignored>>
-----------------------------------------------------------------------------
(* removeRTPSParticipant and ~BridgedParticipant                           *)

RemoveParticipant ==
  /\ step = "idle"
  /\ step' = "resignWrapper"
  /\ UNCHANGED <<swift, bridge, participant, listener, owner, cb, ignored>>

(* No participant: the destructor returns at once, whatever mp_listener is. *)
DeleteWithout ==
  /\ step = "delete" /\ mp_participant = Nil
  /\ step' = "removed"
  /\ UNCHANGED <<swift, bridge, participant, listener, owner, cb, ignored>>

\* Mutant of StopAnnouncement: the pointer is not looked at.
StopAnnouncementUnchecked ==
  /\ step = "delete"
  /\ step' = "resignDestructor"
  /\ UNCHANGED <<swift, bridge, participant, listener, owner, cb, ignored>>

(* stopRTPSParticipantAnnouncement, and resignAll once more.               *)
StopAnnouncement ==
  /\ step = "delete" /\ mp_participant # Nil
  /\ step' = "resignDestructor"
  /\ UNCHANGED <<swift, bridge, participant, listener, owner, cb, ignored>>

\* Mutant of ParticipantRemoved: the listener goes before the participant.
ParticipantRemovedLate ==
  /\ step = "remove"
  /\ listener' = [listener EXCEPT ![mp_listener] = "freed"]
  /\ step' = "deleteListener"
  /\ UNCHANGED <<swift, bridge, participant, owner, cb, ignored>>

(* RTPSDomain::removeRTPSParticipant answers false: nobody looks at it.    *)
ParticipantNotRemoved ==
  /\ step = "remove" /\ RemovalMayFail
  /\ ignored' = ignored \cup {mp_participant}
  /\ step' = "deleteListener"
  /\ UNCHANGED <<swift, bridge, participant, listener, owner, cb>>

(* It waits for the callbacks of discovery and removes the participant.    *)
ParticipantRemoved ==
  /\ step = "remove"
  /\ Quiet(mp_participant)
  /\ participant' = [participant EXCEPT ![mp_participant] = "removed"]
  /\ step' = "deleteListener"
  /\ UNCHANGED <<swift, bridge, listener, owner, cb, ignored>>

\* Mutant of DeleteListener: the listener is forgotten.
DeleteListenerNot ==
  /\ step = "deleteListener"
  /\ step' = "removed"
  /\ UNCHANGED <<swift, bridge, participant, listener, owner, cb, ignored>>

DeleteListener ==
  /\ step = "deleteListener"
  /\ listener' = [listener EXCEPT ![mp_listener] = "freed"]
  /\ step' = "removed"
  /\ UNCHANGED <<swift, bridge, participant, owner, cb, ignored>>

(* RTPSDomain::stopAll removes every participant with its endpoints; the   *)
(* pointers of the object dangle, and its use ends here.                   *)
StopAll ==
  /\ step = "idle"
  /\ \A r \in Threads : cb[r] = Nil
  /\ participant' = [a \in Attempts |-> IF participant[a] = "live"
                                        THEN "removed" ELSE participant[a]]
  /\ owner' = [e \in Endpoints |-> Nil]
  /\ step' = "stopped"
  /\ UNCHANGED <<swift, bridge, listener, cb, ignored>>

(* ARC frees the Swift object, between two calls.  It has no deinit:       *)
(* nothing else is freed, and a participant that it has goes on.           *)
Drop ==
  /\ swift = "live"
  /\ \/ step \in {"removed", "stopped"}
     \/ step = "idle" /\ (mp_participant = Nil \/ DropEarly)
  /\ swift' = "gone"
  /\ step' = IF step = "idle" THEN "dropped" ELSE step
  /\ UNCHANGED <<bridge, participant, listener, owner, cb, ignored>>
-----------------------------------------------------------------------------
(* The callbacks of discovery, and those of readers and writers.  Each     *)
(* takes the Swift object from the container and calls its delegate.       *)

Enter(r, x) ==
  /\ cb[r] = Nil /\ Quiet(x)
  /\ IF x \in Attempts THEN participant[x] = "live" ELSE owner[x] # Nil
  /\ cb' = [cb EXCEPT ![r] = x]
  /\ UNCHANGED <<swift, bridge, participant, listener, owner, step, ignored>>

Leave(r) ==
  /\ cb[r] # Nil
  /\ cb' = [cb EXCEPT ![r] = Nil]
  /\ UNCHANGED <<swift, bridge, participant, listener, owner, step, ignored>>
-----------------------------------------------------------------------------
Begin ==
  \/ \E a \in Attempts : CreateParticipant(a)
  \/ \E e \in Endpoints : AddEndpoint(e) \/ RemoveEndpoint(e)
  \/ ResignAll \/ RemoveParticipant \/ StopAll \/ Drop

Continue ==
  \/ ParticipantEnabled \/ ParticipantCreated \/ ParticipantNotCreated
  \/ \E e \in Endpoints : ResignEndpoint(e)
  \/ Resigned \/ DeleteWithout \/ StopAnnouncement
  \/ ParticipantRemoved \/ ParticipantNotRemoved \/ DeleteListener

Callback(r) == Leave(r) \/ \E x \in Attempts \cup Endpoints : Enter(r, x)

Next == Begin \/ Continue \/ \E r \in Threads : Callback(r)

Spec == Init /\ [][Next]_vars

(* A call that was entered goes on, also where it waits for a callback,    *)
(* and a callback returns.                                                 *)
Fairness == SF_vars(Continue) /\ \A r \in Threads : WF_vars(Leave(r))

FairSpec == Spec /\ Fairness
-----------------------------------------------------------------------------
(* The steps of the destructor also follow their pointers.                 *)
TypeOK ==
  /\ swift \in {"live", "gone"}
  /\ mp_participant \in Attempts \cup {Nil}
  /\ mp_listener \in Attempts \cup {Nil}
  /\ participant \in [Attempts -> {"none", "live", "removed"}]
  /\ listener \in [Attempts -> {"none", "live", "freed"}]
  /\ owner \in [Endpoints -> Attempts \cup {Nil}]
  /\ step \in {"idle", "create", "created", "delete", "remove",
               "deleteListener", "removed", "stopped", "dropped"}
               \cup Resigning
  /\ step \in {"resignDestructor", "remove", "deleteListener"} =>
       mp_participant \in Attempts /\ mp_listener \in Attempts
  /\ cb \in [Threads -> Attempts \cup Endpoints \cup {Nil}]
  /\ ignored \in SUBSET Attempts

(* Participants that are live and that no pointer of the object leads to.  *)
Lost == {a \in Attempts : /\ participant[a] = "live"
                          /\ a # mp_participant
                          /\ ~(step = "created" /\ a = mp_listener)}

(* A participant goes out of reach only where createParticipant overwrites *)
(* the pointer to it (BridgedParticipant.cpp:127): no failure, removal or  *)
(* callback loses one, and a program that creates none over another never  *)
(* does.                                                                   *)
LostOnlyByCreating ==
  [][\A a \in Attempts : a \notin Lost /\ a \in Lost' =>
       CreateAgain /\ a = mp_participant /\ step \in {"create", "created"}]_vars

(* Was the Swift object dropped with a participant?                        *)
DroppedEarly == step = "dropped" /\ mp_participant # Nil

(* A callback of Fast-DDS finds what it uses.  For discovery that is the   *)
(* listener, even that of a participant that was lost, but not of one that *)
(* Fast-DDS refused to remove (BridgedParticipant.cpp:46-47).  For all     *)
(* callbacks it is the Swift object, whose bare address they take from the *)
(* container; it may be gone in three cases only: the program dropped it   *)
(* with a participant, or the participant was lost or not removed.         *)
CallbackSafe ==
  \A r \in Threads : cb[r] # Nil =>
    /\ cb[r] \in Attempts \ ignored => listener[cb[r]] = "live"
    /\ \/ swift = "live" \/ DroppedEarly
       \/ (IF cb[r] \in Attempts THEN cb[r] ELSE owner[cb[r]]) \in Lost \cup ignored

(* The pointer that readers, writers and the destructor go through is null *)
(* or that of a live participant, and no endpoint outlives its own.        *)
PointerLive ==
  /\ mp_participant # Nil /\ step \notin {"deleteListener", "removed", "stopped"} =>
       participant[mp_participant] = "live"
  /\ \A e \in Endpoints : owner[e] # Nil => participant[owner[e]] = "live"

(* No pointer that is followed dangles, in any order of creation, failure, *)
(* removal, refusal, drop and stopAll: neither those that calls go through *)
(* downwards nor, but for the cases CallbackSafe names, those that         *)
(* callbacks go through upwards.                                           *)
NothingDangles == CallbackSafe /\ PointerLive

(* What removeParticipant leaves behind.  No participant but those that    *)
(* were lost before and the one that Fast-DDS did not let go of, which is  *)
(* left without its listener; no listener but those of lost participants   *)
(* and of attempts that failed (BridgedParticipant.cpp:126-129).           *)
OnlyFailedLeft ==
  step = "removed" =>
    \A a \in Attempts \ Lost :
      /\ participant[a] = "live" => a \in ignored
      /\ listener[a] = "live" => participant[a] = "none"

(* The steps of removeParticipant, by how many are left.                   *)
Ahead(s) == CASE s = "resignWrapper"    -> 5
              [] s = "delete"           -> 4
              [] s = "resignDestructor" -> 3
              [] s = "remove"           -> 2
              [] s = "deleteListener"   -> 1
              [] OTHER                  -> 0

Owned == {e \in Endpoints : owner[e] # Nil}

(* A removal never goes back: neither its two passes over the endpoints    *)
(* nor the destructor is entered again, no endpoint appears under it, and  *)
(* each of its steps takes one away or leads on.                           *)
RemovalAdvances ==
  [][Ahead(step) > 0 /\ <<step, owner>>' # <<step, owner>> =>
       /\ Owned' \subseteq Owned
       /\ Owned' # Owned \/ Ahead(step') < Ahead(step)]_vars

(* removeParticipant returns, whatever discovery reports meanwhile.        *)
RemovalEnds == step = "resignWrapper" ~> step = "removed"

(* "Remove all readers/writers and then remove participant"                *)
(* (FastRTPSSwift.swift:332): no participant of the object is left.        *)
NoParticipantLeft ==
  step = "removed" => \A a \in Attempts : participant[a] # "live"
-----------------------------------------------------------------------------
(* The listeners, as Fast-DDS is lent them.                                *)
AsLent(l) == CASE l = "none"  -> "unused"
               [] l = "live"  -> "retained"
               [] l = "freed" -> "released"

Lent == [a \in Attempts |-> AsLent(listener[a])]

Contract == INSTANCE LendingContract WITH
              Objects <- Attempts, status <- Lent,
              running <- {cb[r] : r \in Threads} \cap Attempts,
              excused <- ignored

(* Discovery calls the BridgedParticipantListener only between its         *)
(* allocation and its deletion, which comes once and not under a call,     *)
(* whatever is created over what.  A removal that is refused and ignored   *)
(* (BridgedParticipant.cpp:46) suspends the terms for its own listener.    *)
KeepsContract == Contract!Spec

=============================================================================
