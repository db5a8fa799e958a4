--------------------- MODULE ParticipantLifecycleProofs ---------------------
(***************************************************************************)
(* Safety of the life of a participant, for any number of attempts,        *)
(* endpoints and threads, in every program, also one that creates a        *)
(* participant over another or drops the object with one, and whether or   *)
(* not Fast-DDS lets go of it.  The inductive invariant ties the three     *)
(* views of one participant together: the pointer, the object inside       *)
(* Fast-DDS and the listener, at every step of creation and of removal.  A *)
(* participant that was lost keeps its listener and its endpoints; one     *)
(* whose removal was refused and ignored is live and loses its listener.   *)
(***************************************************************************)
EXTENDS ParticipantLifecycle, TLAPS

Over     == {"removed", "stopped", "dropped"}
Creating == {"create", "created"}

Pointers ==
  /\ mp_participant # Nil /\ step \notin Creating => mp_listener = mp_participant
  /\ mp_participant # Nil /\ step \notin {"deleteListener", "removed", "stopped"} =>
       participant[mp_participant] = "live"
  /\ step \in Creating =>
       /\ mp_listener # Nil /\ mp_listener # mp_participant
       /\ listener[mp_listener] = "live"
       /\ participant[mp_listener] = IF step = "create" THEN "none" ELSE "live"
       /\ CreateAgain \/ mp_participant = Nil
  /\ step \in {"resignDestructor", "remove", "deleteListener"} =>
       mp_participant # Nil
  /\ step \in {"deleteListener", "removed", "stopped"} /\ mp_participant # Nil =>
       participant[mp_participant] = IF mp_participant \in ignored THEN "live"
                                                                   ELSE "removed"
  /\ ignored # {} => /\ RemovalMayFail
                     /\ step \in {"deleteListener", "removed"}
                     /\ mp_participant # Nil /\ ignored = {mp_participant}
  /\ step = "deleteListener" => listener[mp_participant] = "live"
  /\ step = "stopped" => \A a \in Attempts : participant[a] # "live"
  /\ step = "dropped" => mp_participant = Nil \/ DropEarly
  /\ swift = "gone" => step \in Over

Listeners ==
  \A a \in Attempts :
    /\ participant[a] = "live" => listener[a] = "live" \/ a \in ignored
    /\ listener[a] = "none" => participant[a] = "none"
    /\ listener[a] = "live" /\ participant[a] = "removed" =>
         step = "stopped" \/ (step = "deleteListener" /\ a = mp_listener)
    /\ step = "removed" /\ a \in ignored => listener[a] # "live"

Endings ==
  /\ \A e \in Endpoints : owner[e] # Nil => participant[owner[e]] = "live"
  /\ step \in {"delete", "remove", "deleteListener", "removed", "stopped"} =>
       \A e \in Endpoints : owner[e] = Nil
  /\ \A r \in Threads :
       /\ cb[r] \in Attempts => participant[cb[r]] = "live"
       /\ cb[r] \in Endpoints => owner[cb[r]] # Nil

(* A program that creates no participant over another loses none.          *)
NoneLost == ~CreateAgain => Lost = {}

LInv == TypeOK /\ Pointers /\ Listeners /\ Endings /\ NoneLost
-----------------------------------------------------------------------------
USE LifecycleAssumption

(* A new object has neither participant nor listener.                      *)
LEMMA InitLInv == Init => LInv
BY DEF Init, LInv, TypeOK, Pointers, Listeners, Endings, NoneLost, Lost, Over,
       Creating, Resigning

(* Every step keeps the invariant.                                         *)
LEMMA StepLInv == ASSUME LInv, [Next]_vars PROVE LInv'
<1> USE DEF LInv, TypeOK, Pointers, Listeners, Endings, NoneLost, Lost, Over,
            Creating, Resigning, bridge
<1>1. ASSUME NEW a \in Attempts, CreateParticipant(a) PROVE LInv'
  BY <1>1 DEF CreateParticipant
<1>2. CASE ParticipantEnabled
  BY <1>2 DEF ParticipantEnabled
<1>3. CASE ParticipantCreated
  BY <1>3 DEF ParticipantCreated
<1>4. CASE ParticipantNotCreated
  BY <1>4 DEF ParticipantNotCreated
<1>5. ASSUME NEW e \in Endpoints, AddEndpoint(e) PROVE LInv'
  BY <1>5 DEF AddEndpoint
<1>6. ASSUME NEW e \in Endpoints, RemoveEndpoint(e) PROVE LInv'
  BY <1>6 DEF RemoveEndpoint, Quiet
<1>7. CASE ResignAll
  BY <1>7 DEF ResignAll
<1>8. ASSUME NEW e \in Endpoints, ResignEndpoint(e) PROVE LInv'
  BY <1>8 DEF ResignEndpoint, Quiet
<1>9. CASE Resigned
  BY <1>9 DEF Resigned, AfterResign
<1>10. CASE RemoveParticipant
  BY <1>10 DEF RemoveParticipant
<1>11. CASE DeleteWithout
  BY <1>11 DEF DeleteWithout
<1>12. CASE StopAnnouncement
  BY <1>12 DEF StopAnnouncement
<1>13. CASE ParticipantRemoved \/ ParticipantNotRemoved
  BY <1>13 DEF ParticipantRemoved, ParticipantNotRemoved, Quiet
<1>14. CASE DeleteListener
  BY <1>14 DEF DeleteListener
<1>15. CASE StopAll
  BY <1>15 DEF StopAll
<1>16. CASE Drop
  BY <1>16 DEF Drop
<1>17. ASSUME NEW r \in Threads, NEW x \in Attempts \cup Endpoints, Enter(r, x)
       PROVE  LInv'
  BY <1>17 DEF Enter
<1>18. ASSUME NEW r \in Threads, Leave(r) PROVE LInv'
  BY <1>18 DEF Leave
<1>19. CASE UNCHANGED vars
  BY <1>19 DEF vars
<1> QED
  BY <1>1, <1>2, <1>3, <1>4, <1>5, <1>6, <1>7, <1>8, <1>9, <1>10, <1>11,
     <1>12, <1>13, <1>14, <1>15, <1>16, <1>17, <1>18, <1>19
     DEF Next, Begin, Continue, Callback

(* The invariant holds throughout, in every program.                       *)
THEOREM LifecycleInvariance == Spec => []LInv
<1>1. LInv /\ [Next]_vars => LInv'
  BY StepLInv
<1> QED
  BY <1>1, InitLInv, PTL DEF Spec

(* Type correctness: every pointer is null or names an attempt.            *)
THEOREM LifecycleTyped == Spec => []TypeOK
<1>1. LInv => TypeOK
  BY DEF LInv
<1> QED
  BY <1>1, LifecycleInvariance, PTL

(* Discovery finds its listener, whatever was created over what, unless    *)
(* Fast-DDS refused to let go of the participant (BridgedParticipant.cpp:  *)
(* 46-47); a callback of a participant neither lost nor refused finds the  *)
(* Swift object unless the program dropped it early.                       *)
THEOREM DiscoveryCallbackSafety == Spec => []CallbackSafe
<1>1. LInv => CallbackSafe
  BY DEF LInv, TypeOK, Pointers, Listeners, Endings, Over, Creating, Lost,
         CallbackSafe, DroppedEarly
<1> QED
  BY <1>1, LifecycleInvariance, PTL

(* mp_participant never dangles where it is used, and a participant is     *)
(* removed after its endpoints.                                            *)
THEOREM ParticipantPointerLive == Spec => []PointerLive
<1>1. LInv => PointerLive
  BY DEF LInv, Pointers, Endings, PointerLive
<1> QED
  BY <1>1, LifecycleInvariance, PTL

(* No pointer that calls follow dangles, in every program, and none that   *)
(* callbacks follow but in the three cases of CallbackSafe: a drop of the  *)
(* object with a participant, a lost one and one that was not removed.     *)
THEOREM NoneDangling == Spec => []NothingDangles
<1>1. CallbackSafe /\ PointerLive => NothingDangles
  BY DEF NothingDangles
<1> QED
  BY <1>1, DiscoveryCallbackSafety, ParticipantPointerLive, PTL

(* removeParticipant leaves what was lost before it, and of the rest the   *)
(* listeners of failed attempts and, without its listener, the participant *)
(* that Fast-DDS did not let go of.                                        *)
THEOREM RemovalComplete == Spec => []OnlyFailedLeft
<1>1. LInv => OnlyFailedLeft
  BY DEF LInv, TypeOK, Pointers, Listeners, Over, Lost, OnlyFailedLeft
<1> QED
  BY <1>1, LifecycleInvariance, PTL

(* A program that creates no participant over another always reaches all   *)
(* of its live participants.                                               *)
THEOREM NothingLost == ~CreateAgain /\ Spec => [](Lost = {})
<1> SUFFICES ASSUME ~CreateAgain PROVE Spec => [](Lost = {})
  OBVIOUS
<1>1. LInv => Lost = {}
  BY DEF LInv, NoneLost
<1> QED
  BY <1>1, LifecycleInvariance, PTL

(* For such a program, as long as Fast-DDS removes what it is asked to,    *)
(* removeParticipant does what its comment says: no participant is left.   *)
THEOREM RemovalLeavesNone ==
  ~CreateAgain /\ ~RemovalMayFail /\ Spec => []NoParticipantLeft
<1> SUFFICES ASSUME ~CreateAgain, ~RemovalMayFail
             PROVE  Spec => []NoParticipantLeft
  OBVIOUS
<1>1. LInv => NoParticipantLeft
  BY DEF LInv, TypeOK, Pointers, NoneLost, Lost, NoParticipantLeft
<1> QED
  BY <1>1, LifecycleInvariance, PTL
-----------------------------------------------------------------------------
(* What loses a participant, step by step.                                 *)

(* The assignment to mp_participant at the end of createParticipant is the *)
(* only step after which a live participant is no longer led to.           *)
LEMMA StepLost ==
  ASSUME LInv, [Next]_vars, NEW a \in Attempts, a \notin Lost, (a \in Lost)'
  PROVE  CreateAgain /\ a = mp_participant /\ step \in Creating
<1> USE DEF LInv, TypeOK, Pointers, Lost, Creating, bridge
<1>1. CASE UNCHANGED vars
  BY <1>1 DEF vars
<1>2. CASE ParticipantCreated \/ ParticipantNotCreated
  BY <1>2 DEF ParticipantCreated, ParticipantNotCreated
<1>3. CASE ParticipantEnabled \/ \E b \in Attempts : CreateParticipant(b)
  BY <1>3 DEF ParticipantEnabled, CreateParticipant
<1>4. CASE \E e \in Endpoints : AddEndpoint(e) \/ RemoveEndpoint(e) \/ ResignEndpoint(e)
  BY <1>4 DEF AddEndpoint, RemoveEndpoint, ResignEndpoint, Resigning
<1>5. CASE ResignAll \/ Resigned \/ RemoveParticipant \/ Drop
  BY <1>5 DEF ResignAll, Resigned, AfterResign, Resigning, RemoveParticipant, Drop
<1>6. CASE DeleteWithout \/ StopAnnouncement \/ DeleteListener
  BY <1>6 DEF DeleteWithout, StopAnnouncement, DeleteListener
<1>7. CASE ParticipantRemoved \/ ParticipantNotRemoved \/ StopAll
  BY <1>7 DEF ParticipantRemoved, ParticipantNotRemoved, StopAll
<1>8. CASE \E r \in Threads : Callback(r)
  BY <1>8 DEF Callback, Enter, Leave
<1> QED
  BY <1>1, <1>2, <1>3, <1>4, <1>5, <1>6, <1>7, <1>8 DEF Next, Begin, Continue

(* A participant goes out of reach only where createParticipant overwrites *)
(* the pointer to it.                                                      *)
THEOREM LosingIsCreating == Spec => LostOnlyByCreating
<1>1. LInv /\ [Next]_vars =>
        [\A a \in Attempts : a \notin Lost /\ a \in Lost' =>
           CreateAgain /\ a = mp_participant /\ step \in {"create", "created"}]_vars
  BY StepLost DEF Creating
<1> QED
  BY <1>1, LifecycleInvariance, PTL DEF Spec, LostOnlyByCreating
-----------------------------------------------------------------------------
(* How a removal goes on.                                                  *)

(* Each step of a removal leads on, or takes an endpoint away: those that  *)
(* do neither belong to other calls or to Fast-DDS.                        *)
LEMMA StepAhead ==
  ASSUME LInv, [Next]_vars, Ahead(step) > 0, <<step, owner>>' # <<step, owner>>
  PROVE  /\ Owned' \subseteq Owned
         /\ Owned' # Owned \/ Ahead(step') < Ahead(step)
<1> USE DEF LInv, TypeOK, Ahead, Owned, Resigning, bridge
<1>1. ASSUME NEW e \in Endpoints, ResignEndpoint(e)
      PROVE  Owned' = Owned \ {e} /\ e \in Owned
  BY <1>1 DEF ResignEndpoint
<1>2. CASE Resigned
  BY <1>2 DEF Resigned, AfterResign
<1>3. CASE \/ DeleteWithout \/ StopAnnouncement \/ ParticipantRemoved
           \/ ParticipantNotRemoved \/ DeleteListener
  BY <1>3 DEF DeleteWithout, StopAnnouncement, ParticipantRemoved,
              ParticipantNotRemoved, DeleteListener
<1>4. \/ UNCHANGED <<step, owner>>
      \/ \E e \in Endpoints : ResignEndpoint(e)
      \/ Resigned \/ DeleteWithout \/ StopAnnouncement
      \/ ParticipantRemoved \/ ParticipantNotRemoved \/ DeleteListener
  BY DEF Next, Begin, Continue, Callback, vars, CreateParticipant,
         ParticipantEnabled, ParticipantCreated, ParticipantNotCreated,
         AddEndpoint, RemoveEndpoint, ResignAll, RemoveParticipant, StopAll,
         Drop, Enter, Leave
<1> QED
  BY <1>1, <1>2, <1>3, <1>4

(* removeParticipant takes boundedly many steps: one for each endpoint and *)
(* five more.                                                              *)
THEOREM EveryRemovalAdvances == Spec => RemovalAdvances
<1>1. LInv /\ [Next]_vars =>
        [Ahead(step) > 0 /\ <<step, owner>>' # <<step, owner>> =>
           /\ Owned' \subseteq Owned
           /\ Owned' # Owned \/ Ahead(step') < Ahead(step)]_vars
  BY StepAhead
<1> QED
  BY <1>1, LifecycleInvariance, PTL DEF Spec, RemovalAdvances
-----------------------------------------------------------------------------
(* The listeners keep the contract of LendingContract.                     *)

Called == {cb[r] : r \in Threads} \cap Attempts

(* A step that leaves listeners and callbacks alone is a stutter of the    *)
(* contract.                                                               *)
LEMMA StutterContract ==
  ASSUME UNCHANGED <<listener, cb, ignored>> PROVE UNCHANGED Contract!vars
BY DEF Contract!vars, Lent

(* createParticipant lends the listener it allocates.                      *)
LEMMA CreateContract ==
  ASSUME LInv, NEW a \in Attempts, CreateParticipant(a) PROVE Contract!Lend(a)
<1>1. Lent[a] = "unused"
  BY DEF CreateParticipant, Lent, AsLent
<1>2. Lent' = [Lent EXCEPT ![a] = "retained"]
  BY DEF LInv, TypeOK, CreateParticipant, Lent, AsLent
<1> QED
  BY <1>1, <1>2 DEF CreateParticipant, Contract!Lend

(* A refusal that nobody looks at is where the terms go off, for the       *)
(* listener of that participant.                                           *)
LEMMA RefusalContract ==
  ASSUME LInv, ParticipantNotRemoved
  PROVE  mp_participant \in Attempts /\ Contract!Excuse(mp_participant)
BY DEF LInv, TypeOK, Pointers, ParticipantNotRemoved, Contract!Excuse, Lent

(* The destructor returns the listener when discovery is inside no         *)
(* callback of it: its participant has been removed.  If it was not, the   *)
(* terms are off.                                                          *)
LEMMA DeleteContract ==
  ASSUME LInv, DeleteListener
  PROVE  /\ mp_listener \in Attempts
         /\ Contract!Return(mp_listener) \/ Contract!Break(mp_listener)
<1>1. CASE mp_participant \in ignored
  <2>1. mp_listener \in Attempts /\ mp_listener \in ignored
    BY <1>1 DEF LInv, TypeOK, Pointers, DeleteListener, Creating
  <2>2. Lent' = [Lent EXCEPT ![mp_listener] = Lent'[mp_listener]]
    BY <2>1 DEF LInv, TypeOK, DeleteListener, Lent, AsLent
  <2> QED
    BY <2>1, <2>2 DEF DeleteListener, Contract!Break
<1>2. CASE mp_participant \notin ignored
  <2>1. /\ mp_listener \in Attempts /\ listener[mp_listener] = "live"
        /\ participant[mp_listener] = "removed"
    BY <1>2 DEF LInv, TypeOK, Pointers, Listeners, DeleteListener, Creating
  <2>2. mp_listener \notin Called
    BY <2>1 DEF LInv, Endings, Called
  <2>3. Lent' = [Lent EXCEPT ![mp_listener] = "released"]
    BY <2>1 DEF LInv, TypeOK, DeleteListener, Lent, AsLent
  <2>4. Lent[mp_listener] = "retained"
    BY <2>1 DEF Lent, AsLent
  <2> QED
    BY <2>1, <2>2, <2>3, <2>4 DEF DeleteListener, Contract!Return, Called
<1> QED
  BY <1>1, <1>2

(* A callback of discovery is a call of a listener that is lent and that   *)
(* nobody is calling, or one whose terms are off; that of an endpoint is   *)
(* none.                                                                   *)
LEMMA EnterContract ==
  ASSUME LInv, NEW r \in Threads, NEW x \in Attempts \cup Endpoints, Enter(r, x)
  PROVE  IF x \in Attempts THEN Contract!Enter(x) \/ Contract!Break(x)
                           ELSE UNCHANGED Contract!vars
<1>1. /\ cb[r] = Nil /\ cb' = [cb EXCEPT ![r] = x]
      /\ \A q \in Threads : cb[q] # x
      /\ listener' = listener /\ ignored' = ignored
      /\ cb \in [Threads -> Attempts \cup Endpoints \cup {Nil}]
  BY DEF LInv, TypeOK, Enter, Quiet
<1>2. CASE x \in Attempts
  <2>1. Called' = Called \cup {x} /\ x \notin Called
    BY <1>1, <1>2 DEF Called
  <2>2. Lent' = Lent
    BY <1>1 DEF Lent
  <2>3. CASE x \notin ignored
    <3>1. Lent[x] = "retained"
      BY <1>2, <2>3 DEF LInv, Listeners, Enter, Lent, AsLent
    <3> QED
      BY <1>1, <1>2, <2>1, <2>2, <3>1 DEF Contract!Enter, Called
  <2>4. CASE x \in ignored
    <3>1. Lent = [Lent EXCEPT ![x] = Lent[x]]
      <4>1. ASSUME NEW f, f = [a \in Attempts |-> f[a]]
            PROVE  f = [f EXCEPT ![x] = f[x]]
        BY <4>1
      <4>2. Lent = [a \in Attempts |-> Lent[a]]
        BY DEF Lent
      <4> QED
        BY <4>1, <4>2
    <3>2. Called' \ {x} = Called \ {x}
      BY <2>1
    <3> QED
      BY <1>1, <1>2, <2>2, <2>4, <3>1, <3>2 DEF Contract!Break, Called
  <2> QED
    BY <2>3, <2>4
<1>3. CASE x \notin Attempts
  <2>1. Called' = Called
    BY <1>1, <1>3 DEF Called
  <2> QED
    BY <1>1, <1>3, <2>1 DEF Contract!vars, Called, Lent
<1> QED
  BY <1>2, <1>3

(* The end of a callback of discovery is the end of that call.             *)
LEMMA LeaveContract ==
  ASSUME LInv, NEW r \in Threads, Leave(r),
         \A q \in Threads \ {r} : cb[q] # cb[r]
  PROVE  IF cb[r] \in Attempts THEN Contract!Leave(cb[r])
                               ELSE UNCHANGED Contract!vars
<1>1. /\ cb' = [cb EXCEPT ![r] = Nil] /\ listener' = listener
      /\ ignored' = ignored
      /\ cb \in [Threads -> Attempts \cup Endpoints \cup {Nil}]
  BY DEF LInv, TypeOK, Leave
<1>2. CASE cb[r] \in Attempts
  <2>1. Called' = Called \ {cb[r]} /\ cb[r] \in Called
    BY <1>1, <1>2 DEF Called
  <2> QED
    BY <1>1, <1>2, <2>1 DEF Contract!Leave, Called, Lent
<1>3. CASE cb[r] \notin Attempts
  <2>1. Called' = Called
    BY <1>1, <1>3 DEF Called
  <2> QED
    BY <1>1, <1>3, <2>1 DEF Contract!vars, Called, Lent
<1> QED
  BY <1>2, <1>3

(* Fast-DDS runs no two callbacks of one participant or endpoint at once:  *)
(* Quiet of Enter, kept by every step.                                     *)
OneCall ==
  \A r, q \in Threads : r # q /\ cb[r] # Nil => cb[q] # cb[r]

(* Only Enter and Leave change what runs.                                  *)
LEMMA StepOneCall ==
  ASSUME LInv, OneCall, [Next]_vars PROVE OneCall'
<1>1. ASSUME NEW r \in Threads, Callback(r) PROVE OneCall'
  BY <1>1 DEF LInv, TypeOK, OneCall, Callback, Enter, Leave, Quiet
<1>2. CASE cb' = cb
  BY <1>2 DEF OneCall
<1>3. (\E r \in Threads : Callback(r)) \/ cb' = cb
  BY DEF Next, Begin, Continue, vars, CreateParticipant, ParticipantEnabled,
         ParticipantCreated, ParticipantNotCreated, AddEndpoint, RemoveEndpoint,
         ResignAll, ResignEndpoint, Resigned, RemoveParticipant, DeleteWithout,
         StopAnnouncement, ParticipantRemoved, ParticipantNotRemoved,
         DeleteListener, StopAll, Drop
<1> QED
  BY <1>1, <1>2, <1>3

(* Every step of the life cycle is a step of the contract or a stutter.    *)
LEMMA StepContract ==
  ASSUME LInv, OneCall, [Next]_vars PROVE [Contract!Next]_(Contract!vars)
<1>1. ASSUME NEW a \in Attempts, CreateParticipant(a) PROVE Contract!Next
  BY <1>1, CreateContract DEF Contract!Next
<1>2. CASE DeleteListener
  <2>1. PICK a \in Attempts : a = mp_listener
    BY <1>2, DeleteContract
  <2>2. Contract!Return(a) \/ Contract!Break(a)
    BY <1>2, <2>1, DeleteContract DEF Contract!Return, Contract!Break
  <2> QED
    BY <2>2 DEF Contract!Next
<1>6. CASE ParticipantNotRemoved
  <2>1. PICK a \in Attempts : Contract!Excuse(a)
    BY <1>6, RefusalContract
  <2> QED
    BY <2>1 DEF Contract!Next
<1>3. ASSUME NEW r \in Threads, NEW x \in Attempts \cup Endpoints, Enter(r, x)
      PROVE  [Contract!Next]_(Contract!vars)
  <2>1. CASE x \in Attempts
    BY <1>3, <2>1, EnterContract DEF Contract!Next
  <2>2. CASE x \notin Attempts
    BY <1>3, <2>2, EnterContract
  <2> QED
    BY <2>1, <2>2
<1>4. ASSUME NEW r \in Threads, Leave(r) PROVE [Contract!Next]_(Contract!vars)
  <2>1. \A q \in Threads \ {r} : cb[q] # cb[r]
    BY <1>4 DEF OneCall, Leave
  <2>2. IF cb[r] \in Attempts THEN Contract!Leave(cb[r])
                              ELSE UNCHANGED Contract!vars
    BY <1>4, <2>1, LeaveContract
  <2>3. CASE cb[r] \in Attempts
    <3>1. PICK a \in Attempts : a = cb[r]
      BY <2>3
    <3>2. Contract!Leave(a)
      BY <2>2, <3>1 DEF Contract!Leave
    <3> QED
      BY <3>2 DEF Contract!Next
  <2>4. CASE cb[r] \notin Attempts
    BY <2>2, <2>4
  <2> QED
    BY <2>3, <2>4
<1>5. \/ \E a \in Attempts : CreateParticipant(a)
      \/ DeleteListener \/ ParticipantNotRemoved
      \/ \E r \in Threads : Callback(r)
      \/ UNCHANGED <<listener, cb, ignored>>
  BY DEF Next, Begin, Continue, vars, ParticipantEnabled, bridge,
         ParticipantCreated, ParticipantNotCreated, AddEndpoint, RemoveEndpoint,
         ResignAll, ResignEndpoint, Resigned, RemoveParticipant, DeleteWithout,
         StopAnnouncement, ParticipantRemoved, StopAll, Drop
<1> QED
  BY <1>1, <1>2, <1>3, <1>4, <1>5, <1>6, StutterContract DEF Callback

(* No listener is lent and nothing is called at the start.                 *)
LEMMA InitContract == Init => Contract!Init /\ OneCall
<1> SUFFICES ASSUME Init PROVE Contract!Init /\ OneCall
  OBVIOUS
<1>1. OneCall
  BY DEF Init, OneCall
<1>2. Lent = [a \in Attempts |-> "unused"]
  BY DEF Init, Lent, AsLent
<1>3. {cb[r] : r \in Threads} \cap Attempts = {}
  BY DEF Init
<1>4. ignored = {}
  BY DEF Init
<1> QED
  BY <1>1, <1>2, <1>3, <1>4 DEF Contract!Init

(* Discovery calls a listener only between its allocation and its deletion,*)
(* which comes once and under no call: the life cycle implements the       *)
(* contract, in every program, and the terms are off for no listener but   *)
(* that of a participant whose removal was refused and ignored.            *)
THEOREM ListenerContract == Spec => KeepsContract
<1>1. LInv /\ OneCall /\ [Next]_vars => OneCall' /\ [Contract!Next]_(Contract!vars)
  BY StepOneCall, StepContract
<1>2. Init => Contract!Init /\ OneCall
  BY InitContract
<1> QED
  BY <1>1, <1>2, LifecycleInvariance, PTL DEF Spec, KeepsContract, Contract!Spec

=============================================================================
