------------------------- MODULE NotificationsProofs -------------------------
(***************************************************************************)
(* The safety of the delegates and what they can count, for any number of  *)
(* endpoints, threads and delegates.  The argument: between the load of a  *)
(* delegate and the call, either the property still holds it, or an        *)
(* assignment has overlapped; and what Fast-DDS has but a delegate has not *)
(* heard of is what the one callback under way is about to tell.           *)
(***************************************************************************)
EXTENDS Notifications, FiniteSetTheorems, TLAPS

(* Status s is the right one of a change, and goes to the right delegate.  *)
ToldRight(p, about, change, s) ==
  /\ about \in Endpoints
  /\ \/ /\ p = "listenerDelegate"
        /\ \/ change = "matched" /\ Step(s) = 1
           \/ change = "unmatched" /\ Step(s) = -1
           \/ change \in Liveliness /\ Step(s) = 0
     \/ /\ p = "participantListenerDelegate"
        /\ \/ change = "discovered" /\ Step(s) = 1
           \/ change = "removed" /\ Step(s) = -1
           \/ change \in {"changed", "ignored"} /\ Step(s) = 0

(* The shape of a callback, beyond its type.                               *)
JobOK ==
  \A r \in Threads :
    /\ job[r].step = "none" <=> job[r] = NoJob
    /\ job[r].step # "none" =>
         /\ job[r].property \in Properties
         /\ ToldRight(job[r].property, job[r].about, job[r].change,
                      job[r].status)
    /\ ~inService => job[r] = NoJob

(* The assignment under way is one to a property.                          *)
StoreOK ==
  /\ storing # NoStore => storing.property \in Properties
  /\ storing = NoStore <=> storing.property = "none"

(* The property holds delegate d and no assignment to it is under way.     *)
InPlace(p, d) == delegate[p] = d /\ storing.property # p

(* A delegate that was loaded and not raced is still in place.             *)
LoadedInPlace ==
  \A r \in Threads \ raced :
    job[r].step = "loaded" => InPlace(job[r].property, job[r].delegate)

(* The listener of an endpoint counts its matches; what is not registered  *)
(* has none.                                                               *)
CountsOK ==
  \A e \in Endpoints : /\ nMatched[e] = Cardinality(matched[e])
                       /\ e \notin registered => matched[e] = {}

NInv ==
  TypeOK /\ JobOK /\ StoreOK /\ LoadedInPlace /\ OnlyRacedUndefined /\ CountsOK
-----------------------------------------------------------------------------
USE NotificationsAssumption

(* The matches of an endpoint and the remote endpoints like it are finite  *)
(* sets, and what the histories hold are numbers.                          *)
LEMMA Numbers ==
  ASSUME TypeOK, NEW e \in Endpoints
  PROVE  /\ matched[e] \in SUBSET Remotes /\ IsFiniteSet(matched[e])
         /\ Known(e) \in SUBSET Remotes /\ IsFiniteSet(Known(e))
         /\ Cardinality(matched[e]) \in Nat /\ Cardinality(Known(e)) \in Nat
         /\ view[e] \in Int /\ seen[e] \in Int /\ untold[e] \in Nat
<1>1. /\ matched[e] \in SUBSET Remotes /\ Known(e) \in SUBSET Remotes
      /\ view[e] \in Int /\ seen[e] \in Int /\ untold[e] \in Nat
  BY DEF TypeOK, Known
<1>2. IsFiniteSet(matched[e]) /\ IsFiniteSet(Known(e))
  BY <1>1, FS_Subset
<1> QED
  BY <1>1, <1>2, FS_CardinalityType

(* A finite set without one of its elements.                               *)
LEMMA OneFewer ==
  ASSUME NEW S, IsFiniteSet(S), NEW x \in S
  PROVE  Cardinality(S \ {x}) = Cardinality(S) - 1
BY FS_RemoveElement

(* Nothing is under way at the start.                                      *)
LEMMA InitNInv == Init => NInv
<1> SUFFICES ASSUME Init PROVE NInv
  OBVIOUS
<1>1. NoJob \in Jobs
  BY DEF NoJob, Jobs
<1>2. \A r \in Threads : job[r] = NoJob /\ NoJob.step = "none"
  BY DEF Init, NoJob
<1>3. job \in [Threads -> Jobs]
  BY <1>1 DEF Init
<1>4. storing = NoStore /\ NoStore.property = "none"
      /\ NoStore \in [property : Properties \cup {"none"},
                      new : Delegates \cup {Nil}]
  BY DEF Init, NoStore
<1>5. /\ matched \in [Endpoints -> SUBSET Remotes]
      /\ NoCount \in [Endpoints -> Nat] /\ NoCount \in [Endpoints -> Int]
      /\ delegate \in [Properties -> Delegates \cup {Nil}]
      /\ \A e \in Endpoints : matched[e] = {} /\ NoCount[e] = 0
  BY DEF Init, NoCount
<1>6. TypeOK
  BY <1>2, <1>3, <1>4, <1>5 DEF Init, TypeOK
<1>7. CountsOK
  BY <1>5, FS_EmptySet DEF Init, CountsOK
<1> QED
  BY <1>2, <1>4, <1>6, <1>7
     DEF NInv, JobOK, StoreOK, LoadedInPlace, OnlyRacedUndefined

(* A callback starts with a status and without a delegate.                 *)
LEMMA CallKeeps ==
  ASSUME NInv, NEW r \in Threads, NEW p \in Properties,
         NEW about \in Endpoints, NEW change \in Changes,
         NEW handler, handler[change] \in Statuses,
         ToldRight(p, about, change, handler[change]),
         Call(r, p, about, change, handler)
  PROVE  /\ job' \in [Threads -> Jobs]
         /\ \A s \in Threads :
              job'[s].step \in {"loaded", "call"} => job'[s].delegate # Nil
         /\ raced' \in SUBSET Threads
         /\ UNCHANGED <<app, told>>
         /\ JobOK' /\ StoreOK' /\ LoadedInPlace' /\ OnlyRacedUndefined'
<1> DEFINE new == [step |-> "load", property |-> p, about |-> about,
                   change |-> change, status |-> handler[change],
                   delegate |-> Nil]
<1>1. new \in Jobs
  BY DEF Jobs
<1>2. job' = [job EXCEPT ![r] = new] /\ raced' = raced \ {r} /\ inService
      /\ UNCHANGED <<app, told>> /\ job[r] = NoJob
  BY DEF Call
<1>3. job' \in [Threads -> Jobs] /\ job \in [Threads -> Jobs]
  BY <1>1, <1>2 DEF NInv, TypeOK
<1>4. job'[r] = new /\ \A s \in Threads \ {r} : job'[s] = job[s]
  BY <1>2, <1>3
<1>5. /\ new.step = "load" /\ new.property = p /\ new # NoJob
      /\ ToldRight(new.property, new.about, new.change, new.status)
  BY DEF NoJob
<1> HIDE DEF new
<1> QED
  BY <1>2, <1>3, <1>4, <1>5
     DEF NInv, TypeOK, JobOK, StoreOK, LoadedInPlace, OnlyRacedUndefined,
         InPlace, app

(* The events of Fast-DDS change its own variables and start a callback.   *)
LEMMA EventKeeps ==
  ASSUME NInv, NEW r \in Threads, Event(r) PROVE NInv'
<1> DEFINE Started == \E p \in Properties, about \in Endpoints,
                         change \in Changes :
             \E handler :
               /\ handler[change] \in Statuses
               /\ ToldRight(p, about, change, handler[change])
               /\ Call(r, p, about, change, handler)
           DdsOK == /\ registered' \in SUBSET Endpoints
                    /\ matched' \in [Endpoints -> SUBSET Remotes]
                    /\ known' \in SUBSET Remotes
                    /\ nMatched' \in [Endpoints -> Int]
                    /\ CountsOK'
<1> USE DEF NInv, TypeOK
<1>0. /\ "listenerDelegate" \in Properties
      /\ "participantListenerDelegate" \in Properties
      /\ {"matched", "unmatched", "alive", "notAlive", "discovered", "changed",
          "removed", "ignored"} \subseteq Changes
      /\ Liveliness = {"alive", "notAlive"}
  BY DEF Properties, Changes, Liveliness
<1>1. ASSUME NEW e \in Endpoints, NEW p \in Peers(e), Match(r, e, p)
      PROVE  Started /\ DdsOK
  <2>1. OnMatched(e)["matched"] \in Statuses /\ Step(OnMatched(e)["matched"]) = 1
    BY DEF OnMatched, onReaderMatched, onWriterMatched, Statuses, Step, Up
  <2>2. Call(r, "listenerDelegate", e, "matched", OnMatched(e))
    BY <1>1 DEF Match
  <2>3. p \in Remotes /\ p \notin matched[e] /\ e \in registered
        /\ matched' = [matched EXCEPT ![e] = @ \cup {p}]
        /\ nMatched' = [nMatched EXCEPT ![e] = @ + 1]
        /\ UNCHANGED <<registered, known>>
    BY <1>1 DEF Match, Peers
  <2>4. Cardinality(matched[e] \cup {p}) = Cardinality(matched[e]) + 1
    BY <2>3, Numbers, FS_AddElement
  <2>5. CountsOK'
    BY <2>3, <2>4 DEF CountsOK
  <2>6. DdsOK
    BY <2>3, <2>5
  <2>7. Started
    BY <1>0, <2>1, <2>2 DEF ToldRight
  <2> QED
    BY <2>6, <2>7
<1>2. ASSUME NEW e \in Endpoints, NEW p \in Peers(e), Unmatch(r, e, p)
      PROVE  Started /\ DdsOK
  <2>1. OnMatched(e)["unmatched"] \in Statuses
        /\ Step(OnMatched(e)["unmatched"]) = -1
    BY DEF OnMatched, onReaderMatched, onWriterMatched, Statuses, Step, Up, Down
  <2>2. Call(r, "listenerDelegate", e, "unmatched", OnMatched(e))
    BY <1>2 DEF Unmatch
  <2>3. p \in matched[e] /\ matched' = [matched EXCEPT ![e] = @ \ {p}]
        /\ nMatched' = [nMatched EXCEPT ![e] = @ - 1]
        /\ UNCHANGED <<registered, known>>
    BY <1>2 DEF Unmatch
  <2>4. Cardinality(matched[e] \ {p}) = Cardinality(matched[e]) - 1
    <3>1. IsFiniteSet(matched[e]) /\ p \in matched[e]
      BY <2>3, Numbers
    <3> HIDE DEF NInv, TypeOK
    <3> QED
      BY <3>1, OneFewer
  <2>5. CountsOK'
    BY <2>3, <2>4 DEF CountsOK
  <2>6. DdsOK
    BY <2>3, <2>5
  <2>7. Started
    BY <1>0, <2>1, <2>2 DEF ToldRight
  <2> QED
    BY <2>6, <2>7
<1>3. ASSUME NEW e \in Endpoints, NEW change \in Liveliness,
             ChangeLiveliness(r, e, change)
      PROVE  Started /\ DdsOK
  <2>1. on_liveliness_changed[change] \in Statuses
        /\ Step(on_liveliness_changed[change]) = 0
    BY <1>0 DEF on_liveliness_changed, Statuses, Step, Up, Down
  <2> QED
    BY <1>0, <1>3, <2>1 DEF ChangeLiveliness, ToldRight, dds, CountsOK
<1>4. ASSUME NEW e \in Endpoints, MissLiveliness(r, e)
      PROVE  Started /\ DdsOK
  <2>1. on_liveliness_lost["notAlive"] \in Statuses
        /\ Step(on_liveliness_lost["notAlive"]) = 0
    BY DEF on_liveliness_lost, Statuses, Step, Up, Down
  <2> QED
    BY <1>0, <1>4, <2>1 DEF MissLiveliness, ToldRight, dds, CountsOK
<1>5. ASSUME NEW p \in Remotes,
             NEW change \in {"discovered", "changed", "removed", "ignored"},
             Discover(r, p, change)
      PROVE  Started /\ DdsOK
  <2>1. \A handler \in {onReaderDiscovery, onWriterDiscovery} :
          /\ handler[change] \in Statuses
          /\ ToldRight("participantListenerDelegate", Offer[p], change,
                       handler[change])
    BY DEF onReaderDiscovery, onWriterDiscovery, Statuses, ToldRight, Step, Up,
           Down
  <2>2. known' \in SUBSET Remotes /\ UNCHANGED <<registered, matched, nMatched>>
    BY <1>5 DEF Discover
  <2>3. \/ Call(r, "participantListenerDelegate", Offer[p], change,
                onReaderDiscovery)
        \/ Call(r, "participantListenerDelegate", Offer[p], change,
                onWriterDiscovery)
    BY <1>5 DEF Discover
  <2>4. Started
    BY <1>0, <2>1, <2>3
  <2> QED
    BY <2>2, <2>4 DEF CountsOK
<1>6. Started /\ DdsOK
  BY <1>1, <1>2, <1>3, <1>4, <1>5 DEF Event
<1>7. PICK p \in Properties, about \in Endpoints, change \in Changes :
        \E handler : /\ handler[change] \in Statuses
                     /\ ToldRight(p, about, change, handler[change])
                     /\ Call(r, p, about, change, handler)
  BY <1>6
<1>8. /\ job' \in [Threads -> Jobs]
      /\ \A s \in Threads :
           job'[s].step \in {"loaded", "call"} => job'[s].delegate # Nil
      /\ raced' \in SUBSET Threads
      /\ UNCHANGED <<app, told>>
      /\ JobOK' /\ StoreOK' /\ LoadedInPlace' /\ OnlyRacedUndefined'
  BY <1>7, CallKeeps
<1> QED
  BY <1>6, <1>8 DEF app, told

(* The steps of the program.                                               *)
LEMMA ProgramKeeps == ASSUME NInv, Program PROVE NInv'
<1> USE DEF NInv, TypeOK, JobOK, StoreOK, LoadedInPlace, OnlyRacedUndefined,
            CountsOK, InPlace, dds, told
<1>0. NoCount \in [Endpoints -> Nat] /\ NoCount \in [Endpoints -> Int]
  BY DEF NoCount
<1>1. ASSUME NEW p \in Properties, NEW d \in Delegates \cup {Nil}, BeginSet(p, d)
      PROVE  NInv'
  <2>1. p # "none" /\ storing' # NoStore
    BY <1>1 DEF BeginSet, Properties, NoStore
  <2>2. /\ view' \in [Endpoints -> Int] /\ seen' \in [Endpoints -> Int]
        /\ untold' \in [Endpoints -> Nat]
    BY <1>0, <1>1 DEF BeginSet
  <2> QED
    BY <1>1, <2>1, <2>2 DEF BeginSet
<1>2. ASSUME EndSet PROVE NInv'
  <2>1. storing.property \in Properties /\ NoStore.property = "none"
        /\ NoStore \in [property : Properties \cup {"none"},
                        new : Delegates \cup {Nil}]
    BY <1>2 DEF EndSet, NoStore
  <2>2. delegate' \in [Properties -> Delegates \cup {Nil}]
    BY <1>2, <2>1 DEF EndSet
  <2>3. \A p \in Properties : p # storing.property => delegate'[p] = delegate[p]
    BY <1>2, <2>1 DEF EndSet
  <2>4. "none" \notin Properties
    BY DEF Properties
  <2> QED
    BY <1>2, <2>1, <2>2, <2>3, <2>4 DEF EndSet
<1>3. ASSUME CreateParticipant PROVE NInv'
  BY <1>3 DEF CreateParticipant
<1>4. ASSUME NEW d \in Delegates, DropDelegate(d) PROVE NInv'
  BY <1>4 DEF DropDelegate
<1>5. ASSUME NEW e \in Endpoints, AddEndpoint(e) PROVE NInv'
  <2>1. /\ registered' \in SUBSET Endpoints
        /\ nMatched' = [nMatched EXCEPT ![e] = 0]
        /\ UNCHANGED <<matched, known, app, job, raced, told>>
    BY <1>5 DEF AddEndpoint
  <2>2. nMatched' \in [Endpoints -> Int]
    BY <1>5 DEF AddEndpoint
  <2>3. CountsOK'
    <3>1. Cardinality(matched[e]) = 0
      BY <1>5, FS_EmptySet DEF AddEndpoint
    <3> QED
      BY <1>5, <3>1 DEF AddEndpoint
  <2> QED
    BY <2>1, <2>2, <2>3 DEF app
<1>6. ASSUME NEW e \in Endpoints, RemoveEndpoint(e) PROVE NInv'
  <2>1. /\ registered' = registered \ {e}
        /\ matched' = [matched EXCEPT ![e] = {}]
        /\ nMatched' = [nMatched EXCEPT ![e] = 0]
        /\ UNCHANGED <<known, app, job, raced, view, seen>>
    BY <1>6 DEF RemoveEndpoint
  <2>2. /\ matched' \in [Endpoints -> SUBSET Remotes]
        /\ nMatched' \in [Endpoints -> Int]
    BY <2>1
  <2>3. untold' \in [Endpoints -> Nat]
    BY <1>6, Numbers DEF RemoveEndpoint
  <2>4. CountsOK'
    <3>1. Cardinality({}) = 0
      BY FS_EmptySet
    <3>2. /\ matched'[e] = {} /\ nMatched'[e] = 0
          /\ \A x \in Endpoints \ {e} : /\ matched'[x] = matched[x]
                                        /\ nMatched'[x] = nMatched[x]
      BY <2>1
    <3> QED
      BY <2>1, <3>1, <3>2
  <2> QED
    BY <2>1, <2>2, <2>3, <2>4 DEF app
<1> QED
  BY <1>1, <1>2, <1>3, <1>4, <1>5, <1>6 DEF Program

(* What a delegate counts are numbers.                                     *)
LEMMA LearnKeepsTypes ==
  ASSUME view \in [Endpoints -> Int], seen \in [Endpoints -> Int],
         NEW property, NEW status, NEW about \in Endpoints,
         Learn(property, status, about)
  PROVE  /\ view' \in [Endpoints -> Int] /\ seen' \in [Endpoints -> Int]
         /\ untold' = untold
<1>1. Step(status) \in Int
  BY DEF Step
<1>2. /\ view[about] + Step(status) \in Int
      /\ seen[about] + Step(status) \in Int
  BY <1>1
<1>3. /\ view' = view \/ view' = [view EXCEPT ![about] = view[about] + Step(status)]
      /\ seen' = seen \/ seen' = [seen EXCEPT ![about] = seen[about] + Step(status)]
      /\ untold' = untold
  BY DEF Learn
<1> QED
  BY <1>2, <1>3

(* The closures.                                                           *)
LEMMA ClosureKeeps == ASSUME NInv, NEW r \in Threads, Closure(r) PROVE NInv'
<1> USE DEF NInv, TypeOK, JobOK, StoreOK, LoadedInPlace, OnlyRacedUndefined,
            CountsOK, InPlace, app, dds, told
<1>0. NoJob \in Jobs /\ NoJob.step = "none"
  BY DEF NoJob, Jobs
<1>1. ASSUME LoadNil(r) PROVE NInv'
  BY <1>0, <1>1 DEF LoadNil
<1>2. ASSUME NEW d \in Delegates, Load(r, d) PROVE NInv'
  <2>1. job'[r] = [job[r] EXCEPT !.step = "loaded", !.delegate = d]
        /\ job' = [job EXCEPT ![r] = [job[r] EXCEPT !.step = "loaded",
                                                   !.delegate = d]]
    BY <1>2 DEF Load
  <2>2. job'[r] \in Jobs /\ job'[r].step = "loaded" /\ job'[r].delegate = d
        /\ job'[r].property = job[r].property
        /\ job'[r].about = job[r].about /\ job'[r].change = job[r].change
        /\ job'[r].status = job[r].status
    <3>1. job[r] \in Jobs
      OBVIOUS
    <3>2. [job[r] EXCEPT !.step = "loaded"] \in Jobs
      BY <3>1 DEF Jobs
    <3>3. [[job[r] EXCEPT !.step = "loaded"] EXCEPT !.delegate = d] \in Jobs
      BY <3>2 DEF Jobs
    <3> QED
      BY <2>1, <3>1, <3>2, <3>3 DEF Jobs
  <2>3. /\ job[r].property \in Properties /\ inService
        /\ ToldRight(job[r].property, job[r].about, job[r].change,
                     job[r].status)
    BY <1>0, <1>2 DEF Load
  <2>4. d # Nil /\ job'[r] # NoJob
    BY <1>0, <2>2
  <2>5. r \notin raced' => delegate[job[r].property] = d
                           /\ storing.property # job[r].property
    BY <1>2 DEF Load
  <2> QED
    <3>1. /\ job' \in [Threads -> Jobs]
          /\ \A s \in Threads \ {r} : job'[s] = job[s]
          /\ raced' \in SUBSET Threads /\ raced \subseteq raced'
          /\ UNCHANGED <<app, dds, told>>
      BY <1>2, <2>1, <2>2 DEF Load
    <3> QED
      BY <2>2, <2>3, <2>4, <2>5, <3>1
<1>3. ASSUME LoadTorn(r) PROVE NInv'
  <2>1. job' = [job EXCEPT ![r] = [job[r] EXCEPT !.step = "undefined"]]
    BY <1>3 DEF LoadTorn
  <2>2. job'[r] \in Jobs /\ job'[r].step = "undefined"
        /\ job'[r].property = job[r].property
    BY <2>1 DEF Jobs
  <2>3. job[r].property \in Properties /\ inService /\ job'[r] # NoJob
    BY <1>0, <1>3, <2>2 DEF LoadTorn
  <2> QED
    BY <1>3, <2>1, <2>2, <2>3 DEF LoadTorn
<1>4. ASSUME Retain(r) PROVE NInv'
  <2>1. PICK to \in {"call", "undefined"} :
          /\ job' = [job EXCEPT ![r] = [job[r] EXCEPT !.step = to]]
          /\ to = "undefined" => ~Held(job[r].delegate)
    BY <1>4 DEF Retain
  <2>2. job'[r] \in Jobs /\ job'[r].step = to
        /\ job'[r].property = job[r].property
        /\ job'[r].delegate = job[r].delegate
    BY <2>1 DEF Jobs
  <2>3. job[r].property \in Properties /\ inService /\ job'[r] # NoJob
    BY <1>0, <1>4, <2>2 DEF Retain
  <2>4. to = "undefined" => r \in raced
    BY <1>4, <2>1, <2>3 DEF Retain, Held
  <2> QED
    BY <1>4, <2>1, <2>2, <2>3, <2>4 DEF Retain
<1>5. ASSUME Tell(r) PROVE NInv'
  <2>1. /\ view' \in [Endpoints -> Int] /\ seen' \in [Endpoints -> Int]
        /\ untold' = untold
    <3>1. \/ UNCHANGED told
          \/ Learn(job[r].property, job[r].status, job[r].about)
      BY <1>5 DEF Tell
    <3>2. job[r].about \in Endpoints
      BY <1>5 DEF Tell, ToldRight
    <3> QED
      BY <3>1, <3>2, LearnKeepsTypes
  <2>2. /\ job' \in [Threads -> Jobs] /\ job'[r] = NoJob
        /\ \A s \in Threads \ {r} : job'[s] = job[s]
        /\ UNCHANGED <<app, dds, raced>>
    BY <1>0, <1>5 DEF Tell
  <2> QED
    BY <1>0, <2>1, <2>2
<1> QED
  BY <1>1, <1>2, <1>3, <1>4, <1>5 DEF Closure

(* Every step keeps the invariant.                                         *)
LEMMA StepNInv == NInv /\ [Next]_vars => NInv'
<1>1. ASSUME NInv, UNCHANGED vars PROVE NInv'
  BY <1>1 DEF NInv, TypeOK, JobOK, StoreOK, LoadedInPlace, OnlyRacedUndefined,
              CountsOK, InPlace, vars, dds, app, told
<1> QED
  BY <1>1, EventKeeps, ProgramKeeps, ClosureKeeps DEF Next
-----------------------------------------------------------------------------
(* The invariant holds in every reachable state.                           *)
THEOREM NotificationsInvariance == Spec => []NInv
BY InitNInv, StepNInv, PTL DEF Spec

(* The state of the delegates and their callbacks is well typed.           *)
THEOREM NotificationsTyped == Spec => []TypeOK
<1>1. NInv => TypeOK
  BY DEF NInv
<1> QED
  BY <1>1, NotificationsInvariance, PTL

(* Whatever the program does with its delegates, a call goes wrong only    *)
(* when an assignment overlapped the load before it.                       *)
THEOREM RacesOnly == Spec => []OnlyRacedUndefined
<1>1. NInv => OnlyRacedUndefined
  BY DEF NInv
<1> QED
  BY <1>1, NotificationsInvariance, PTL
-----------------------------------------------------------------------------
(* A program that sets its delegates before it creates the participant.    *)
(* No assignment overlaps a callback, so a delegate that was loaded stays  *)
(* in place, nothing is lost, and since matching and discovery are serial  *)
(* at most one change is still to be told.                                 *)

InDiscovery(r) == job[r].change \notin Liveliness \cup {"none"}

InOrder ==
  /\ raced = {}
  /\ inService => storing = NoStore
  /\ \A r \in Threads : job[r].step = "call" =>
       delegate[job[r].property] = job[r].delegate
  /\ \A r, s \in Threads : InDiscovery(r) /\ InDiscovery(s) => r = s

(* Without a participant there is nothing to be told of.                   *)
QuietBefore ==
  ~inService => /\ registered = {} /\ known = {}
                /\ \A e \in Endpoints : /\ matched[e] = {} /\ untold[e] = 0
                                        /\ view[e] = 0 /\ seen[e] = 0

(* A callback about this change has yet to be told.                        *)
Pending(about, change) ==
  \E r \in Threads : job[r].about = about /\ job[r].change = change

(* The two halves of ViewExact for delegates.                              *)
MatchesOK ==
  delegate["listenerDelegate"] # Nil =>
    \A e \in Endpoints :
      view[e] = Cardinality(matched[e]) + untold[e]
                  - Coming(e, "matched") + Coming(e, "unmatched")

KnownOK ==
  delegate["participantListenerDelegate"] # Nil =>
    \A e \in Endpoints :
      seen[e] = Cardinality(Known(e))
                  - Coming(e, "discovered") + Coming(e, "removed")

VInv == InOrder /\ QuietBefore /\ MatchesOK /\ KnownOK

Told == {"matched", "unmatched", "discovered", "removed"}

(* One is to come if it is pending, before a step and after it.            *)
LEMMA ComingPending ==
  \A a : \A c : /\ Coming(a, c) = IF Pending(a, c) THEN 1 ELSE 0
                /\ Coming(a, c)' = IF Pending(a, c)' THEN 1 ELSE 0
BY DEF Coming, Pending

(* If the same is pending after a step, the same is to come.               *)
LEMMA ComingKept ==
  ASSUME \A a : \A c \in Told : Pending(a, c)' <=> Pending(a, c)
  PROVE  \A a : \A c \in Told : Coming(a, c)' = Coming(a, c)
BY DEF Coming, Pending

(* At the start nothing is known and nothing was told.                     *)
LEMMA InitVInv == Init => VInv
<1> SUFFICES ASSUME Init PROVE VInv
  OBVIOUS
<1>1. \A r \in Threads : job[r] = NoJob
  BY DEF Init
<1>2. NoJob.step = "none" /\ NoJob.change = "none"
  BY DEF NoJob
<1>3. delegate["listenerDelegate"] = Nil
      /\ delegate["participantListenerDelegate"] = Nil
  BY DEF Init, Properties
<1>4. \A e \in Endpoints : NoCount[e] = 0
  BY DEF NoCount
<1> QED
  BY <1>1, <1>2, <1>3, <1>4
     DEF Init, VInv, InOrder, QuietBefore, MatchesOK, KnownOK, InDiscovery

(* Without a callback of matching or discovery nothing is pending.         *)
LEMMA NoPending ==
  ASSUME \A r \in Threads : ~InDiscovery(r)
  PROVE  \A about : \A c \in Told : ~Pending(about, c)
BY DEF Pending, InDiscovery, Liveliness, Told

(* With one it is that one change.                                         *)
LEMMA OnePending ==
  ASSUME NEW r \in Threads, InDiscovery(r), InOrder
  PROVE  \A about : \A c \in Told :
           Pending(about, c) <=> about = job[r].about /\ c = job[r].change
BY DEF Pending, InDiscovery, InOrder, Liveliness, Told

(* Before there is a participant every delegate has an exact view.         *)
LEMMA QuietViews ==
  NInv /\ ~inService /\ QuietBefore => MatchesOK /\ KnownOK
<1> SUFFICES ASSUME NInv, ~inService, QuietBefore PROVE MatchesOK /\ KnownOK
  OBVIOUS
<1>1. \A r \in Threads : job[r] = NoJob /\ NoJob.change = "none"
  BY DEF NInv, JobOK, NoJob
<1>2. \A e : \A c \in Told : ~Pending(e, c)
  BY <1>1 DEF Pending, Told
<1>3. \A e : \A c \in Told : Coming(e, c) = 0
  BY <1>2, ComingPending
<1>4. \A e \in Endpoints : Known(e) = {} /\ matched[e] = {}
  BY DEF QuietBefore, Known
<1>5. Cardinality({}) = 0
  BY FS_EmptySet
<1>6. ASSUME NEW e \in Endpoints
      PROVE  /\ view[e] = Cardinality(matched[e]) + untold[e]
                           - Coming(e, "matched") + Coming(e, "unmatched")
             /\ seen[e] = Cardinality(Known(e))
                           - Coming(e, "discovered") + Coming(e, "removed")
  <2>1. /\ Coming(e, "matched") = 0 /\ Coming(e, "unmatched") = 0
        /\ Coming(e, "discovered") = 0 /\ Coming(e, "removed") = 0
    BY <1>3 DEF Told
  <2>2. view[e] = 0 /\ seen[e] = 0 /\ untold[e] = 0
    BY DEF QuietBefore
  <2>3. Cardinality(matched[e]) = 0 /\ Cardinality(Known(e)) = 0
    BY <1>4, <1>5
  <2> QED
    BY <2>1, <2>2, <2>3
<1> QED
  BY <1>6 DEF MatchesOK, KnownOK

(* So has it after a step.                                                 *)
LEMMA QuietViewsNext ==
  (NInv /\ ~inService /\ QuietBefore => MatchesOK /\ KnownOK)'
BY QuietViews, PTL

(* A step of the program, before there is a participant, without effect or *)
(* the removal of a reader or writer, whose matches become untold.         *)
LEMMA ProgramKeepsView ==
  ASSUME ~late', NInv, VInv, Program PROVE VInv'
<1> USE DEF VInv
<1>0. NInv'
  BY ProgramKeeps
<1>1. ASSUME NEW p \in Properties, NEW d \in Delegates \cup {Nil}, BeginSet(p, d)
      PROVE  VInv'
  <2>1. ~inService /\ \A r \in Threads : job[r] = NoJob
    BY <1>1 DEF BeginSet, NInv, JobOK
  <2>2. NoJob.step = "none"
    BY DEF NoJob
  <2>3. ~inService' /\ InOrder'
    BY <1>1, <2>1, <2>2 DEF BeginSet, InOrder, InDiscovery
  <2>4. QuietBefore'
    BY <1>1, <2>1 DEF BeginSet, QuietBefore, dds, told
  <2> QED
    BY <1>0, <2>3, <2>4, QuietViewsNext
<1>2. ASSUME EndSet PROVE VInv'
  <2>1. ~inService /\ \A r \in Threads : job[r] = NoJob
    BY <1>2 DEF EndSet, InOrder, NInv, JobOK
  <2>2. NoJob.step = "none"
    BY DEF NoJob
  <2>3. ~inService' /\ InOrder'
    BY <1>2, <2>1, <2>2 DEF EndSet, InOrder, InDiscovery
  <2>4. QuietBefore'
    BY <1>2, <2>1 DEF EndSet, QuietBefore, dds, told
  <2> QED
    BY <1>0, <2>3, <2>4, QuietViewsNext
<1>3. ASSUME CreateParticipant PROVE VInv'
  BY <1>3 DEF CreateParticipant, InOrder, InDiscovery, QuietBefore, MatchesOK,
              KnownOK, Known, Coming, dds, told
<1>4. ASSUME NEW d \in Delegates, DropDelegate(d) PROVE VInv'
  BY <1>4 DEF DropDelegate, InOrder, InDiscovery, QuietBefore, MatchesOK,
              KnownOK, Known, Coming, dds, told
<1>5. ASSUME NEW e \in Endpoints, AddEndpoint(e) PROVE VInv'
  BY <1>5 DEF AddEndpoint, InOrder, InDiscovery, QuietBefore, MatchesOK,
              KnownOK, Known, Coming, app, told
<1>6. ASSUME NEW e \in Endpoints, RemoveEndpoint(e) PROVE VInv'
  <2>1. /\ matched' = [matched EXCEPT ![e] = {}]
        /\ UNCHANGED <<known, app, job, raced, view, seen>> /\ ~late
        /\ untold' = [untold EXCEPT ![e] = @ + Cardinality(matched[e])]
        /\ storing = NoStore /\ e \in registered
    BY <1>6 DEF RemoveEndpoint, app
  <2>2. InOrder'
    BY <2>1 DEF InOrder, InDiscovery, app
  <2>3. inService
    BY <2>1 DEF QuietBefore
  <2>4. KnownOK'
    BY <2>1 DEF KnownOK, Known, Coming, app
  <2>5. Coming(e, "matched") = 0 /\ Coming(e, "unmatched") = 0
    <3>1. ASSUME NEW r \in Threads, job[r].about = e,
                 job[r].change \in {"matched", "unmatched"}
          PROVE  FALSE
      <4>1. job[r].property = "listenerDelegate"
        <5>1. job[r].step # "none"
          BY <3>1 DEF NInv, JobOK, NoJob
        <5> QED
          BY <3>1, <5>1 DEF NInv, JobOK, ToldRight
      <4> QED
        BY <1>6, <3>1, <4>1 DEF RemoveEndpoint
    <3> QED
      BY <3>1 DEF Coming
  <2>6. MatchesOK'
    <3> SUFFICES ASSUME delegate["listenerDelegate"] # Nil, NEW x \in Endpoints
                 PROVE  view'[x] = Cardinality(matched'[x]) + untold'[x]
                                   - Coming(x, "matched")'
                                   + Coming(x, "unmatched")'
      BY <2>1 DEF MatchesOK, app
    <3>1. /\ Coming(x, "matched")' = Coming(x, "matched")
          /\ Coming(x, "unmatched")' = Coming(x, "unmatched")
          /\ view' = view
      BY <2>1 DEF Coming
    <3>2. view[x] = Cardinality(matched[x]) + untold[x]
                      - Coming(x, "matched") + Coming(x, "unmatched")
      BY DEF MatchesOK
    <3>3. CASE x = e
      <4>1. untold'[e] = untold[e] + Cardinality(matched[e])
        BY <2>1 DEF NInv, TypeOK
      <4>2. matched'[e] = {} /\ Cardinality({}) = 0
        BY <2>1, FS_EmptySet DEF NInv, TypeOK
      <4>3. Cardinality(matched[e]) \in Nat /\ untold[e] \in Nat
        BY Numbers DEF NInv
      <4> QED
        BY <2>5, <3>1, <3>2, <3>3, <4>1, <4>2, <4>3
    <3>4. CASE x # e
      <4>1. untold'[x] = untold[x] /\ matched'[x] = matched[x]
        BY <2>1, <3>4 DEF NInv, TypeOK
      <4> QED
        BY <3>1, <3>2, <4>1
    <3> QED
      BY <3>3, <3>4
  <2> QED
    BY <2>1, <2>2, <2>3, <2>4, <2>6 DEF QuietBefore, app
<1> QED
  BY <1>1, <1>2, <1>3, <1>4, <1>5, <1>6 DEF Program

(* A callback about a change starts: it is what is pending, if it is one   *)
(* about a match or a discovery, and the order of callbacks is kept.       *)
LEMMA CallKeepsOrder ==
  ASSUME NInv, InOrder, NEW r \in Threads, NEW p, NEW about,
         NEW change \in Changes, NEW handler,
         change \notin Liveliness => DiscoveryFree,
         Call(r, p, about, change, handler)
  PROVE  /\ InOrder' /\ inService'
         /\ change \in Liveliness =>
              \A a : \A c \in Told : Pending(a, c)' <=> Pending(a, c)
         /\ change \notin Liveliness =>
              \A a : \A c \in Told :
                /\ ~Pending(a, c)
                /\ Pending(a, c)' <=> a = about /\ c = change
<1>1. /\ inService /\ job[r] = NoJob /\ UNCHANGED <<app, told>>
      /\ NoJob.change = "none" /\ NoJob.step = "none"
  BY DEF Call, NoJob
<1>2. /\ job'[r].change = change /\ job'[r].about = about
      /\ job'[r].step = "load"
      /\ \A s \in Threads \ {r} : job'[s] = job[s]
  BY DEF Call, NInv, TypeOK
<1>3. change # "none" /\ "none" \notin Told /\ Told \cap Liveliness = {}
  BY DEF Changes, Liveliness, Told
<1>4. change \notin Liveliness => \A s \in Threads : ~InDiscovery(s)
  BY DEF DiscoveryFree, InDiscovery
<1>5. /\ InDiscovery(r)' <=> change \notin Liveliness
      /\ ~InDiscovery(r)
      /\ \A s \in Threads \ {r} : InDiscovery(s)' <=> InDiscovery(s)
  BY <1>1, <1>2, <1>3 DEF InDiscovery
<1>6. InOrder' /\ inService'
  <2>1. raced' = {}
    BY DEF Call, InOrder
  <2>2. \A s \in Threads : job'[s].step = "call" =>
          delegate'[job'[s].property] = job'[s].delegate
    BY <1>1, <1>2 DEF InOrder, app
  <2>3. \A s, t \in Threads : InDiscovery(s)' /\ InDiscovery(t)' => s = t
    BY <1>4, <1>5 DEF InOrder
  <2> QED
    BY <1>1, <2>1, <2>2, <2>3 DEF InOrder, app
<1>7. change \in Liveliness =>
        \A a : \A c \in Told : Pending(a, c)' <=> Pending(a, c)
  BY <1>1, <1>2, <1>3 DEF Pending
<1>8. change \notin Liveliness => \A a : \A c \in Told : ~Pending(a, c)
  BY <1>4, NoPending
<1>9. change \notin Liveliness =>
        \A a : \A c \in Told : Pending(a, c)' <=> a = about /\ c = change
  BY <1>2, <1>8 DEF Pending
<1> QED
  BY <1>6, <1>7, <1>8, <1>9

(* An event of Fast-DDS: what changed is what is pending afterwards.       *)
LEMMA EventKeepsView ==
  ASSUME NInv, VInv, NEW r \in Threads, Event(r) PROVE VInv'
<1> USE DEF VInv
<1>0. /\ {"matched", "unmatched", "alive", "notAlive", "discovered", "changed",
          "removed", "ignored"} \subseteq Changes
      /\ Told = {"matched", "unmatched", "discovered", "removed"}
      /\ Liveliness = {"alive", "notAlive"}
  BY DEF Changes, Liveliness, Told
<1>1. \A e \in Endpoints :
        /\ IsFiniteSet(matched[e]) /\ IsFiniteSet(Known(e))
        /\ Cardinality(matched[e]) \in Nat /\ Cardinality(Known(e)) \in Nat
        /\ view[e] \in Int /\ seen[e] \in Int /\ untold[e] \in Nat
  BY Numbers DEF NInv
<1>2. ASSUME NEW e \in Endpoints, NEW p \in Peers(e),
             Match(r, e, p) \/ Unmatch(r, e, p)
      PROVE  VInv'
  <2>1. PICK change \in {"matched", "unmatched"} :
          /\ Call(r, "listenerDelegate", e, change, OnMatched(e))
          /\ DiscoveryFree /\ UNCHANGED <<registered, known>>
          /\ change = "matched" =>
               /\ p \notin matched[e]
               /\ matched' = [matched EXCEPT ![e] = @ \cup {p}]
          /\ change = "unmatched" =>
               /\ p \in matched[e]
               /\ matched' = [matched EXCEPT ![e] = @ \ {p}]
    BY <1>2 DEF Match, Unmatch
  <2>2. UNCHANGED <<app, told>>
    BY <2>1 DEF Call
  <2>3. /\ InOrder' /\ inService'
        /\ \A a : \A c \in Told :
             /\ ~Pending(a, c)
             /\ Pending(a, c)' <=> a = e /\ c = change
    BY <1>0, <2>1, CallKeepsOrder
  <2>4. \A a : \A c \in Told :
          /\ Coming(a, c) = 0
          /\ Coming(a, c)' = IF a = e /\ c = change THEN 1 ELSE 0
    BY <2>3, ComingPending
  <2>5. \A x \in Endpoints \ {e} : matched'[x] = matched[x]
    BY <2>1 DEF NInv, TypeOK
  <2>6. /\ change = "matched" =>
             Cardinality(matched'[e]) = Cardinality(matched[e]) + 1
        /\ change = "unmatched" =>
             Cardinality(matched'[e]) = Cardinality(matched[e]) - 1
    <3>1. CASE change = "matched"
      <4>1. matched'[e] = matched[e] \cup {p} /\ p \notin matched[e]
        BY <2>1, <3>1 DEF NInv, TypeOK
      <4>2. IsFiniteSet(matched[e])
        BY <1>1
      <4> QED
        BY <3>1, <4>1, <4>2, FS_AddElement
    <3>2. CASE change = "unmatched"
      <4>1. matched'[e] = matched[e] \ {p} /\ p \in matched[e]
        BY <2>1, <3>2 DEF NInv, TypeOK
      <4>2. IsFiniteSet(matched[e])
        BY <1>1
      <4> QED
        BY <3>2, <4>1, <4>2, OneFewer
    <3> QED
      BY <3>1, <3>2
  <2>7. MatchesOK'
    <3> SUFFICES ASSUME delegate["listenerDelegate"] # Nil, NEW x \in Endpoints
                 PROVE  view[x] = Cardinality(matched'[x]) + untold[x]
                                   - Coming(x, "matched")'
                                   + Coming(x, "unmatched")'
      BY <2>2 DEF MatchesOK, app, told
    <3>1. view[x] = Cardinality(matched[x]) + untold[x]
      <4>1. Coming(x, "matched") = 0 /\ Coming(x, "unmatched") = 0
        BY <1>0, <2>4
      <4> QED
        BY <1>1, <4>1 DEF MatchesOK
    <3>2. CASE x = e /\ change = "matched"
      <4>1. Coming(x, "matched")' = 1 /\ Coming(x, "unmatched")' = 0
        BY <1>0, <2>4, <3>2
      <4> QED
        BY <1>1, <2>6, <3>1, <3>2, <4>1
    <3>3. CASE x = e /\ change = "unmatched"
      <4>1. Coming(x, "matched")' = 0 /\ Coming(x, "unmatched")' = 1
        BY <1>0, <2>4, <3>3
      <4> QED
        BY <1>1, <2>6, <3>1, <3>3, <4>1
    <3>4. CASE x # e
      <4>1. Coming(x, "matched")' = 0 /\ Coming(x, "unmatched")' = 0
        BY <1>0, <2>4, <3>4
      <4> QED
        BY <1>1, <2>5, <3>1, <3>4, <4>1
    <3> QED
      BY <3>2, <3>3, <3>4
  <2>8. KnownOK'
    <3>1. \A a : /\ Coming(a, "discovered")' = Coming(a, "discovered")
                 /\ Coming(a, "removed")' = Coming(a, "removed")
      BY <1>0, <2>4
    <3> QED
      BY <2>1, <2>2, <3>1 DEF KnownOK, Known, app, told
  <2> QED
    BY <2>3, <2>7, <2>8 DEF QuietBefore
<1>3. ASSUME NEW e \in Endpoints, NEW change \in Liveliness, NEW handler,
             Call(r, "listenerDelegate", e, change, handler), UNCHANGED dds
      PROVE  VInv'
  <2>1. /\ InOrder' /\ inService'
        /\ \A a : \A c \in Told : Pending(a, c)' <=> Pending(a, c)
    BY <1>0, <1>3, CallKeepsOrder
  <2>2. UNCHANGED <<app, told>>
    BY <1>3 DEF Call
  <2>3. \A a : \A c \in Told : Coming(a, c)' = Coming(a, c)
    BY <2>1, ComingKept
  <2>4. MatchesOK'
    BY <1>0, <1>3, <2>2, <2>3 DEF MatchesOK, app, told, dds
  <2>5. KnownOK'
    BY <1>0, <1>3, <2>2, <2>3 DEF KnownOK, Known, app, told, dds
  <2> QED
    BY <2>1, <2>4, <2>5 DEF QuietBefore
<1>4. ASSUME NEW p \in Remotes,
             NEW change \in {"discovered", "changed", "removed", "ignored"},
             Discover(r, p, change)
      PROVE  VInv'
  <2> DEFINE e == Offer[p]
  <2>1. /\ \/ Call(r, "participantListenerDelegate", e, change,
                  onReaderDiscovery)
           \/ Call(r, "participantListenerDelegate", e, change,
                  onWriterDiscovery)
        /\ DiscoveryFree /\ UNCHANGED <<registered, matched>>
        /\ p \in known <=> change \in {"changed", "removed"}
        /\ known' = CASE change = "discovered" -> known \cup {p}
                      [] change = "removed"    -> known \ {p}
                      [] OTHER                 -> known
        /\ e \in Endpoints
    BY <1>4 DEF Discover
  <2> HIDE DEF e
  <2>2. UNCHANGED <<app, told>>
    BY <2>1 DEF Call
  <2>3. /\ InOrder' /\ inService'
        /\ \A a : \A c \in Told :
             /\ ~Pending(a, c)
             /\ Pending(a, c)' <=> a = e /\ c = change
    BY <1>0, <2>1, CallKeepsOrder
  <2>4. \A a : \A c \in Told :
          /\ Coming(a, c) = 0
          /\ Coming(a, c)' = IF a = e /\ c = change THEN 1 ELSE 0
    BY <2>3, ComingPending
  <2>5. \A x \in Endpoints \ {e} : Known(x)' = Known(x)
    BY <2>1 DEF Known, e
  <2>6. /\ change = "discovered" =>
             Cardinality(Known(e)') = Cardinality(Known(e)) + 1
        /\ change = "removed" =>
             Cardinality(Known(e)') = Cardinality(Known(e)) - 1
        /\ change \in {"changed", "ignored"} => Known(e)' = Known(e)
    <3>0. IsFiniteSet(Known(e))
      BY <1>1, <2>1
    <3>1. CASE change = "discovered"
      <4>1. Known(e)' = Known(e) \cup {p} /\ p \notin Known(e)
        BY <2>1, <3>1 DEF Known, e
      <4> QED
        BY <3>0, <3>1, <4>1, FS_AddElement
    <3>2. CASE change = "removed"
      <4>1. Known(e)' = Known(e) \ {p} /\ p \in Known(e)
        BY <2>1, <3>2 DEF Known, e
      <4> QED
        BY <3>0, <3>2, <4>1, OneFewer
    <3>3. CASE change \in {"changed", "ignored"}
      BY <2>1, <3>3 DEF Known
    <3> QED
      BY <3>1, <3>2, <3>3
  <2>7. KnownOK'
    <3> SUFFICES ASSUME delegate["participantListenerDelegate"] # Nil,
                        NEW x \in Endpoints
                 PROVE  seen[x] = Cardinality(Known(x)')
                                   - Coming(x, "discovered")'
                                   + Coming(x, "removed")'
      BY <2>2 DEF KnownOK, app, told
    <3>1. seen[x] = Cardinality(Known(x))
      <4>1. Coming(x, "discovered") = 0 /\ Coming(x, "removed") = 0
        BY <1>0, <2>4
      <4> QED
        BY <1>1, <4>1 DEF KnownOK
    <3>2. CASE x = e /\ change = "discovered"
      <4>1. Coming(x, "discovered")' = 1 /\ Coming(x, "removed")' = 0
        BY <1>0, <2>4, <3>2
      <4> QED
        BY <1>1, <2>6, <3>1, <3>2, <4>1
    <3>3. CASE x = e /\ change = "removed"
      <4>1. Coming(x, "discovered")' = 0 /\ Coming(x, "removed")' = 1
        BY <1>0, <2>4, <3>3
      <4> QED
        BY <1>1, <2>6, <3>1, <3>3, <4>1
    <3>4. CASE x # e \/ change \in {"changed", "ignored"}
      <4>1. Coming(x, "discovered")' = 0 /\ Coming(x, "removed")' = 0
        BY <1>0, <2>4, <3>4
      <4>2. Known(x)' = Known(x)
        BY <2>5, <2>6, <3>4
      <4> QED
        BY <1>1, <3>1, <4>1, <4>2
    <3> QED
      BY <3>2, <3>3, <3>4
  <2>8. MatchesOK'
    <3>1. \A a : /\ Coming(a, "matched")' = Coming(a, "matched")
                 /\ Coming(a, "unmatched")' = Coming(a, "unmatched")
      BY <1>0, <2>4
    <3> QED
      BY <2>1, <2>2, <3>1 DEF MatchesOK, app, told
  <2> QED
    BY <2>3, <2>7, <2>8 DEF QuietBefore
<1> QED
  BY <1>0, <1>2, <1>3, <1>4 DEF Event, ChangeLiveliness, MissLiveliness

(* The callback of thread r ends: it is not pending any more.              *)
LEMMA EndKeepsOrder ==
  ASSUME NInv, InOrder, NEW r \in Threads, job' = [job EXCEPT ![r] = NoJob],
         UNCHANGED <<app, dds, raced>>
  PROVE  /\ InOrder'
         /\ \A a : \A c \in Told :
              Pending(a, c)' <=> /\ Pending(a, c)
                                 /\ ~(a = job[r].about /\ c = job[r].change)
<1>1. /\ job'[r] = NoJob /\ \A s \in Threads \ {r} : job'[s] = job[s]
      /\ NoJob.change = "none" /\ NoJob.step = "none"
  BY DEF NInv, TypeOK, NoJob
<1>2. /\ ~InDiscovery(r)'
      /\ \A s \in Threads \ {r} : InDiscovery(s)' <=> InDiscovery(s)
  BY <1>1 DEF InDiscovery
<1>3. InOrder'
  BY <1>1, <1>2 DEF InOrder, app, dds
<1>4. ASSUME NEW a, NEW c \in Told
      PROVE  Pending(a, c)' <=> /\ Pending(a, c)
                                /\ ~(a = job[r].about /\ c = job[r].change)
  <2>1. "none" \notin Told
    BY DEF Told
  <2>2. CASE c = job[r].change
    <3>1. InDiscovery(r)
      BY <2>2 DEF InDiscovery, Told, Liveliness
    <3>2. Pending(a, c) <=> a = job[r].about
      BY <2>2, <3>1, OnePending
    <3>3. ~Pending(a, c)'
      BY <1>1, <1>2, <2>1, <3>1 DEF Pending, InOrder, InDiscovery, Told,
                                    Liveliness
    <3> QED
      BY <2>2, <3>2, <3>3
  <2>3. CASE c # job[r].change
    BY <1>1, <2>1, <2>3 DEF Pending
  <2> QED
    BY <2>2, <2>3
<1> QED
  BY <1>3, <1>4

(* What is to come of a change, then, is one less if it was this one.      *)
LEMMA EndComing ==
  ASSUME NInv, InOrder, NEW r \in Threads, job' = [job EXCEPT ![r] = NoJob],
         UNCHANGED <<app, dds, raced>>, NEW a, NEW c \in Told
  PROVE  IF a = job[r].about /\ c = job[r].change
         THEN Coming(a, c) = 1 /\ Coming(a, c)' = 0
         ELSE Coming(a, c)' = Coming(a, c)
<1>1. Pending(a, c)' <=> /\ Pending(a, c)
                         /\ ~(a = job[r].about /\ c = job[r].change)
  BY EndKeepsOrder
<1>2. a = job[r].about /\ c = job[r].change => Pending(a, c)
  BY DEF Pending
<1> QED
  BY <1>1, <1>2 DEF Coming, Pending

(* A callback that goes on is about the same change.                       *)
LEMMA GoOnKeepsView ==
  ASSUME NInv, VInv, NEW r \in Threads, UNCHANGED <<app, dds, told>>,
         raced' = {}, \A s \in Threads \ {r} : job'[s] = job[s],
         job'[r].about = job[r].about, job'[r].change = job[r].change,
         job'[r].step = "call" =>
           delegate[job'[r].property] = job'[r].delegate
  PROVE  VInv'
<1>1. \A s \in Threads : InDiscovery(s)' <=> InDiscovery(s)
  BY DEF InDiscovery
<1>2. \A a : \A c \in Told : Pending(a, c)' <=> Pending(a, c)
  BY DEF Pending
<1>3. InOrder'
  BY <1>1 DEF VInv, InOrder, app, dds
<1>4. \A a : \A c \in Told : Coming(a, c)' = Coming(a, c)
  BY <1>2, ComingKept
<1>5. MatchesOK'
  BY <1>4 DEF VInv, MatchesOK, Told, app, dds, told
<1>6. KnownOK'
  BY <1>4 DEF VInv, KnownOK, Known, Told, app, dds, told
<1>7. QuietBefore'
  BY DEF VInv, QuietBefore, app, dds, told
<1> QED
  BY <1>3, <1>5, <1>6, <1>7 DEF VInv

(* The closures: without an assignment under way a delegate is whole and   *)
(* in place, and it learns exactly what was pending.                       *)
LEMMA ClosureKeepsView ==
  ASSUME ~late, NInv, VInv, NEW r \in Threads, Closure(r) PROVE VInv'
<1>0. ASSUME job[r].step # "none"
      PROVE  /\ inService /\ storing = NoStore /\ raced = {}
             /\ storing.property = "none"
             /\ job[r].property \in Properties /\ "none" \notin Properties
             /\ ToldRight(job[r].property, job[r].about, job[r].change,
                          job[r].status)
  BY <1>0 DEF NInv, VInv, InOrder, JobOK, StoreOK, NoJob, Properties
<1>1. ASSUME LoadNil(r) PROVE VInv'
  <2>1. /\ job' = [job EXCEPT ![r] = NoJob] /\ UNCHANGED <<app, dds, raced, told>>
        /\ delegate[job[r].property] = Nil
        /\ job[r].property \in Properties /\ inService
        /\ ToldRight(job[r].property, job[r].about, job[r].change,
                     job[r].status)
    BY <1>0, <1>1 DEF LoadNil
  <2>2. InOrder'
    BY <2>1, EndKeepsOrder DEF VInv
  <2>3. \A a : \A c \in Told :
          c # job[r].change => Coming(a, c)' = Coming(a, c)
    BY <2>1, EndComing DEF VInv
  <2>4. MatchesOK'
    <3>1. CASE job[r].property = "listenerDelegate"
      BY <2>1, <3>1 DEF MatchesOK, app
    <3>2. CASE job[r].property = "participantListenerDelegate"
      <4>1. \A e \in Endpoints :
              /\ Coming(e, "matched")' = Coming(e, "matched")
              /\ Coming(e, "unmatched")' = Coming(e, "unmatched")
        BY <2>1, <2>3, <3>2 DEF ToldRight, Told
      <4> QED
        BY <2>1, <4>1 DEF VInv, MatchesOK, app, dds, told
    <3> QED
      BY <2>1, <3>1, <3>2 DEF Properties
  <2>5. KnownOK'
    <3>1. CASE job[r].property = "listenerDelegate"
      <4>1. \A e \in Endpoints :
              /\ Coming(e, "discovered")' = Coming(e, "discovered")
              /\ Coming(e, "removed")' = Coming(e, "removed")
        BY <2>1, <2>3, <3>1 DEF ToldRight, Told, Liveliness
      <4> QED
        BY <2>1, <4>1 DEF VInv, KnownOK, Known, app, dds, told
    <3>2. CASE job[r].property = "participantListenerDelegate"
      BY <2>1, <3>2 DEF KnownOK, app
    <3> QED
      BY <2>1, <3>1, <3>2 DEF Properties
  <2> QED
    BY <2>1, <2>2, <2>4, <2>5 DEF VInv, QuietBefore, app
<1>2. ASSUME NEW d \in Delegates, Load(r, d) PROVE VInv'
  <2>1. job' = [job EXCEPT ![r] = [job[r] EXCEPT !.step = "loaded",
                                                 !.delegate = d]]
        /\ UNCHANGED <<app, dds, told>> /\ raced' = {}
    BY <1>0, <1>2 DEF Load
  <2>2. /\ job'[r].step = "loaded"
        /\ job'[r].about = job[r].about /\ job'[r].change = job[r].change
        /\ \A s \in Threads \ {r} : job'[s] = job[s]
    <3>1. job[r] \in Jobs /\ job \in [Threads -> Jobs]
      BY DEF NInv, TypeOK
    <3> QED
      BY <2>1, <3>1 DEF Jobs
  <2> QED
    BY <2>1, <2>2, GoOnKeepsView
<1>3. ASSUME LoadTorn(r) PROVE VInv'
  BY <1>0, <1>3 DEF LoadTorn
<1>4. ASSUME Retain(r) PROVE VInv'
  <2>1. PICK to \in {"call", "undefined"} :
          job' = [job EXCEPT ![r] = [job[r] EXCEPT !.step = to]]
    BY <1>4 DEF Retain
  <2>2. /\ job'[r].about = job[r].about /\ job'[r].change = job[r].change
        /\ job'[r].property = job[r].property
        /\ job'[r].delegate = job[r].delegate
        /\ \A s \in Threads \ {r} : job'[s] = job[s]
    <3>1. job[r] \in Jobs /\ job \in [Threads -> Jobs]
      BY DEF NInv, TypeOK
    <3> QED
      BY <2>1, <3>1 DEF Jobs
  <2>3. delegate[job[r].property] = job[r].delegate
    BY <1>0, <1>4 DEF Retain, NInv, LoadedInPlace, InPlace
  <2>4. UNCHANGED <<app, dds, told>> /\ raced' = {}
    BY <1>0, <1>4 DEF Retain
  <2> QED
    BY <2>2, <2>3, <2>4, GoOnKeepsView
<1>5. ASSUME Tell(r) PROVE VInv'
  <2>1. /\ job' = [job EXCEPT ![r] = NoJob] /\ UNCHANGED <<app, dds, raced>>
        /\ Learn(job[r].property, job[r].status, job[r].about)
        /\ ToldRight(job[r].property, job[r].about, job[r].change,
                     job[r].status)
        /\ inService
    BY <1>0, <1>5 DEF Tell
  <2> DEFINE x == job[r].about
             c == job[r].change
  <2>2. InOrder'
    BY <2>1, EndKeepsOrder DEF VInv
  <2>3. \A a : \A b \in Told :
          IF a = x /\ b = c
          THEN Coming(a, b) = 1 /\ Coming(a, b)' = 0
          ELSE Coming(a, b)' = Coming(a, b)
    BY <2>1, EndComing DEF VInv
  <2>4. \A e \in Endpoints :
          /\ view[e] \in Int /\ seen[e] \in Int
          /\ Cardinality(matched[e]) \in Nat /\ untold[e] \in Nat
          /\ Cardinality(Known(e)) \in Nat
          /\ \A b \in Told : Coming(e, b) \in Int
    BY Numbers DEF NInv, Coming
  <2>5. /\ \A e \in Endpoints :
             view'[e] = IF job[r].property = "listenerDelegate" /\ e = x
                        THEN view[e] + Step(job[r].status) ELSE view[e]
        /\ \A e \in Endpoints :
             seen'[e] = IF job[r].property = "participantListenerDelegate"
                             /\ e = x
                        THEN seen[e] + Step(job[r].status) ELSE seen[e]
        /\ untold' = untold
    BY <2>1 DEF NInv, TypeOK, Learn
  <2> HIDE DEF x, c
  <2>6. MatchesOK'
    <3> SUFFICES ASSUME delegate["listenerDelegate"] # Nil, NEW e \in Endpoints
                 PROVE  view'[e] = Cardinality(matched[e]) + untold[e]
                                   - Coming(e, "matched")'
                                   + Coming(e, "unmatched")'
      BY <2>1, <2>5 DEF MatchesOK, app, dds
    <3>1. view[e] = Cardinality(matched[e]) + untold[e]
                      - Coming(e, "matched") + Coming(e, "unmatched")
      BY DEF VInv, MatchesOK
    <3>2. CASE e = x /\ c = "matched"
      <4>1. view'[e] = view[e] + 1
        BY <2>1, <2>5, <3>2 DEF ToldRight, Liveliness, c, x
      <4>2. /\ Coming(e, "matched") = 1 /\ Coming(e, "matched")' = 0
            /\ Coming(e, "unmatched")' = Coming(e, "unmatched")
        BY <2>3, <3>2 DEF Told
      <4> QED
        BY <2>4, <3>1, <4>1, <4>2 DEF Told
    <3>3. CASE e = x /\ c = "unmatched"
      <4>1. view'[e] = view[e] - 1
        BY <2>1, <2>4, <2>5, <3>3 DEF ToldRight, Liveliness, c, x
      <4>2. /\ Coming(e, "unmatched") = 1 /\ Coming(e, "unmatched")' = 0
            /\ Coming(e, "matched")' = Coming(e, "matched")
        BY <2>3, <3>3 DEF Told
      <4> QED
        BY <2>4, <3>1, <4>1, <4>2 DEF Told
    <3>4. CASE e # x \/ c \notin {"matched", "unmatched"}
      <4>1. view'[e] = view[e]
        BY <2>1, <2>4, <2>5, <3>4 DEF ToldRight, Liveliness, c, x
      <4>2. /\ Coming(e, "matched")' = Coming(e, "matched")
            /\ Coming(e, "unmatched")' = Coming(e, "unmatched")
        BY <2>3, <3>4 DEF Told
      <4> QED
        BY <3>1, <4>1, <4>2
    <3> QED
      BY <3>2, <3>3, <3>4
  <2>7. KnownOK'
    <3> SUFFICES ASSUME delegate["participantListenerDelegate"] # Nil,
                        NEW e \in Endpoints
                 PROVE  seen'[e] = Cardinality(Known(e))
                                   - Coming(e, "discovered")'
                                   + Coming(e, "removed")'
      BY <2>1 DEF KnownOK, Known, app, dds
    <3>1. seen[e] = Cardinality(Known(e))
                      - Coming(e, "discovered") + Coming(e, "removed")
      BY DEF VInv, KnownOK
    <3>2. CASE e = x /\ c = "discovered"
      <4>1. seen'[e] = seen[e] + 1
        BY <2>1, <2>5, <3>2 DEF ToldRight, Liveliness, c, x
      <4>2. /\ Coming(e, "discovered") = 1 /\ Coming(e, "discovered")' = 0
            /\ Coming(e, "removed")' = Coming(e, "removed")
        BY <2>3, <3>2 DEF Told
      <4> QED
        BY <2>4, <3>1, <4>1, <4>2 DEF Told
    <3>3. CASE e = x /\ c = "removed"
      <4>1. seen'[e] = seen[e] - 1
        BY <2>1, <2>4, <2>5, <3>3 DEF ToldRight, Liveliness, c, x
      <4>2. /\ Coming(e, "removed") = 1 /\ Coming(e, "removed")' = 0
            /\ Coming(e, "discovered")' = Coming(e, "discovered")
        BY <2>3, <3>3 DEF Told
      <4> QED
        BY <2>4, <3>1, <4>1, <4>2 DEF Told
    <3>4. CASE e # x \/ c \notin {"discovered", "removed"}
      <4>1. seen'[e] = seen[e]
        BY <2>1, <2>4, <2>5, <3>4 DEF ToldRight, Liveliness, c, x
      <4>2. /\ Coming(e, "discovered")' = Coming(e, "discovered")
            /\ Coming(e, "removed")' = Coming(e, "removed")
        BY <2>3, <3>4 DEF Told
      <4> QED
        BY <3>1, <4>1, <4>2
    <3> QED
      BY <3>2, <3>3, <3>4
  <2> QED
    BY <2>1, <2>2, <2>6, <2>7 DEF VInv, QuietBefore, app
<1> QED
  BY <1>1, <1>2, <1>3, <1>4, <1>5 DEF Closure

(* Every step of such a program keeps what is owed to the delegates.       *)
SInv == ~late => VInv

(* Every step keeps it: a late assignment ends the claim.                  *)
LEMMA StepSInv == NInv /\ SInv /\ [Next]_vars => SInv'
<1> SUFFICES ASSUME NInv, SInv, [Next]_vars, ~late' PROVE VInv'
  BY DEF SInv
<1>1. ~late
  <2>1. late \in BOOLEAN
    BY DEF NInv, TypeOK
  <2>2. ASSUME Program PROVE ~late
    BY <2>1, <2>2 DEF Program, BeginSet, EndSet, CreateParticipant,
                      DropDelegate, AddEndpoint, RemoveEndpoint, app
  <2>3. ASSUME NEW r \in Threads, Event(r) PROVE ~late
    BY <2>3 DEF Event, Match, Unmatch, ChangeLiveliness, MissLiveliness,
                Discover, Call, app
  <2>4. ASSUME NEW r \in Threads, Closure(r) PROVE ~late
    BY <2>4 DEF Closure, LoadNil, LoadTorn, Retain, Tell, Load, app
  <2> QED
    BY <2>2, <2>3, <2>4 DEF Next, vars, app
<1>2. VInv
  BY <1>1 DEF SInv
<1>3. ASSUME UNCHANGED vars PROVE VInv'
  BY <1>2, <1>3 DEF VInv, InOrder, InDiscovery, QuietBefore, MatchesOK, KnownOK,
                    Known, Coming, vars, dds, app, told
<1> QED
  BY <1>1, <1>2, <1>3, EventKeepsView, ProgramKeepsView, ClosureKeepsView
     DEF Next

(* So it holds of every program until it sets a delegate late.             *)
LEMMA SInvariance == Spec => []SInv
<1>1. Init => SInv
  BY InitVInv DEF SInv
<1> QED
  BY <1>1, StepSInv, NotificationsInvariance, PTL DEF Spec
-----------------------------------------------------------------------------
(* As long as no delegate is set while there is a participant no closure   *)
(* calls an object that is gone or torn, although the closures of          *)
(* FastRTPSSwift.swift load their delegate without a lock.                 *)
THEOREM DelegatesWhole == Spec => []WholeIfSetFirst
<1>1. NInv /\ SInv => WholeIfSetFirst
  BY DEF NInv, SInv, VInv, InOrder, OnlyRacedUndefined, NeverUndefined,
         WholeIfSetFirst
<1> QED
  BY <1>1, SInvariance, NotificationsInvariance, PTL

(* A closure goes wrong only with a delegate set late whose assignment its *)
(* load overlapped.                                                        *)
THEOREM LateRacesOnly == Spec => []OnlyLateRaces
<1>1. WholeIfSetFirst /\ OnlyRacedUndefined => OnlyLateRaces
  BY DEF OnlyLateRaces
<1> QED
  BY <1>1, DelegatesWhole, RacesOnly, PTL

(* n_matched of a listener is what Fast-DDS has; a delegate that is in     *)
(* place from the start counts the same, but for the one callback under    *)
(* way and for the matches that the removal of a reader or writer of this  *)
(* participant dropped, which it keeps counting.                           *)
THEOREM ViewsExact == Spec => []ViewExact
<1>1. NInv /\ SInv => ViewExact
  BY DEF NInv, CountsOK, SInv, VInv, MatchesOK, KnownOK, ViewExact
<1> QED
  BY <1>1, SInvariance, NotificationsInvariance, PTL

=============================================================================
