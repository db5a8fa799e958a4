---------------------------- MODULE Notifications ----------------------------
(***************************************************************************)
(* What the delegates of a FastRTPSSwift object are told: matches and      *)
(* liveliness of its readers and writers (listenerDelegate), and discovery *)
(* of the endpoints of others (participantListenerDelegate).  Both are told*)
(* a status and a topic; the status tells a reader from a writer, nothing  *)
(* identifies one remote endpoint of a topic (the type and the profile     *)
(* that discovery passes on may be those of many).                         *)
(*                                                                         *)
(* A thread of Fast-DDS runs the handler of a listener, which picks a      *)
(* status, and the closure of the container, which loads the delegate and  *)
(* calls it.  The program replaces a delegate with a plain assignment: a   *)
(* load that overlaps it may see the old value, the new one or a mixture   *)
(* of both, and a delegate that was loaded but not retained yet may be     *)
(* freed by the assignment.                                                *)
(***************************************************************************)
EXTENDS Integers, FiniteSets

CONSTANTS
  Topics,
  Remotes,         \* the readers and writers of other participants
  Offer,           \* Offer[p]: what p is, a reader or a writer of a topic
  Threads,         \* threads of Fast-DDS that run callbacks
  Delegates,       \* the objects that serve as delegates
  Nil,             \* no delegate
  MaxUntold        \* bounds the matches of one topic that removals drop

(* Readers and writers, by topic: this participant has at most one of each.*)
Endpoints == {"reader", "writer"} \X Topics

Peers(e) == {p \in Remotes : Offer[p][1] # e[1] /\ Offer[p][2] = e[2]}

ASSUME NotificationsAssumption ==
  /\ IsFiniteSet(Remotes) /\ Offer \in [Remotes -> Endpoints]
  /\ Nil \notin Delegates \cup Endpoints
  /\ MaxUntold \in Nat

VARIABLES
  inService,       \* is there a participant?
  registered,      \* the endpoints of this participant
  matched,         \* matched[e]: the peers Fast-DDS has matched with e
  known,           \* the remote endpoints Fast-DDS knows
  nMatched,        \* n_matched of the listener of e
  delegate,        \* the two stored properties of the Swift object
  storing,         \* the assignment under way: its property and new value
  owned,           \* the delegates the program itself holds
  job,             \* job[r]: the callback thread r executes
  late,            \* history: was a delegate set with a participant?
  raced,           \* history: threads whose load an assignment overlapped
  view, seen,      \* history: what the delegates can tell, see Learn
  untold           \* history: matches that ended without a callback

dds  == <<registered, matched, known, nMatched>>
app  == <<inService, delegate, storing, owned, late>>
told == <<view, seen, untold>>
vars == <<dds, app, job, raced, told>>
-----------------------------------------------------------------------------
Properties == {"listenerDelegate", "participantListenerDelegate"}

NoStore == [property |-> "none", new |-> Nil]
NoCount == [e \in Endpoints |-> 0]
NoJob   == [step |-> "none", property |-> "none", about |-> Nil,
            change |-> "none", status |-> "none", delegate |-> Nil]

\* Mutant of Held: the stored properties do not retain.
HeldUnowned(d) ==
  \/ d \in owned
  \/ \E r \in Threads : job[r].step = "call" /\ job[r].delegate = d

(* ARC: an object lives as long as somebody holds it.                      *)
Held(d) == \/ d \in owned
           \/ \E p \in Properties : delegate[p] = d
           \/ \E r \in Threads : job[r].step = "call" /\ job[r].delegate = d

Init ==
  /\ inService = FALSE
  /\ registered = {}
  /\ matched  = [e \in Endpoints |-> {}]
  /\ known    = {}
  /\ nMatched = NoCount
  /\ delegate = [p \in Properties |-> Nil]
  /\ storing  = NoStore
  /\ owned    = Delegates
  /\ job      = [r \in Threads |-> NoJob]
  /\ late     = FALSE
  /\ raced    = {}
  /\ view = NoCount /\ seen = NoCount /\ untold = NoCount
-----------------------------------------------------------------------------
(* The program, from one thread: setRTPSListener,                          *)
(* setRTPSParticipantListener, the creation of the participant, its readers*)
(* and writers, and the end of the program's own use of a delegate.        *)

(* A delegate that is set late cannot know what went before: the histories *)
(* of what the delegates can tell end here.                                *)
BeginSet(p, d) ==
  /\ storing = NoStore
  /\ d \in owned \cup {Nil}
  /\ storing' = [property |-> p, new |-> d]
  /\ late' = (late \/ inService)
  /\ raced' = raced \cup {r \in Threads : job[r].step = "loaded"
                                            /\ job[r].property = p}
  /\ IF inService
     THEN view' = NoCount /\ seen' = NoCount /\ untold' = NoCount
     ELSE UNCHANGED told
  /\ UNCHANGED <<inService, delegate, owned, dds, job>>

(* The value is in place, and the reference to the old one is given up.    *)
EndSet ==
  /\ storing # NoStore
  /\ delegate' = [delegate EXCEPT ![storing.property] = storing.new]
  /\ storing'  = NoStore
  /\ UNCHANGED <<inService, owned, late, dds, job, raced, told>>

CreateParticipant ==
  /\ ~inService /\ storing = NoStore
  /\ inService' = TRUE
  /\ UNCHANGED <<delegate, storing, owned, late, dds, job, raced, told>>

(* addReader or addWriter: a new listener counts from 0.                   *)
AddEndpoint(e) ==
  /\ inService /\ storing = NoStore /\ e \notin registered
  /\ registered' = registered \cup {e}
  /\ nMatched' = [nMatched EXCEPT ![e] = 0]
  /\ UNCHANGED <<matched, known, app, job, raced, told>>

(* removeReader, removeWriter or resignAll.  Fast-DDS waits for the        *)
(* callbacks of e and then drops its matches; nobody is told of their end. *)
RemoveEndpoint(e) ==
  /\ storing = NoStore /\ e \in registered
  /\ \A r \in Threads : ~(job[r].property = "listenerDelegate" /\ job[r].about = e)
  /\ late \/ untold[e] + Cardinality(matched[e]) <= MaxUntold
  /\ registered' = registered \ {e}
  /\ matched'  = [matched EXCEPT ![e] = {}]
  /\ nMatched' = [nMatched EXCEPT ![e] = 0]
  /\ untold' = IF late THEN untold
               ELSE [untold EXCEPT ![e] = @ + Cardinality(matched[e])]
  /\ UNCHANGED <<known, app, job, raced, view, seen>>

DropDelegate(d) ==
  /\ storing = NoStore /\ d \in owned
  /\ owned' = owned \ {d}
  /\ UNCHANGED <<inService, delegate, storing, late, dds, job, raced, told>>
-----------------------------------------------------------------------------
(* The handlers of the listeners: which status is told of which change.    *)

\* Mutant of onReaderMatched: both branches tell the same.
onReaderMatchedTwice == [matched   |-> "readerMatchedMatching",
                         unmatched |-> "readerMatchedMatching"]

onReaderMatched == [matched   |-> "readerMatchedMatching",
                    unmatched |-> "readerRemovedMatching"]

onWriterMatched == [matched   |-> "writerMatchedMatching",
                    unmatched |-> "writerRemovedMatching"]

(* Whatever changed, a gain included.                                      *)
on_liveliness_changed == [alive    |-> "readerLivelinessLost",
                          notAlive |-> "readerLivelinessLost"]

on_liveliness_lost == [notAlive |-> "writerLivelinessLost"]

onReaderDiscovery == [discovered |-> "discoveredReader",
                      changed    |-> "changedQosReader",
                      removed    |-> "removedReader",
                      ignored    |-> "ignoredReader"]

onWriterDiscovery == [discovered |-> "discoveredWriter",
                      changed    |-> "changedQosWriter",
                      removed    |-> "removedWriter",
                      ignored    |-> "ignoredWriter"]

Call(r, property, about, change, handler) ==
  /\ inService /\ job[r] = NoJob
  /\ job' = [job EXCEPT ![r] =
       [step |-> "load", property |-> property, about |-> about,
        change |-> change, status |-> handler[change], delegate |-> Nil]]
  /\ raced' = raced \ {r}
  /\ UNCHANGED <<app, told>>

(* Matching and discovery happen under one lock; the liveliness of an      *)
(* endpoint changes under a lock of that endpoint.                         *)
Liveliness == {"alive", "notAlive"}
DiscoveryFree == \A r \in Threads : job[r].change \in Liveliness \cup {"none"}
LivelinessFree(e) ==
  \A r \in Threads : job[r].change \in Liveliness => job[r].about # e

OnMatched(e) == IF e[1] = "reader" THEN onReaderMatched ELSE onWriterMatched

Match(r, e, p) ==
  /\ DiscoveryFree /\ e \in registered /\ p \in known \ matched[e]
  /\ matched'  = [matched EXCEPT ![e] = @ \cup {p}]
  /\ nMatched' = [nMatched EXCEPT ![e] = @ + 1]
  /\ Call(r, "listenerDelegate", e, "matched", OnMatched(e))
  /\ UNCHANGED <<registered, known>>

Unmatch(r, e, p) ==
  /\ DiscoveryFree /\ p \in matched[e]
  /\ matched'  = [matched EXCEPT ![e] = @ \ {p}]
  /\ nMatched' = [nMatched EXCEPT ![e] = @ - 1]
  /\ Call(r, "listenerDelegate", e, "unmatched", OnMatched(e))
  /\ UNCHANGED <<registered, known>>

(* Some writer matched with a reader gains or loses its liveliness.        *)
ChangeLiveliness(r, e, change) ==
  /\ e[1] = "reader" /\ e \in registered /\ LivelinessFree(e)
  /\ Call(r, "listenerDelegate", e, change, on_liveliness_changed)
  /\ UNCHANGED dds

(* A writer of this participant did not assert its own liveliness.         *)
MissLiveliness(r, e) ==
  /\ e[1] = "writer" /\ e \in registered /\ LivelinessFree(e)
  /\ Call(r, "listenerDelegate", e, "notAlive", on_liveliness_lost)
  /\ UNCHANGED dds

(* A remote endpoint is discovered, changes its QoS, goes or is ignored.   *)
Discover(r, p, change) ==
  /\ DiscoveryFree
  /\ change \in IF p \in known THEN {"changed", "removed"}
                               ELSE {"discovered", "ignored"}
  /\ known' = CASE change = "discovered" -> known \cup {p}
                [] change = "removed"    -> known \ {p}
                [] OTHER                 -> known
  /\ Call(r, "participantListenerDelegate", Offer[p], change,
          IF Offer[p][1] = "reader" THEN onReaderDiscovery ELSE onWriterDiscovery)
  /\ UNCHANGED <<registered, matched, nMatched>>
-----------------------------------------------------------------------------
(* The closures of the container.                                          *)

\* Mutant of LoadNil: the closure goes on without a delegate.
LoadNilGoesOn(r) ==
  /\ job[r].step = "load"
  /\ delegate[job[r].property] = Nil
  /\ job' = [job EXCEPT ![r].step = "call"]
  /\ UNCHANGED <<app, dds, raced, told>>

(* No delegate: the closure returns and nobody is told.                    *)
LoadNil(r) ==
  /\ job[r].step = "load"
  /\ \/ delegate[job[r].property] = Nil
     \/ storing.property = job[r].property /\ storing.new = Nil
  /\ job' = [job EXCEPT ![r] = NoJob]
  /\ UNCHANGED <<app, dds, raced, told>>

(* The delegate is loaded; it is not retained yet.                         *)
Load(r, d) ==
  /\ job[r].step = "load"
  /\ \/ delegate[job[r].property] = d
     \/ storing.property = job[r].property /\ storing.new = d
  /\ job' = [job EXCEPT ![r].step = "loaded", ![r].delegate = d]
  /\ raced' = IF storing.property = job[r].property THEN raced \cup {r}
                                                    ELSE raced
  /\ UNCHANGED <<app, dds, told>>

(* A load in the middle of an assignment: half of each value.              *)
LoadTorn(r) ==
  /\ job[r].step = "load"
  /\ storing.property = job[r].property
  /\ job' = [job EXCEPT ![r].step = "undefined"]
  /\ raced' = raced \cup {r}
  /\ UNCHANGED <<app, dds, told>>

Retain(r) ==
  /\ job[r].step = "loaded"
  /\ job' = [job EXCEPT ![r].step = IF Held(job[r].delegate) THEN "call"
                                                             ELSE "undefined"]
  /\ UNCHANGED <<app, dds, raced, told>>

(* What a delegate can tell from the statuses of a topic, counting: how    *)
(* many matches its reader or writer has, and how many readers or writers  *)
(* of others there are.  Kept for delegates that were set first.           *)
Up   == {"readerMatchedMatching", "writerMatchedMatching",
         "discoveredReader", "discoveredWriter"}
Down == {"readerRemovedMatching", "writerRemovedMatching",
         "removedReader", "removedWriter"}
Step(status) == IF status \in Up THEN 1 ELSE IF status \in Down THEN -1 ELSE 0

Learn(property, status, about) ==
  /\ view' = IF property # "listenerDelegate" THEN view
             ELSE [view EXCEPT ![about] = @ + Step(status)]
  /\ seen' = IF property # "participantListenerDelegate" THEN seen
             ELSE [seen EXCEPT ![about] = @ + Step(status)]
  /\ UNCHANGED untold

(* The delegate's method runs and returns; the callback is over.           *)
Tell(r) ==
  /\ job[r].step = "call"
  /\ IF late THEN UNCHANGED told
     ELSE Learn(job[r].property, job[r].status, job[r].about)
  /\ job' = [job EXCEPT ![r] = NoJob]
  /\ UNCHANGED <<app, dds, raced>>
-----------------------------------------------------------------------------
Program ==
  \/ \E p \in Properties : \E d \in Delegates \cup {Nil} : BeginSet(p, d)
  \/ EndSet \/ CreateParticipant
  \/ \E e \in Endpoints : AddEndpoint(e) \/ RemoveEndpoint(e)
  \/ \E d \in Delegates : DropDelegate(d)

Event(r) ==
  \/ \E e \in Endpoints :
       \/ \E p \in Peers(e) : Match(r, e, p) \/ Unmatch(r, e, p)
       \/ \E change \in Liveliness : ChangeLiveliness(r, e, change)
       \/ MissLiveliness(r, e)
  \/ \E p \in Remotes :
       \E change \in {"discovered", "changed", "removed", "ignored"} :
         Discover(r, p, change)

Closure(r) ==
  \/ LoadNil(r) \/ LoadTorn(r) \/ Retain(r) \/ Tell(r)
  \/ \E d \in Delegates : Load(r, d)

Next == Program \/ \E r \in Threads : Event(r) \/ Closure(r)

Spec == Init /\ [][Next]_vars
-----------------------------------------------------------------------------
Changes == {"matched", "unmatched", "discovered", "changed", "removed",
            "ignored"} \cup Liveliness

Statuses == {"readerMatchedMatching", "readerRemovedMatching",
             "readerLivelinessLost", "writerMatchedMatching",
             "writerRemovedMatching", "writerLivelinessLost",
             "discoveredReader", "changedQosReader", "removedReader",
             "ignoredReader", "discoveredWriter", "changedQosWriter",
             "removedWriter", "ignoredWriter"}

Jobs == [step : {"none", "load", "loaded", "call", "undefined"},
         property : Properties \cup {"none"},
         about : Endpoints \cup {Nil},
         change : Changes \cup {"none"},
         status : Statuses \cup {"none"},
         delegate : Delegates \cup {Nil}]

TypeOK ==
  /\ inService \in BOOLEAN
  /\ registered \in SUBSET Endpoints
  /\ matched \in [Endpoints -> SUBSET Remotes]
  /\ known \in SUBSET Remotes
  /\ nMatched \in [Endpoints -> Int]
  /\ delegate \in [Properties -> Delegates \cup {Nil}]
  /\ storing \in [property : Properties \cup {"none"},
                  new : Delegates \cup {Nil}]
  /\ owned \in SUBSET Delegates
  /\ late \in BOOLEAN
  /\ job \in [Threads -> Jobs]
  /\ \A r \in Threads :
       job[r].step \in {"loaded", "call"} => job[r].delegate # Nil
  /\ raced \in SUBSET Threads
  /\ view \in [Endpoints -> Int] /\ seen \in [Endpoints -> Int]
  /\ untold \in [Endpoints -> Nat]

(* A closure calls an object that is there and whole, although it loads    *)
(* the delegate without a lock ...                                         *)
NeverUndefined == \A r \in Threads : job[r].step # "undefined"

(* ... as long as the program has set no delegate while there was a        *)
(* participant; it may drop its own reference at any time.                 *)
WholeIfSetFirst == ~late => NeverUndefined

(* In any program, only a load that overlaps an assignment can go wrong:   *)
(* the property holds the delegate until then, the call afterwards.        *)
OnlyRacedUndefined ==
  \A r \in Threads : job[r].step = "undefined" => r \in raced

(* So both must come together before a closure goes wrong: a delegate set  *)
(* while there is a participant, and a load that this assignment overlaps. *)
(* Neither reassigning nor dropping a delegate does harm alone.            *)
OnlyLateRaces == WholeIfSetFirst /\ OnlyRacedUndefined

(* A callback about it has yet to be told.                                 *)
Coming(e, change) ==
  IF \E r \in Threads : job[r].about = e /\ job[r].change = change THEN 1 ELSE 0

Known(e) == {p \in known : Offer[p] = e}

(* A delegate that is in place from the start, and knows of no endpoint but*)
(* what a status and a topic say, can count: of the readers and writers of *)
(* others it has heard of all but the one a callback is about to tell.  Of *)
(* the matches of its own topics too; but those that were dropped when a   *)
(* reader or writer of this participant was removed are told by nobody, it *)
(* counts them for good (BridgedParticipant.cpp:61, 225, 321), while       *)
(* n_matched starts again with the next listener and stays exact.          *)
ViewExact ==
  /\ \A e \in Endpoints : nMatched[e] = Cardinality(matched[e])
  /\ ~late /\ delegate["listenerDelegate"] # Nil =>
       \A e \in Endpoints :
         view[e] = Cardinality(matched[e]) + untold[e]
                     - Coming(e, "matched") + Coming(e, "unmatched")
  /\ ~late /\ delegate["participantListenerDelegate"] # Nil =>
       \A e \in Endpoints :
         seen[e] = Cardinality(Known(e))
                     - Coming(e, "discovered") + Coming(e, "removed")

=============================================================================
