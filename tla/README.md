# FastRTPSSwift in TLA+

FastRTPSSwift lets a Swift program use eProsima Fast-DDS at the RTPS level.  It
is small (about 1700 lines under `src/Sources`), and nearly everything that can
go wrong in it is about *ownership across a language border while other threads
call back*: Swift lends references to C++, C++ lends listeners to Fast-DDS,
Fast-DDS calls them on its own threads, and removals have to unwind all of it in
the right order.  These modules model that; wording, quality-of-service fields
and payloads are left out.

Paths below are relative to `src/Sources`; `BP` is
`FastRTPSWrapper/BridgedParticipant.cpp`.

## 1. Inventory

| Component | State | Operations | Correct when |
|---|---|---|---|
| Readers (`BP` 56-66, 134-233, `BridgedReaderListener.cpp`) | `readerList`: topic -> `ReaderInfo` (reader, history, listener); the proxy the listener holds | `addReader`, `removeReader`, reader loop of `resignAll`, `stopAll`, `onNewCacheChangeAdded` | no callback on a freed listener or a released proxy; each proxy back once, each listener deleted once; nothing owned by nobody |
| Writers (`BP` 67-75, 235-379, `BridgedWriterListener.cpp`) | `writerList`; `n_matched`; the writer's history | `addWriter`, `removeWriter`, writer loop of `resignAll`, `stopAll`, `send`, `onWriterMatched`, `on_liveliness_lost` | the same for listeners; `n_matched` exact; history bounded and ending in the latest sample; samples under the instance of their key |
| Participant life cycle (`BP` 29-53, 77-131, `FastRTPSWrapper.cpp`, `FastRTPSSwift.swift`) | `mp_participant`, `mp_listener`, the Swift object | construction, `createParticipant`, `removeParticipant`, destructor, `stopAll`, end of the Swift object | listener and Swift object outlive the callbacks; no dangling pointer used; a removal ends and is complete, and what a refused one leaves is known |
| Participant discovery (`BridgedParticipantListener.cpp` 89-130, `FastRTPSSwift.swift` 82-107) | a C array of strings, for one notification | `onParticipantDiscovery`, the closure that reads the array | the delegate's dictionary is the remote properties; the copies are freed |
| Endpoint discovery (`BridgedParticipantListener.cpp` 17-87) | none | `onReaderDiscovery`, `onWriterDiscovery` | each change reaches the delegate with its status |
| Notifications and delegates (`FastRTPSSwift.swift` 55-58, 77-136, 214-227, both listeners) | two delegate references, `n_matched` | match and liveliness handlers, the closures of the `BridgeContainer`, `setRTPSListener`, `setRTPSParticipantListener` | a delegate is called whole and alive; it hears of each change once, in order, with the status that occurred, but for the matches its own removals end |
| Decoder proxies (`PayloadDecoderProxy.swift`, `FastRTPSSwift.swift` 64-75, 238-247) | one retained reference per reader | `decode`, `release` | used only while retained |
| Keyed send (`FastRTPSSwift.swift` 311-320, `BP` 349-358) | the buffers Swift lends for one call | encode, three arguments, instance handle, copy | the sample carries what was given, and keys share an instance only by padding or by the digest |
| C interface (`FastRTPSWrapper.cpp`) | none | casts and calls; `removeRTPSParticipant` resigns, then deletes | |
| Logging (`FastRTPSWrapper.cpp` 59-74, `CustomLogConsumer.cpp`) | the consumers, verbosity and queue of Fast-DDS's log, one for the process | `setRTPSLoglevel`, `Consume` | no entry lost, none printed twice, the level asked for last |
| Topic protocols, enum wording, version selection | none | declarations | |

How they interact.  Calls go down: `FastRTPSSwift` -> C interface ->
`BridgedParticipant` -> Fast-DDS.  Callbacks come up on threads of Fast-DDS:
listener -> closure of the `BridgeContainer` (a struct of C function pointers
and the *unretained* address of the Swift object, copied into every listener) ->
application block or delegate.  The two directions share the listeners, the
proxies, the histories and `n_matched`.  The package has no lock of its own.

What is hard: callbacks running while their owner is removed; two removal paths
(`removeReader`, `resignAll`) that give back in different orders; registrations
that fail half way, on three paths; answers of Fast-DDS that are not looked at;
several threads sending through one history; a destructor that repeats what its
caller did; an array loop with an unusual end test; addresses used after the
block that vouches for them; a log that is reconfigured in four steps while
others write to it.  `PROJECT.json` lists these hazards one by one, with the line
and the property that covers each.

## 2. Modules

| Module | Role |
|---|---|
| `LendingContract` | abstract: what one side relies on when it lends an object that calls come back through |
| `BridgedReaders` | the reader half; implements `LendingContract` for the proxies |
| `BridgedWriters` | the writer half, with `send` and the match callbacks; implements `LendingContract` for its listeners |
| `ParticipantLifecycle` | creation to removal, over endpoints seen from outside; implements `LendingContract` for its listeners |
| `BridgedParticipant` | the three composed; implements `ParticipantLifecycle`, and `LendingContract` for the proxies |
| `ParticipantDiscovery` | one notification, through the C array and back |
| `Notifications` | matches, liveliness and endpoint discovery, told to delegates |
| `KeyedSend` | the buffers and the instance handle of a keyed send |
| `Logging` | `setRTPSLoglevel` beside the threads that log |
| `MC...` | the constants of the small instances |
| `...Proofs` | theorems about the module named |

### LendingContract and BridgedReaders

Two kinds of objects are lent through bare addresses: Swift lends its proxies to
C++, C++ its listeners to Fast-DDS.  `LendingContract` says of each: lent once
(`Unmanaged.passRetained`, `new`), entered and left by callbacks one at a time,
returned once (`releaseCallback`, `delete`) and never under its own callback.
`Excuse` and `Break` are for a removal that was refused and not looked at: from
there on anything may happen to that object, and still to no other.

In `BridgedReaders` the proxy of a registration names all that registration
allocates: `proxy[d]` is the reference Swift lent, `listener[d]` the
`BridgedReaderListener` and its `ReaderHistory` (they are deleted together),
`reader[d]` the `RTPSReader`, and `readerList[t] = d` the map entry.  `call` is
the program counter of the API call under way; a call is cut into steps where
Fast-DDS or a callback can act in between, and keeps the order of the code:
`removeReader` removes, erases and deletes, then releases (`BP` 225-231);
`resignAll` removes, releases, then deletes, and clears the map at the end
(`BP` 56-66).  All error paths are there: duplicate topic, `createRTPSReader`
answering null, `registerReader` answering false (the path that does not release
the proxy), a refused removal that is looked at (`removeReader`) or not
(`resignAll` and the roll back).  `cb[r]` is the callback receiver thread `r`
executes: in the block (`decode`) or past it (`drop`).

`ignored` and `leaked` are history variables.  They remember the readers that
went through the two doubtful paths, so that the invariants say exactly how far
the damage can go instead of excluding those paths.

### BridgedWriters

`info[w]`, `writer[w]`, `writerList[t]`, `call` and `todo` mirror the readers.
`send` is a process per sending thread (`snd[s]`): look-up and test of
`n_matched`, `getHistorySize`, `remove_all_changes`, `new_change` with its second
attempt, `add_change` - each a step of its own, for Fast-DDS locks the history
only within an operation.  `StoreThroughNull` is the end of a send whose two
attempts both answered null: the code stores through that pointer.
`disc` is the match or liveliness callback under way; `onWriterMatched` counts
first and notifies then.

### ParticipantLifecycle

`participant[a]` and `listener[a]` belong to the `a`-th call of
`createParticipant`; `mp_participant` and `mp_listener` are the two fields.
`step` is the place of the application thread: creation (the listener is
allocated first, and discovery may call it before the pointer is stored), the
two passes of `resignAll` in a removal (in `removeRTPSParticipant`, then in the
destructor), `removeRTPSParticipant`, and `delete mp_listener`.  Endpoints only
have an owner here, since what they own in turn is the subject of the other two
modules.  `Lost` are the participants that run and that no pointer leads to: a
second `createParticipant` makes one, and `LostOnlyByCreating` says nothing else
does.  The destructor does not look at the answer of
`RTPSDomain::removeRTPSParticipant` (`BP` 46): after `ParticipantNotRemoved` it
deletes the listener of a participant that is live, which the history variable
`ignored` remembers, and discovery may enter the freed listener from there on.
The Swift object has no `deinit`; `Drop` frees it and nothing else, and with
`DropEarly` also while it has a participant (`DroppedEarly`).

### BridgedParticipant

Two instances, `R` of `BridgedReaders` and `W` of `BridgedWriters`, each with
variables of its own (`readerCall`, `writerCall`, ...), and the variables of the
life cycle, whose `step` is here `phase`.  The actions are those of the parts,
put together as the code does: `ResignAll` starts the loop over the readers,
`ReadersResigned` ends it and starts the one over the writers, `WritersResigned`
ends that and lets the caller - the API, `removeRTPSParticipant` or the
destructor - go on; `StopAll` strikes all three.  `Free` is the discipline of
section 3: a call starts when no other is under way.  With
`ParticipantRemovalMayFail` the removal of the participant may be refused here
too.

`ParticipantLifecycle` is instantiated once more, as `L`, under a refinement
mapping: an endpoint is a reader or a writer under a topic; it has the owner
`mp_participant` exactly while the entry of the map is a reader or writer in
place inside Fast-DDS (`InPlace`), and what a thread runs (`Running`) is the
topic under which the proxy or writer of the callback is entered.  So the
mapping also checks that a callback only ever runs for something the map knows.
`ImplementsLifecycle` is `L!Spec`.

### ParticipantDiscovery

The initial states are all notifications up to the bound; the run of
`onParticipantDiscovery` on each is deterministic.  The model follows the C
array cell by cell, one step for each turn of a loop: the copies of key and
value, the terminating null, the reading by the Swift closure in pairs up to the
first null key, and `do free(p[i--]) while (i != 0)`.

### Notifications

`registered` are the readers and writers of this participant, by kind and topic
(`AddEndpoint`, `RemoveEndpoint`), `matched` their peers, `known` the remote
endpoints, `nMatched` the counts the listeners keep.  An event of Fast-DDS
changes them and starts a callback `job[r]` on a thread: the handler picks the
status (each handler is the function from a change to the status it tells), the
closure loads the delegate (`LoadNil`, `Load`, one step that all closures
share), retains it (`Retain`) and calls it (`Tell`).  `delegate[p]` are the two
stored properties; setting one is two steps (`BeginSet`, `EndSet`), for neither
the assignment nor the load is atomic.  In between, a load may see the old
value, the new one or a mixture (`LoadTorn`); an object nobody holds any more
(`Held`) is gone when `Retain` comes to it.  `DropDelegate` lets the program
give up its own reference, so that the stored property may be the last one.

A delegate is told a status and a topic and never which remote endpoint it is
about, so all it can do is count.  `view` and `seen` are such counts (`Learn`),
history variables like `raced` (the threads whose load an assignment
overlapped) and `late` (whether a delegate was set while there was a
participant).  The removal of a reader or writer of this participant ends its
matches without a callback; `untold` counts those, and `ViewExact` says that a
delegate in place from the start is off by exactly them and by the callback
under way.  Notifications of *participants* go through the same property; their
handler is the subject of `ParticipantDiscovery`.

### KeyedSend

`send(topic:ddsData:)` lets two addresses out of `withUnsafeBytes` and hands them
to C++: that of the encoded data and that of `ddsData.key`, a value that exists
for this one access (the key is asked for again, for its length).  `memory` and
`owner` are the heap, `snd[s]` where the call is - the arguments in their order,
then `BridgedParticipant::send` up to the copy.  `FreeEarly` is the freedom the
language leaves the compiler: a buffer whose last use Swift can see is past may
be freed at any time; the model then lets any send allocate it.  `samples` keeps
what was handed to `add_change` together with what was meant, and whether a
buffer was allocated again before it was read.  `InstanceOf` is the handle,
plain bytes in each case: zeros without a key (the default of `new_change`,
`BP` 366), the key padded with zeros (357), or the digest of a long key (355).
`MD5` is a constant, any function from long keys to handles, so digests may
collide with each other and with short keys.

### Logging

The four calls of `setRTPSLoglevel` (clear the consumers, register one, set the
verbosity) are steps, since the log of Fast-DDS belongs to the process and its
own thread consumes entries in between.  `custom` counts the
`CustomLogConsumer`s, `lines` how often the last entry was printed; `level` and
`overlapped` are history variables.

## 3. Assumptions

- **One changing call at a time.**  `readerList` and `writerList` are plain
  `std::map`s.  Calls that change them exclude each other and, for the writers,
  the sends; sends overlap each other (`ApiExclusive`, `Free`).  No document of
  the package states another discipline, and without this one every call is a
  data race.
- **Fast-DDS** (not under `src`, modelled from its use here): a removal returns
  true after the callbacks of the reader, writer or participant are over and
  calls it no more, or returns false and changes nothing.  Callbacks of one
  reader are serial, and so are those of discovery.  Operations on a history are
  atomic.  `new_change` may answer null.  The operations of its log are atomic,
  and a consumer gets an entry if it is registered when the entry is consumed.
- **Callbacks call nothing back**: the block of a reader or a delegate does not
  call the API.  Whether such a call blocks for ever depends on locks of
  Fast-DDS that these sources do not show.
- **Life cycle**: the program does not use the object after `removeParticipant`,
  `stopAll` or its end.  `CreateAgain`, `DropEarly` and `RemovalMayFail` say
  whether the program may create a participant over another one or drop the
  object while it has one, and whether Fast-DDS may refuse to remove one; the
  theorems are about every mixture, and say what each of the three can lead to.
  In `BridgedParticipant` the removal of the participant may be refused as well,
  but the program neither creates over a participant nor drops it, and Fast-DDS
  refuses no removal of a reader or writer: these three are in the modules of
  the parts.
- **Notifications**: matching and endpoint discovery happen under one lock of
  Fast-DDS, callbacks included; the liveliness of an endpoint changes under a
  lock of that endpoint.  Delegates are set by one thread, at any time: what is
  claimed only of programs that set them first says so (`~late`).  Removals of
  own readers and writers are not refused there.
- **Keyed send**: freed memory keeps its bytes until it is allocated again.

## 4. Runs

`CHECK_DEADLOCK FALSE` except for the two of `Notifications`: a model stops when
its supply of registrations, sends or attempts is used up, after `stopAll`, after
a removal, or at the end of a notification - as the program does.

| Run | Instance | States | Shows |
|---|---|---|---|
| `readers` | 2 topics, 3 registrations, 2 receivers, removals may be refused | 73,356 | `MemorySafe`, `Books`, `KeepsContract`, `CallsAdvance`, `EveryCallReturns` |
| `readers_orderly_stop` | as `readers`, no removal refused | | *violated*: the proxy of a failed registration is out of reach |
| `writers` | 2 topics, 2 registrations, 2 remote readers, 2 senders, 4 samples, refusals, failing allocations; symmetric | 710,775 | `MemorySafe`, `IdleBooks`, `CountExact`, `HistoryBounded`, `LatestKept`, `OnlyOthersCleaned`, `KeepsContract`, `CallsAdvance` |
| `lifecycle` | 3 attempts, 2 endpoints, 2 threads; creating again, dropping early and refused removals allowed | 21,753 | `NothingDangles`, `OnlyFailedLeft`, `LostOnlyByCreating`, `KeepsContract`, `RemovalEnds` |
| `lifecycle_again` | the same, of the three only creating again allowed | | *violated*: the first participant survives `removeParticipant` |
| `participant` | 2 topics, 2 registrations of readers, 1 of writers, 1 receiver, 1 remote reader, 1 sender, 1 attempt, its removal may be refused | 94,341 | `ImplementsLifecycle`, `KeepsContract`, `UsersServed`, `NothingLeft`, `RemovalReturns` |
| `discovery` | up to 4 properties over 2 keys and 2 values | 12,519 | `ReadsInside`, `DictionaryFaithful`, `FreeLoopExact` |
| `notifications` | 1 topic, its reader and writer added and removed at any time, 1 remote reader, 2 remote writers, 2 threads, 1 delegate for two properties, set at any time, at most 2 untold matches; symmetric | 1,787,315 | `OnlyLateRaces`, `ViewExact` |
| `delegates_set` | the same, no untold matches | | *violated*: a load in the middle of an assignment |
| `keyed` | 2 senders, 2 sends, 7 keys, 4 buffers of 3 bytes, handles of 2, colliding digests; symmetric | 901,086 | `WrongOnlyIfReused`, `InstancesTold` |
| `keyed_freed` | the same | | *violated*: a sample with the bytes of its key as data |
| `logging` | 3 callers, 4 calls, 3 entries; symmetric | 267,599 | `LostOnlyBetween`, `DoubledOnlyByOverlap`, `LevelSet` |

Every run that passes checks the type invariant of its module too, `participant`
apart, which has the modules of its parts for that.  Some invariants join two of
one subject: `MemorySafe` is `CallbackSafe` and `FreedOnce`, `Books` is
`IdleBooks` and `StoppedBooks`, `NothingDangles` is `CallbackSafe` and
`PointerLive`, `OnlyLateRaces` is `WholeIfSetFirst` and `OnlyRacedUndefined`,
`FreeLoopExact` is `FirstKeyLeft` and `OutsideOnlyWhenEmpty`.

Why the bounds are enough.  Three registrations over two topics give: two
readers at once (so a loop of `resignAll` has a visited and an unvisited entry),
a duplicate, and a second registration after a removal or a failure.  Two
receivers let two readers call back at once, and a removal wait for one while
the other goes on.  Two remote readers let a match and a removal of a match
concern different readers.  Two senders with four samples let each send twice,
so that a drop can hit the other's sample, an own old one, both, or none.  Three
attempts give a failure before a success, a success over a success, and a failure
over either; a refused removal may follow each of them.  In the
composition two readers and a writer let both loops of `resignAll` have work and
one of them a visited entry; more of each is the matter of the parts, whose runs
are larger.  Four properties over two keys include a key met twice with another
between; 0 and 1 are the two edges of the free loop.  A delegate and the null
reference, in two properties, and two threads let a callback load one value
while it is replaced by the other, and a second callback load either; two remote
writers let a reader's counts reach 2 and come down by halves, and two untold
matches let one removal drop both, or two removals one each (`MaxUntold` bounds
them only as long as they are counted).  Handles of two bytes stand for those of
16: the keys are none, one of zeros, one shorter than a handle, the same with
one zero behind (as long as a handle) and with two (longer), and two for the
digest, which collides on purpose: one more long key shares the digest of that
long one, and a short key is that digest.  Four buffers are as many as two sends
hold at once.  Three callers let a call overlap two
others that do not overlap each other, and a fourth call follow them all.

Fairness.  `SF_vars(Continue)`, in `BridgedReaders`, `ParticipantLifecycle` and
`BridgedParticipant`: a call that was entered goes on.  Strong fairness is
needed where it waits for the callbacks of a reader, a writer or of discovery,
since new ones may keep arriving; it is justified because Fast-DDS detaches an
endpoint from its receivers (and disables discovery) before it waits for the
callback that is running.  `WF_vars` of the return of each callback: the
application's block and delegates terminate.  Nothing obliges the program to
begin a call, or a sample to arrive.

## 5. Findings

1. When `registerReader` fails, `addReader` does not call `releaseCallback`
   (`BP` 206-211), unlike its other two error paths; the proxy is out of reach
   even for a program that removes all readers before `stopAll`, which "may be
   called at the end of the process to avoid memory leaks"
   (`FastRTPSSwift/FastRTPSSwift.swift:327`).  Run `readers_orderly_stop`;
   `IdleBooks` and `StoppedBooks`, and their theorems, show that it is the only
   such path.
2. A second `createParticipant` overwrites both pointers (`BP` 126-127); the
   first participant then survives `removeParticipant`, documented as "Remove all
   readers/writers and then remove participant"
   (`FastRTPSSwift/FastRTPSSwift.swift:332`).  Run `lifecycle_again`.
   `LosingIsCreating` and `RemovalLeavesNone` say that it takes this, or a
   removal that Fast-DDS refuses, and nothing else: without either no participant
   is left.
3. The delegates are replaced by a plain assignment
   (`FastRTPSSwift/FastRTPSSwift.swift:218, 226`) and loaded on other threads;
   the package's own tests set one after `createParticipant`
   (`src/Tests/FastRTPSSwiftTests/FastRTPSSwiftTests.swift:24-25`).  Run
   `delegates_set`; `OnlyRacedUndefined` and its theorem say that nothing but
   such an overlap is needed, or can do harm, and `WholeIfSetFirst` that a
   program which sets its delegates first is safe.
4. The keyed send uses addresses after the block that vouches for them
   (`FastRTPSSwift/FastRTPSSwift.swift:314, 316`).  Swift sees no use of the
   data's buffer after its address was taken, so it may be freed then and given
   to the value of `ddsData.key` in the next argument, or to another thread.  Run
   `keyed_freed` shows the first: a sample whose data are the bytes of its key.
   `WrongOnlyIfReused` and its theorem say that nothing else makes a sample
   differ from the "data to be send" (309).

Facts that need no run.  `stopAll` only calls `RTPSDomain::stopAll` (`BP`
50-53): what this object still has in its maps stays allocated.
`on_liveliness_changed` tells `RTPSStatusReaderLivelinessLost` whatever changed,
a gain included (`FastRTPSWrapper/BridgedReaderListener.cpp:42`); the package
sets no lease duration for liveliness, so whether Fast-DDS calls the handler at
all is decided by its defaults.

Invariants also pin down behaviour that no document speaks of: `FirstKeyLeft`
(the copy of the first key is never freed, for the loop stops at index 0),
`OutsideOnlyWhenEmpty` (a participant without properties, and only that, makes
the loop leave the array), `OnlyFailedLeft` (a failed `createParticipant` leaves
its listener, and a refused `removeRTPSParticipant` its participant, without its
listener), `ViewExact` (a delegate that counts matches keeps those that end with
the removal of its own reader or writer), `OnlyOthersCleaned` (where "the history is full" and old changes
are taken out, `BP` 360 and 367, there is only what other threads added since:
with one sending thread there is nothing to take out, and the second answer of
`new_change` is used without a look), `InstancesTold` (a short key and the same
key with zeros behind it are one instance, and so are a key of zeros and no key
at all), `DoubledOnlyByOverlap` (two threads
that set the log level at once may leave two consumers, and every line twice).

## 6. Proofs

All theorems hold for every value of the constants, under the named assumption
of the module.

**Readers** (`BridgedReadersProofs`).  None of `CallbackSafe`, `FreedOnce`,
`IdleBooks` is inductive: they say nothing of the middle of a call.  `IInv` adds
what each registration owns at each step - the one the call works on
(`CurrentOK`) and all others (`OthersOK`, where an entry the loop has visited is
finished although it is still in the map) - that no two topics share a
registration (`OwnersDistinct`), and that a callback runs only on a reader in
place (`CbOK`).  From it: `TypeCorrect`, `CallbackSafety`, `ReleaseAndDeleteOnce`,
`BooksBalanced` and, with the state after `stopAll`, `StoppedBooksBalanced`
(together `MemorySafety` and `BooksKept`); and
`ContractKept`, the refinement of `LendingContract`, whose steps are matched one
by one.  It assumes nothing of what Fast-DDS refuses: the ignored refusals are the excused
objects of the contract, and `NoneExcused` says that without a refusal there is
none.  `EveryCallAdvances` shows that every step of a call takes an entry off
`todo` or lowers `Rank`, so none of its paths goes round.

**Writers** (`BridgedWritersProofs`).  The same argument for ownership
(`OwnInv`), with `ListenersContract` and `EveryCallAdvances`, and two more.  `HistInv`: a history holds at most one sample of each
sender, none of a sender that is past its drop, and ends in the newest sample
unless a sender is past its drop; `HistoryWithinSenders` follows by the
pigeonhole principle, `LatestSampleKept` and `OthersCleaned` directly.
`CountInv`: `n_matched` plus what the pending callback still owes is the number
of matched readers, hence `MatchesCounted`.

**Life cycle** (`ParticipantLifecycleProofs`).  `LInv` ties pointer, participant
and listener together at every step of creation and removal: `Pointers`,
`Listeners`, `Endings`, and `NoneLost` for a program that creates none over
another.  The first three hold of every program, lost and refused participants
included: a lost one keeps the listener it was created with, and a refused one
is the one `mp_participant` named when the destructor ran, after which the
object is used no more.  From it `LifecycleTyped`, `DiscoveryCallbackSafety` and
`ParticipantPointerLive` (together `NoneDangling`) and `RemovalComplete`;
`LosingIsCreating`, an action property; from `NoneLost` `NothingLost` and, if
Fast-DDS refuses no removal, `RemovalLeavesNone`; `EveryRemovalAdvances`; and
`ListenerContract`, the refinement of `LendingContract` in which only the
listener of a participant that was not removed is excused, for which it is
needed that discovery runs one callback of a participant at a time.

**Composition** (`BridgedParticipantProofs`).  `ReadersStep` and `WritersStep`:
each step of the whole is one of either half or leaves it alone, so the
inductive invariants of both halves hold in the whole (`HalvesInv`), and with
them the contract on proxies (`WholeKeepsContract`).  `Phases` adds what the
calls of the three parts may be doing at the same time: an addition or removal
only with a participant and an idle life cycle, the loops of `resignAll` one
after the other and inside one of its three callers, empty maps from the end of
them on.  `Facts` is what the participant can see of the two invariants: a live
reader or writer is entered under exactly one topic, and a callback runs on a
live one.  With these each step is matched by a step of `ParticipantLifecycle`
or by none (`LifeStep`): an endpoint appears when it is created inside
Fast-DDS, disappears when it is removed there, and everything else a call does
is not seen.  Hence `WholeImplementsLifecycle`; the invariant of the life cycle
then holds of the whole (`WholeTyped`), and with it what that module proves from
it (`WholeLivesWell`, `WholeRemovalAdvances`), refused removals of the
participant included.  `RemovalLeavesNothing` follows
from `Phases` and the ownership invariants, and `EverybodyServed` from all of
them together: a callback or a send finds its listener, proxy or writer by the
ownership invariant of its half, and the participant and the Swift object by that
of the life cycle.  `RemovalGoesOneWay` puts the measures of the three parts one
behind the other.

**Discovery** (`ParticipantDiscoveryProofs`).  `DInv` has a part for each loop:
after `n` properties the first `2n` cells hold their copies (`CopyOK`), after
`n` pairs the dictionary says what the first `n` properties say, the last one
first (`ReadOK`), and at index `k` of the free loop the strings up to `k` are
left (`FreeOK`).  From it `ReadsWithinArray`, `DictionaryDelivered`,
`FirstKeyLeaks` and `OutsideForEmpty` (together `FreeLoopPinned`) and
`DiscoveryTyped`, for any properties.

**Notifications** (`NotificationsProofs`).  `NInv` gives every callback its shape
(the right status, for the right delegate, `ToldRight`), says that a delegate
which was loaded and not raced is still in place, and that `n_matched` is the
number of matches and an endpoint that is not registered has none (`CountsOK`);
from it `RacesOnly`, for all programs.  As long as a program sets no delegate
late, `VInv` adds that no assignment overlaps anything and nothing is told before
there is a participant (`QuietBefore`), that at most one match or discovery is
still to be told (`InOrder`), and that each count differs from what Fast-DDS has
by exactly that one, the matches also by those that removals dropped
(`MatchesOK`, `KnownOK`); from it `DelegatesWhole`, with `RacesOnly` hence
`LateRacesOnly`, and `ViewsExact`.

**Keyed send** (`KeyedSendProofs`).  `Holds` says what an address still vouches
for: unless the buffer was allocated again, it starts with the bytes that were
put there.  From it `ReuseOnly`.  `HandleOf` says that no key has
the handle of a short one, and `HandlesOfKeys` when two handles are equal, a fact
about padding and the collisions of whatever function `MD5` is; the two give
`InstancesKeptApart` for keys of any length.

**Logging** (`LoggingProofs`).  `Between`: without a consumer some call is about
to register one; `Alone`: as long as no two calls overlapped, what the one call
has done is what its step says.  From them `LossNeedsGap`, `DoublingNeedsOverlap`
and `LevelTakesEffect`.

Only model-checked: the liveness properties `EveryCallReturns`, `RemovalEnds`
and `RemovalReturns`, and the four violated properties.  Of the liveness
properties the half that is safety is proved: `CallsAdvance` of both halves and
`RemovalAdvances` of the life cycle and of the composition say that each step of
a call lowers a measure that is well-founded for finitely many topics, so a call
that goes on returns after finitely many steps.  (Of these the runs check the two
`CallsAdvance`; `RemovalAdvances` is a theorem of both modules and no property of
a run, where `RemovalEnds` and `RemovalReturns` stand for it.)  What is left to
TLC is that a call can always go on, sooner or later, and does so by fairness:
that is about ENABLED, which is out of the prover's reach.

## 7. Not modelled

- Topic protocols, enum descriptions and version selection: declarations,
  wording and compile-time configuration, without state.
- QoS and transport attributes, locators and the fields copied for a delegate:
  data that no property tells apart.  CDR encoding is a library.  The layout of a
  log line and its file are left out of `Logging`.
- The race on `readerList` and `writerList` in a program that overlaps calls
  which change them: every outcome is possible then, and the discipline that
  excludes it is the assumption of section 3.
- Calls of the API from inside a block or a delegate: whether they wait for the
  callback they run in depends on locks of Fast-DDS that are not in these
  sources.
- What a block does with its payload after it has returned, when the change is
  removed (`FastRTPSSwift/PayloadDecoderProxy.swift:18`): the application's.
- Use of the object without a participant, or after its removal: nothing in the
  code detects it; the guards of the models exclude it.
- An `add_change` that fails: `send` does not look at its answer (`BP` 376) and
  answers true; in the models it adds the change.

The modules were written in this order, the most important first:
`LendingContract` and `BridgedReaders`, `BridgedWriters`,
`ParticipantLifecycle`, `ParticipantDiscovery`, `Notifications`, `KeyedSend`,
`BridgedParticipant`, `Logging`; the proofs followed each of them.  What would
come next is a model of the locks of Fast-DDS, once its sources are at hand:
with it the calls from inside callbacks could be decided.
