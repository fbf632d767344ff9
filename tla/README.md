# A TLA+ model of kokkos-utils

kokkos-utils is a C++20 header library next to Kokkos. Its core,
`src/include/kokkos-utils/callbacks/`, turns the profiling callbacks of Kokkos
into typed events, dispatches them to the listeners a program registers, and
builds recorders and timers out of such listeners. This directory models that
core in TLA+, checks it with TLC and proves part of it with TLAPS.

In what follows a file without a directory is in `callbacks/`.

## Inventory

| part | state | operations | interacts with | what makes it correct |
|---|---|---|---|---|
| Event types (`Events.hpp`) | none | the aggregates, the concepts that sort them, `paired_event_t`, the getters and setters of Kokkos's table | everything below | begin, end, enqueued and numbered events are the ones the rest assumes |
| Manager (`Manager.hpp`) | the singleton, the callback table saved by its constructor, the list of listener models, one list of raw pointers per event type, two atomic counters | `initialize`, `finalize`, `register_listener`, two `unregister_listener`, the dispatching callbacks, `dispatch`, `get_next_event_id`, `get_next_section_id` | Kokkos calls it from any host thread; it calls the tool that was attached before it and then the listeners; their bodies call it back | transparent to Kokkos and to the tool; lists consistent; every listener sees every event of its types once and in order; ids that tell open kernels apart |
| Recorder (`RecorderListener.hpp`) | matcher, deque, mutex | `operator()`, `record`, `report` | `record` registers a recorder with the manager, which calls it on any thread; it asks its matcher | no event lost or doubled, the order of each thread kept, only the events the matcher means |
| Listener concepts (`Listener.hpp`, `Matcher.hpp`) and type lists (`impl/type_list.hpp`) | none | `Listener`, `ListenerFor`, `listener_event_type_list_t`, `MatcherFor`, ..., `type_list_index`, `for_each` | the manager keeps one list per event type at the position of the type | a listener is in the lists of the types it handles and in no other |
| Timer listeners (`TimerListener.hpp`, `RegionTimerListener.hpp`, `BeginEndTimerListener.hpp`, `SequenceOfRegionTimerListener.hpp`) | matcher(s), timer(s), two flags or an index | `operator()`, `reset`, `connected`, `closed`, `all_matched` | the manager calls them, they ask their matcher and drive their timer | the thing that was selected is the thing that was timed |
| Matchers (`Event*Matcher.hpp`, `ConjunctionMatcher.hpp`) | nesting level, id, section | `operator()` | asked by recorders and timer listeners | the end they match belongs to the begin they matched |
| Timers (`timer/`, `EnqueuedEventTimer.hpp`, `EnqueuedEventWithLaunchTimer.hpp`) | two optional events | `start`, `stop`, `is_valid`, `duration` | host clock or device queue | they are started before and stopped after what they measure |
| Test matchers (`Helpers.hpp`) | none | `ContainsInOrder`, `ElementAt` | googletest | agree with their definition |
| Concepts, traits, views, printers, scoped helpers, atomics | none | compile-time predicates and pure adaptors | | |

What is hard: Kokkos calls back from several host threads while the lists of
the manager have no lock; listeners register and unregister from inside the
event they are being shown; ids are written to Kokkos by one of three parties;
managers come and go while kernels are running; matchers and timers keep state
across `reset()` and across managers; the bodies of a listener run concurrently.
`PROJECT.json` lists these hazards, each at its line.

## Modules

| module | models | correspondence |
|---|---|---|
| `Events` | `Events.hpp` | an event type is the sequence of its members; `BeginEvent`, `EndEvent`, ... are computed from it as the concepts are |
| `Lists` | `std::list` | the sequence of the linked nodes, `Link`, `Unlink`, and what lies `Ahead` of an iterator |
| `Manager` | `Manager.hpp` | one variable per member, `callbacks` for Kokkos's table, a `frame` per thread for the dispatch it is in; one action per member function, and one per call a dispatch makes (`dispatch_context_callback`, `InvokeListener`, `FinishDispatch`) |
| `EventBus` | what the Manager promises (its comment, lines 100-145) | subscribers, and for each thread the event under way and who has still to see it |
| `ManagerImplementsEventBus` | the refinement | what is to be delivered is what lies ahead of the iterator and can be cast |
| `ManagerProofs`, `ManagerPromises` | | lemmas and theorems |
| `TypeLists`, `Listeners` | `impl/type_list.hpp`, `Listener.hpp`, `Matcher.hpp`, the tuple of lists of `Manager.hpp` | a type list is a sequence, a trait is an operator, a predicate on types the set it holds of; a callable is the set of types it can be invoked with, what it returns, and its `event_type_list_t` if it has one |
| `SectionMatcher` | `EventInProfileSectionMatcher.hpp` | a matcher is a record; `After` is the next record, `Answer` what it returns, `Aborts` when it aborts |
| `Recorder` | `RecorderListener.hpp` on top of `Manager` | extends `Manager`; `RecordBegin`, `RecordReturn`, `RecordThrow` are the parts of `record()`; a thread that the walk brings to a recorder goes through `Enter`, `AskMatcher`, `Lock`, `PushBack` |
| `RecorderProofs`, `SectionProofs` | | lemmas and theorems |
| `TestMatchers` | `Helpers.hpp` | a GoogleMock matcher is a set of accepted values per member; `MatchAndExplainImpl` recurses as the template does |
| `TimerListener` | `TimerListener.hpp`, `timer/Timer.hpp` | two flags, `tick` and `tock` with the timer's `start` and `stop`, the branch of `operator()`, `reset` |
| `Regions` | the program's side of profiling regions | a stack of regions per thread, the regions that have been popped |
| `RegionMatcher` | `EventRegionMatcher.hpp` | a matcher is a record; its two `operator()` are a function to the next record and a predicate, the level wraps as a `uint32_t` does |
| `RegionTimer` | `RegionTimerListener.hpp` | composes the three modules above: each push and pop goes to the matcher and then to the branch |
| `SequenceOfRegionTimers` | `SequenceOfRegionTimerListener.hpp` | `current` and vectors of matchers and timers; composes `Regions` and `RegionMatcher` |
| `RegionLemmas`, `RegionTimerProofs`, `SequenceProofs` | | lemmas and theorems |
| `KernelTimer` | `BeginEndTimerListener.hpp` with its matchers and its two timers | the queue of the execution space is a sequence of kernels and recordings; each thread goes through the check of `closed()`, the matcher and the branch of the listener's body in separate steps |
| `KernelTimerProofs` | | theorems |
| `MC...` | | constants for TLC; `MCRecorder` joins `Recorder`, `Listeners` and `TestMatchers` and holds the static assertions of the tests as assumptions TLC evaluates |

A program counter `called`, `matched`, `returned` in `KernelTimer` and
`context`, `registered`, `listeners` in `Manager` says where a thread is between
two points where others may run. Variables with no counterpart in the code
record history for the properties: `outside`, `open` and the owners of ids in
`Manager`; `began`, `ended`, `since`, `timed`, `clock`, `finished` in the timers;
`history`, `current`, `since`, `section` in `Recorder`.

Definitions called faulty variants are what a plausible bug would make of the
definition after them. No specification uses them; `PROJECT.json` pairs each
with the property that refutes it.

### What the models assume of the program

- The lists have no lock. Listeners are registered and unregistered when no
  other thread is in a dispatch, or from the body of a listener
  (`MayChangeListeners`). `finalize()` comes when no dispatch is under way;
  kernels may be. A body does not unregister the listener it is of
  (`MayUnregister`): the walk would go on from a node that is gone. The code
  checks none of this, and what it does otherwise is undefined. So no property
  says that a walk never stands on such a node: in the models that follows from
  these conditions, in a program from keeping to them.
- `unregister_listener(pointer)` names a registered callable.
- A tool is attached before `initialize()` or after `finalize()`. It numbers
  what it opens with a counter of its own.
- A listener's body emits no Kokkos event on its own thread.
- The kernels of a thread end innermost first. A section is known by its id: a
  thread may start, stop and destroy any of those it has created, with kernels
  and other sections open inside or around it (`EmitSection`, `EmitClosing`), but
  not one that another thread has created.
- `dispatch` takes its id and starts its walk in one step: no list can change in
  between on behalf of the same thread.
- The runs of the region timers have one thread that pushes regions
  (`Thread = {main}`). With two threads, `TimesOneRegion` fails: a pop carries
  nothing that says whose it is, and `EventRegionMatcher` counts those of all
  threads.
- A region timer is unregistered when it is not connected and reset when it is
  closed; so is a kernel timer. A sequence is reset outside the region it is
  timing (`Interrupting = FALSE`), and selected kernels do not overlap
  (`Overlapping = FALSE`). Resetting a sequence in the middle and overlapping
  kernels have runs of their own.
- A kernel timer goes to a new manager only if it has matched no kernel before
  (`Reinitialize`): the new manager numbers from 0, and the matcher would take
  the end of an unrelated kernel for an event of its own.
- Execution space instances have different device ids, so the abort in
  `EnqueuedEventTimer::start` is never reached. A manager gives an id to one kernel
  only: `KernelTimer` has a counter of its own that only grows, as that of
  `Manager` does while there is a manager (`IdsUnique`, `BelowCounters`).
- `record()` is called by one thread, `Main`, which may call it again from the
  callable. Any of these calls may return or throw; a call that throws leaves its
  recorder in the Manager until `finalize()`. Listeners come and go through
  `record()` only, between dispatches, and no tool is attached.
- When a recorder of a section is made, the sections that are open have been
  numbered by this manager (`RecordBegin`): the id Kokkos gave a section that was
  created when nobody listened, or under a former manager, may be the one the
  Manager gives next, and the matcher would take the one for the other.
- The members of a matcher have no lock. Two threads that use them at once are
  taken to do so one after the other; that the deque is written under a mutex is
  modelled by the end of the deque, which `push_back` reads and then writes.
- A manager numbers fewer sections than there are ids: `CallContext` gives none
  that is `invalid_section_id`, which a matcher takes for no section.
- A name, a regular expression or any other stateless matcher is the set of
  names it accepts.

## Runs

| run | instance | shows |
|---|---|---|
| `dispatch` | 2 threads, 2 nodes, 2 kinds of listener, a tool, re-entrant bodies | types; Kokkos's table is right (`Transparent`); the ids of a type that the tool numbers tell its kernels apart, and so do those of one giver (`EndsTellApart`) |
| `ids` | 2 threads with 2 open kernels or sections each | the ids of one manager are distinct among what is open (`IdsUnique`) |
| `lists` | 3 nodes, 3 kinds of listener, re-entrant bodies, 1 thread | the lists per type follow the list of listeners (`ListsAgree`); the Manager implements the event bus |
| `progress` | 2 threads, 2 nodes, fairness | every dispatch ends, every registered listener gets the event |
| `foreign_id` | 2 threads | **violated**: one end event per begin event, when a kernel was begun before the manager |
| `region_timer` | 2 names, nesting up to 3, 8 events | types; a closed listener has timed one wanted region from push to pop; it took the first one |
| `region_timer_enqueued` | the same, with `EnqueuedEventTimer` | **violated**: closed, with a timer never started |
| `region_sequence` | 2 matchers that overlap, 3 names, nesting up to 3, 9 events | types; the regions are timed in order and one after the other; none is missed |
| `region_sequence_reset` | the same, with `reset()` inside a region | **violated**: `all_matched()` with a timing of the former round |
| `kernel_timer` | 2 threads, 2 queues, 2 names, 4 kernels, fairness | types; the kernel selected lies between the two recordings, and the launch timer within them; a begin event starts and an end event stops (`SelectsBeginAndEnd`); a selected kernel is timed |
| `kernel_timer_overlapping` | two selected kernels in flight | **violated**: a begin event closes the listener |
| `recorder` | 2 threads, a recorder of kernels and copies and one of those within a section, 2 kernels or sections open at once, 4 events, `record()` nested, returning and throwing | types and the mutex; no event lost, doubled or out of its thread's order (`RecordsEveryEvent`); nothing from outside the selected section (`RecordsOnlyTheSection`) and nothing missed within it (`RecordsTheWholeSection`); `ContainsInOrder` and `ElementAt` agree on what was recorded |

When a dispatch overlaps the start or the stop of the section on another thread,
either outcome is right. An event of `history` therefore says for which
recorders it was `surely` within a run of the section their matcher has selected,
from the return of the call that starts it to the call that stops it, and for
which it was `possibly` so; one property speaks of the first, the other of the
second. `section` has for each recorder the section its matcher has selected: the
thread, the place among what the thread has open, which moves when something
before it closes, and whether it is stopped, being started, started or being
stopped. What is dispatched when no recorder listens to it (`EmitUnheard`) starts
and stops no section, but may close one.

Besides their properties the runs evaluate assumptions about the tables and the
compile-time machinery: `EventTables` (begin and end events are paired and carry
an id, no two begin events share an end event, sections are not numbered as
kernels, what creates, starts, stops and destroys one is neither begin nor end of
a kernel, and all but the first carry its id), `OrderedEventTypes`,
`TypeListTraits`, `MatcherTraits` and `ListenerTraits` (the static assertions of
`test_type_list.cpp`, `test_Matchers.cpp` and `test_RecorderListener.cpp`, and
that the aliases of `BeginEndTimerListener.hpp` for deep copies cannot be
instantiated), `RecordersOfSections` (a recorder of a section listens to the
events of sections), `ListsByPosition` (the tuple of lists, indexed by the position of
a type, is the function from event types `Manager` has) and `HelpersExamples`
(`test_Helpers.cpp`).

`test_Helpers.cpp:69` expects that `ElementAt(42, ...)` does not match a vector
of 4. Under `Not`, the listener takes no explanation and
`ElementAtMatcher::MatchAndExplain` goes on to read `arg[42]`
(`Helpers.hpp:154`). `ElementAt` answers anything there.

### Bounds, and why they are enough

- Two nodes make the cases of a walk: a listener before, at or after the cursor,
  and a node reused by a later registration; the third in `lists` lets one go
  from between two others. Addresses are interchangeable in
  `dispatch` (`SYMMETRY Addresses`), threads in `ids` (`SYMMETRY HostThreads`).
- `MaxOpen = 2` gives kernels nested in sections and the reverse; `MaxId` ends
  the counters, which the code lets grow to 2^64 and 2^32.
- `HandledBy` has a callable for both ends of a kernel, one for the end only, one
  for sections and custom events: types with no, one and several listeners.
- Nesting 3 is the selected region, one of the same name in it, and one around
  or inside both; 8 or 9 events are enough to close, reset and select again.
  `invalid_nested_level = 7` keeps the wraparound of the level out of reach of
  that nesting, as 2^32 - 1 does of any program's.
- Four kernels are a wanted one, another on the same queue, another on the other
  queue, and a second wanted one after `reset()`.
- In `recorder` one thread makes sections and begins kernels, as the workload of
  the tests does (`tests/callbacks/TestWorkload.hpp`), and the other copies. Two threads
  are what a lost update needs, and a third would do nothing a second does not:
  the properties of a recorder speak of pairs of events. With `MaxOpen = 2` a
  kernel is begun inside the selected section, a section inside a kernel, and a
  second section around, inside or next to the selected one; `MaxId = 2` gives
  the two ids that differ. With `MaxEvents = 4` a section is created and started,
  and two kernels, copies or starts and stops of either section follow in any
  order and overlap on the two threads; the second section may be left from an
  earlier call of `record()`, so that its stop comes among these. A kernel of this
  run stays under way: neither recorder listens to its end, which would only close
  a place among what the thread has open, as destroying a section does.
  `MaxTogether = 2` bounds what is emitted while the two recorders are there at
  once. Addresses are interchangeable (`SYMMETRY Addresses`); the threads are not.
- `CHECK_DEADLOCK FALSE` appears where the program stops at its bound on
  kernels or events, or has aborted. The runs of the Manager check deadlock.

### Fairness

`FairSpec` of `Manager` asks of each thread that a dispatch it has begun goes on
(weak fairness of its next step): the dispatch is straight-line code, and the
bodies of listeners are assumed to return. No fairness is assumed of the program
that emits events or registers listeners. `progress` therefore has
`Reentrant = FALSE`: a body that registers for ever would keep a walk going, in
the code as well. `FairSpec` of `KernelTimer` asks that a thread that has begun
a kernel goes on to end it.

## Proofs

`ManagerProofs` proves, for every set of threads, addresses, listeners and event
types and with no bound on ids or nesting, that `Spec` implies always

- `TypeOK` (`TypeCorrect`),
- `Transparent` (`TransparentHolds`): Kokkos's table points to the Manager for
  exactly the types that have a listener, and elsewhere is the one the program
  would have without a Manager,
- `ListsAgree` (`ListsAgreeHolds`): the list of each type holds exactly the
  listeners that handle it, once each, in registration order.

Neither of the last two is inductive alone. The invariant that is, `IInv`, adds
three facts: `SavedTable`, that the saved table is the outside one while there is
a manager (finalize restores it, registering compares with it); `KokkosFrames`,
that a thread in a Kokkos dispatch has a type of `EventTypeList`, so that the
list it walks exists; and `CursorsListed`, that a cursor stands in the list its
thread walks, which the conditions on the program above keep so. The proof has a
lemma per action (`RegisterStep`, `UnregisterStep`, ..., `FinalizeStep`); the
first chapter has what it needs of lists: what `Link` and `Unlink` leave linked,
that both keep nodes distinct, and that doing either to a list and to a sublist
of it keeps the order they share.

`ManagerPromises` proves that the Manager implements the event bus
(`EventBusImplemented`): the initial states are initial states of the bus, and
every step is one of the bus or leaves it alone (`NextBus`). The two differ in
what they walk. The bus keeps the set of subscribers an event has still to
reach; a thread of the Manager has an iterator in the list of the event's type,
or, in `dispatch()` of an event of the program's own, in the list of all
listeners. The argument rests on `RestAgrees`: what lies ahead of the iterator
and handles the type is the same set whichever list is walked, namely
`Outstanding`, the registered listeners that handle the type and come after the
cursor in the order of registration. That follows from `ListsAgree`. So a
listener that registers is last and outstanding for everyone who walks its type,
one that unregisters is outstanding for nobody, and the next one the iterator
finds is the first of those outstanding.

Its second chapter proves `IdsUnique` (`IdsUniqueHolds`) and `EndsTellApart`
(`EndsTellApartHolds`) under one assumption, that the program does not pass
`CreateProfileSectionEvent` to `dispatch()`: such an event is numbered by the
counter of kernels. The invariant `IdsIInv` adds to `IInv` that an id is below
the counter it came from, the tool's as well as the manager's (`BelowCounters`),
that a thread still in the context callback has no id of either
(`NotYetNumbered`), that no two things that are held have the same from the same
counter (`GivenOnce`), and that what is open of a type the tool numbers has no id
of this manager (`UntooledNumbered`): a tool is attached and detached only
between managers.

Its third chapter is about `OneEndPerBegin`, which `foreign_id` refutes. It holds
(`OneEndPerBeginHolds`) in a program whose steps satisfy `NumbersEveryKernel`: a
kernel begins only while some listener handles its begin event and no tool has a
callback for it, and the manager is finalized only with no kernel open. The
invariant is `KernelsNumbered`: a kernel that is open has an id of this manager,
one that is in the walk has been given one, and one that is in the context
callback will be, since no tool can come while the thread is there. `GivenOnce`
does the rest.

`RecorderProofs` first proves that every step of a program with recorders is a
step of the Manager or leaves it alone (`RecorderImplementsManager`), so `IInv`
is an invariant of it. On top of that `RIInv` relates the two: the recorder
whose body a thread is in is the one its cursor stands on, its mutex is held by
a thread that is in the push (`MutexHeld`), the recorders of the calls of
`record()` under way are registered, and each only once (`Recorders`), and what
the thread has read as the end of the deque still is (`ThreadOK`). `RecordingOK` is
`RecordsEveryEvent` with what makes it inductive: an event that is still on
its way to a recorder is not in what it has recorded, and what is being
dispatched was emitted after it was made. The theorem holds for every number of
threads and recorders, and for nested and failing calls of `record()`.
`RecorderTypeOK` bounds what a recorder holds by the events there can be; that
is so because it has none twice, so `RecorderTypeOKHolds` rests on the same
invariant (`InjectiveBound`, `TypeIInv`).

`SectionProofs` proves `RecordsOnlyTheSection` and `RecordsTheWholeSection` for
any number of threads and recorders, any kernels and sections each thread has
open, closed in any order, and any calls of `record()`, if a recorder of a
section is a listener of the events that create, start and stop sections
(`SectionListeners`): a matcher that does not see them cannot follow its section.
The invariant `SectionIInv` has three layers.

- `OpenIInv` says of each thread that what it starts and stops is a section it
  has open, and that while there is a recorder of a section the manager has
  numbered all that are open. With `GivenOnce` an id then is that of one place
  among what one thread has open or is creating (`HasProperties`), so the start
  and stop events that carry the id a matcher keeps are those of the section it
  has selected. It needs the guard of `RecordBegin` and that no tool numbers
  sections.
- `SelectedOK` and `RunOK` relate the matcher to that section. The place of the
  section is the one that has the matcher's id, as long as there is one; it moves
  when the thread closes something before it (`Placed`). The matcher records
  while the section is started and not while it is stopped; in between, while
  the call that starts or stops it is under way (`Turns`), it depends on whether
  that dispatch has been through the recorder. `Pending` says so, and the walk of
  the Manager (`EnterPending`, `LeavePending`) that it comes to every recorder
  once.
- `FlightOK` is about the other threads: what is being dispatched while the
  section runs, even for a moment, is `possibly` within the run, so an event the
  matcher has accepted may be recorded however late the lock is taken; and what
  is `surely` within it is being dispatched with the section started, so the
  matcher accepts it.

What is recorded (`OnlyTheSection`) and what is missing (`TheWholeSection`)
follow, and are kept because the past of `history` changes only for what is in
flight.

`RegionTimerProofs` and `SequenceProofs` prove `TypeOK`, `TimesOneRegion`,
`SelectsFirst`, `TimesSequence` and `MissesNoRegion` for any names, any nesting
below 2^32 and sequences of every length. The argument is the same: while a
matcher is inside a region, its level is the distance from that region to the
top of the stack, and the region at that place was pushed when the timer was
started (`InsideTheRegion`). A push or pop moves the top and the level together,
so the level is 1 when the region is on top, and the pop that brings it back to
0 is its own. `RegionLemmas` has what a push and a pop do to the stack and what
the `uint32_t` does to the level. Both assume `OneThread`; the first assumes a
`Timer<void>`, the second that the program does not reset in the middle of a
region. Without these the properties are false. Under them hold also the claims
that `region_timer_enqueued` and `region_sequence_reset` refute without:
`ClosedIsTimed`, since a region that was popped was pushed before
(`RegionsInThePast`) and neither time is 0, and `AllMatchedMeansTimed`, which is
`TimesSequence` of every position.

`KernelTimerProofs` proves `TypeOK` for any threads, queues and kernels, and for
those of which no two selected ones overlap `TimesTheKernel` and
`SelectsBeginAndEnd`, the claim that `kernel_timer_overlapping` refutes otherwise.
The last is not inductive: that a connected listener matches no begin event is so
because the one kernel it may match has begun already. The invariant `KTInv` says that
the ids under way are different (`IdsOK`) and, in `MatchedOK`, that a matched
event is of the one thread whose kernel has the id the matcher keeps, and that
this kernel is about to start the timer, is being timed, or is done. So a branch
taken on an answer that others have made stale can only be that of its own
kernel.

The assumptions of the proofs are those named above and the `ASSUME`s of the
modules on their constants and on the tables of event types, which the runs
evaluate.

Every safety property of the runs is proved but one. Only model-checked are
`ContainsInOrderFindsElements`, since the recursion of the template is out of
the prover's reach, and the liveness properties `DispatchCompletes`,
`EventReachesListeners` and `SelectedIsTimed`, which need fairness and
`ENABLED`. What the four runs that expect a violation refute is proved under the
condition on the program that each of them breaks, so the condition is where
the claim ends. The run `kernel_timer` checks the last under its condition; the
others are proved only, the second and the third because under theirs they say
less than `TimesOneRegion` and `TimesSequence`, which `region_timer` and
`region_sequence` check:

| run | claim | holds when |
|---|---|---|
| `foreign_id` | `OneEndPerBegin` | `NumbersEveryKernel`, and no section creation is passed to `dispatch()` |
| `region_timer_enqueued` | `ClosedIsTimed` | one thread, `Timer<void>` |
| `region_sequence_reset` | `AllMatchedMeansTimed` | one thread, no `reset()` in the middle of a region |
| `kernel_timer_overlapping` | `SelectsBeginAndEnd` | selected kernels do not overlap |

## Not modelled

- A conjunction of matchers that count. The header warns that it short-circuits,
  and no listener of the library puts such a matcher second.
- `impl/type_traits.hpp`, `is_type_list` and `make_type_list`, and the concepts
  on spaces and views, which have no state and take no part in the callbacks.
- Formatting (`report`, the descriptions of `Helpers.hpp`, `printers/`),
  durations, views, the atomic insert, the scoped test helpers, the benchmark.
- Data races on the members of a matcher, and undefined behaviour outside the
  assumptions above (unregistering an unknown callable, finalizing in the middle
  of another thread's dispatch).

## Plan

Done, in this order: `Events`, `Lists`, `Manager`, `EventBus` and the refinement,
the proofs of the Manager's invariants, the timer family, the recorder with the
section matcher, listener concepts and type lists, test matchers, the proofs of
the ids, of the recorder and of the timers, of the refinement of the event bus,
of the recorders of sections, and of the refuted claims under their conditions.

What could follow, most important first:

1. A composition of the Manager with a kernel timer, ids coming from the
   Manager, to discharge the assumption that they are unique.
2. `ConjunctionMatcher` over matchers with state, in `RegionMatcher`'s setting.
