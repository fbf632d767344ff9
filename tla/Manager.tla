------------------------------ MODULE Manager ------------------------------
(***************************************************************************)
(* The callback manager (callbacks/Manager.hpp) between Kokkos, the tool   *)
(* that was attached to Kokkos before it, and the listeners.               *)
(*                                                                         *)
(* Kokkos keeps one callback per event type; initialize() saves that table *)
(* as the context callbacks.  Registering a listener links it into the     *)
(* list of all listeners and into the list of each event type it handles,  *)
(* and points the callbacks of those types to dispatching functions, which *)
(* call the context callback and then walk the list of the type.  Threads  *)
(* of the host program emit events concurrently; the body of a listener    *)
(* may itself register and unregister.                                     *)
(***************************************************************************)
EXTENDS Events, Lists

CONSTANTS
  Thread,       \* host threads that call Kokkos
  Node,         \* addresses of listener models
  Callable,     \* the listener objects of the program
  HandledBy,    \* the event types each callable is a listener for
  CustomEvent,  \* event types of the program's own
  Emitted,      \* event types the program makes Kokkos emit
  Attachable,   \* event types the tool may have a callback for
  Dispatched,   \* event types the program passes to dispatch()
  MaxOpen,      \* bound: kernels and sections a thread has open at once
  MaxId,        \* bound: no id is asked for once a counter is there
  Reentrant     \* do the bodies of listeners register and unregister?

CONSTANTS NoNode, NoType

EventType == EventTypeList \cup CustomEvent

ASSUME ManagerAssumption ==
  /\ HandledBy \in [Callable -> SUBSET EventType]
  /\ Emitted \subseteq EventTypeList
  /\ Attachable \subseteq EventTypeList
  /\ Dispatched \subseteq EventType
  /\ NoNode \notin Node
  /\ NoType \notin EventType
  /\ MaxOpen \in Nat
  /\ MaxId \in Nat
  /\ Reentrant \in BOOLEAN

VARIABLES
  singleton,             \* is Manager::singleton set?
  callbacks,             \* the callback Kokkos would call for each event type
  context_callbacks,     \* the table saved by the constructor
  listeners,             \* the list of listener models
  callable,              \* what the model at each linked address wraps
  registered_callbacks,  \* for each event type, the models that handle it
  next_event_id,
  next_section_id,
  tool_next_id,          \* the tool numbers kernels and sections by itself
  frame,                 \* the dispatch each thread is in
  open,                  \* the kernels and sections each thread has begun
  outside                \* the table Kokkos would have without the Manager

listVars    == <<listeners, callable, registered_callbacks>>
counterVars == <<next_event_id, next_section_id>>
kokkosVars  == <<open, tool_next_id>>

managerVars == <<singleton, callbacks, context_callbacks, outside, listVars>>

vars == <<managerVars, counterVars, kokkosVars, frame>>

\* Kokkos's table holds no callback, the tool's, or the lambda of
\* create_dispatching_callback_for_event_type_impl.
Callback == {"null", "tool", "dispatching"}

\* A listener model wraps a shared pointer to a callable, or a copy of it.
Model == [of : Callable, shared : BOOLEAN]

\* The events whose callback writes an id for Kokkos to keep.
Opener == BeginEvent \cup {"CreateProfileSectionEvent"}

\* Who chose the id of a kernel: a manager that has been finalized since is
\* a "former" one.
Owner == {"nobody", "tool", "manager", "former"}
Open == [type : Opener, id : Nat, owner : Owner]

\* Where a thread is: out of the Manager, about to call the context callback,
\* walking the list of the event's type, or walking the list of all listeners
\* (the public dispatch).  The cursor is the listener whose body is running.
Frame == [pc : {"idle", "context", "registered", "listeners"},
          type : EventType \cup {NoType}, id : Nat, owner : Owner,
          cursor : Node \cup {NoNode}]

Idle == [pc |-> "idle", type |-> NoType, id |-> 0, owner |-> "nobody", cursor |-> NoNode]

TypeOK ==
  /\ singleton \in BOOLEAN
  /\ callbacks \in [EventTypeList -> Callback]
  /\ context_callbacks \in [EventTypeList -> Callback]
  /\ listeners \in Seq(Node)
  /\ callable \in [Nodes(listeners) -> Model]
  /\ registered_callbacks \in [EventTypeList -> Seq(Node)]
  /\ next_event_id \in Nat
  /\ next_section_id \in Nat
  /\ tool_next_id \in Nat
  /\ frame \in [Thread -> Frame]
  /\ open \in [Thread -> Seq(Open)]
  /\ outside \in [EventTypeList -> {"null", "tool"}]

-----------------------------------------------------------------------------
\* dynamic_cast<ListenerConceptCallOperator<t>*> of the model at n succeeds.
Handles(n, t) == t \in HandledBy[callable[n].of]

Walking(th) == frame[th].pc \in {"registered", "listeners"}

\* The list the thread is walking, and the listeners its walk has yet to
\* call: the public dispatch passes over those whose cast fails.
Walked(th) ==
  IF frame[th].pc = "registered" THEN registered_callbacks[frame[th].type] ELSE listeners

\* Faulty variants: the public dispatch calls every listener; the iterator
\* stays where it is.
UpcomingUncast(th) == Ahead(Walked(th), frame[th].cursor # NoNode, frame[th].cursor)

UpcomingStuck(th) ==
  {i \in DOMAIN Walked(th) : frame[th].cursor \in {NoNode, Walked(th)[i]}}

Upcoming(th) ==
  {i \in Ahead(Walked(th), frame[th].cursor # NoNode, frame[th].cursor) :
     frame[th].pc = "listeners" => Handles(Walked(th)[i], frame[th].type)}

\* The lists have no lock: a program changes them only when no other thread
\* is in a dispatch, and otherwise from the body of a listener.
MayChangeListeners(th) ==
  /\ singleton
  /\ \A other \in Thread \ {th} : frame[other].pc = "idle"
  /\ \/ frame[th].pc = "idle"
     \/ Reentrant /\ Walking(th) /\ frame[th].cursor # NoNode

\* A program does not unregister the listener whose body is running: the
\* code does not check it, and would go on from an iterator on a node that is
\* gone.
MayUnregister(th, n) == MayChangeListeners(th) /\ frame[th].cursor # n

\* Faulty variant: a type that loses its last listener stays dispatched.
DispatchingCallbacksForever(registered) ==
  [t \in EventTypeList |-> IF registered[t] = <<>> THEN callbacks[t] ELSE "dispatching"]

\* set_dispatching_callbacks, given the new lists of the event types.
DispatchingCallbacks(registered) ==
  [t \in EventTypeList |-> IF registered[t] = <<>> THEN context_callbacks[t] ELSE "dispatching"]

-----------------------------------------------------------------------------
Init ==
  /\ singleton = FALSE
  /\ outside = [t \in EventTypeList |-> "null"]
  /\ callbacks = outside
  /\ context_callbacks = [t \in EventTypeList |-> "null"]
  /\ listeners = <<>>
  /\ callable = <<>>
  /\ registered_callbacks = [t \in EventTypeList |-> <<>>]
  /\ next_event_id = 0
  /\ next_section_id = 0
  /\ tool_next_id = 0
  /\ frame = [th \in Thread |-> Idle]
  /\ open = [th \in Thread |-> <<>>]

\* A tool is attached to, or detached from, one event type of a Kokkos that
\* has no Manager yet.
AttachTool(t, c) ==
  /\ ~singleton
  /\ outside[t] # c
  /\ outside' = [outside EXCEPT ![t] = c]
  /\ callbacks' = [callbacks EXCEPT ![t] = c]
  /\ UNCHANGED <<singleton, context_callbacks, listVars, counterVars, kokkosVars, frame>>

\* Manager::initialize; on an initialized manager it does nothing.
initialize ==
  /\ ~singleton
  /\ singleton' = TRUE
  /\ context_callbacks' = callbacks
  /\ UNCHANGED <<callbacks, outside, listVars, counterVars, kokkosVars, frame>>

\* Manager::finalize.  Kernels may be running, but no thread may be in a
\* dispatch: it would be walking a destroyed list.  The members go back to
\* what the next constructor gives them.
finalize ==
  /\ singleton
  /\ \A th \in Thread : frame[th].pc = "idle"
  /\ singleton' = FALSE
  /\ callbacks' = context_callbacks
  /\ context_callbacks' = [t \in EventTypeList |-> "null"]
  /\ listeners' = <<>>
  /\ callable' = <<>>
  /\ registered_callbacks' = [t \in EventTypeList |-> <<>>]
  /\ next_event_id' = 0
  /\ next_section_id' = 0
  /\ open' = [th \in Thread |-> [i \in DOMAIN open[th] |->
                IF open[th][i].owner = "manager" THEN [open[th][i] EXCEPT !.owner = "former"]
                                                 ELSE open[th][i]]]
  /\ UNCHANGED <<tool_next_id, frame, outside>>

-----------------------------------------------------------------------------
\* The end of every change of the lists: set_dispatching_callbacks.
SetLists(list, models, registered) ==
  /\ listeners' = list
  /\ callable' = models
  /\ registered_callbacks' = registered
  /\ callbacks' = DispatchingCallbacks(registered)
  /\ UNCHANGED <<singleton, context_callbacks, outside, counterVars, kokkosVars, frame>>

\* register_listener: the model is allocated at any free address.
register_listener(th, c, shared) ==
  /\ MayChangeListeners(th)
  /\ \E n \in Node \ Nodes(listeners) :
       SetLists(Link(listeners, n),
                [m \in Nodes(listeners) \cup {n} |->
                   IF m = n THEN [of |-> c, shared |-> shared] ELSE callable[m]],
                [t \in EventTypeList |-> IF t \in HandledBy[c] THEN Link(registered_callbacks[t], n)
                                                               ELSE registered_callbacks[t]])

\* What is left of the models, and of the raw pointers to them, without n.
ModelsWithout(n) == [m \in Nodes(listeners) \ {n} |-> callable[m]]
RegisteredWithout(n) == [t \in EventTypeList |-> Unlink(registered_callbacks[t], n)]

\* Faulty variants: the wrapped callable outlives its model; the raw pointers
\* outlive it.
UnregisterKeepingCallable(n) ==
  SetLists(Unlink(listeners, n), callable, RegisteredWithout(n))

UnregisterKeepingPointers(n) ==
  SetLists(Unlink(listeners, n), ModelsWithout(n), registered_callbacks)

\* Both overloads of unregister_listener end here.
Unregister(n) == SetLists(Unlink(listeners, n), ModelsWithout(n), RegisteredWithout(n))

\* unregister_listener(pointer): the first model that shares this callable.
unregister_pointer(th, c) ==
  LET sharing == {i \in DOMAIN listeners : callable[listeners[i]] = [of |-> c, shared |-> TRUE]}
  IN \E i \in sharing :
       /\ \A j \in sharing : i <= j
       /\ MayUnregister(th, listeners[i])
       /\ Unregister(listeners[i])

\* unregister_listener(iterator): a handle that is still valid.
unregister_iterator(th, n) ==
  /\ n \in Nodes(listeners)
  /\ MayUnregister(th, n)
  /\ Unregister(n)

-----------------------------------------------------------------------------
\* Kokkos calls the callback of an event that carries an id it has kept, or
\* none.  The tool's own callback is not followed further.
Emit(th, t, id) ==
  /\ frame[th] = Idle
  /\ frame' = IF callbacks[t] = "dispatching"
              THEN [frame EXCEPT ![th] = [Idle EXCEPT !.pc = "context", !.type = t, !.id = id]]
              ELSE frame
  /\ UNCHANGED <<managerVars, counterVars>>

\* Kokkos begins a kernel or creates a section: the id is 0 unless a callback
\* writes another one.
EmitOpening(th, t) ==
  /\ t \in Emitted \cap Opener
  /\ Len(open[th]) < MaxOpen
  /\ \A counter \in {next_event_id, next_section_id, tool_next_id} : counter < MaxId
  /\ Emit(th, t, 0)
  /\ open' = CASE callbacks[t] = "dispatching" -> open
               [] callbacks[t] = "tool" -> [open EXCEPT ![th] =
                    Append(@, [type |-> t, id |-> tool_next_id, owner |-> "tool"])]
               [] callbacks[t] = "null" -> [open EXCEPT ![th] =
                    Append(@, [type |-> t, id |-> 0, owner |-> "nobody"])]
  /\ tool_next_id' = IF callbacks[t] = "tool" THEN tool_next_id + 1 ELSE tool_next_id

\* The sections a thread has created, and the kernels it has begun.
Sections(th) == {i \in DOMAIN open[th] : open[th][i].type = "CreateProfileSectionEvent"}
Kernels(th)  == DOMAIN open[th] \ Sections(th)

\* Kokkos ends the innermost kernel of the thread, or destroys any of its
\* sections: those are known by their ids and close in any order.
EmitClosing(th, i) ==
  /\ i \in DOMAIN open[th]
  /\ i \in Kernels(th) => \A j \in Kernels(th) : j <= i
  /\ Emit(th, paired_event[open[th][i].type], open[th][i].id)
  /\ open' = [open EXCEPT ![th] = RemoveAt(@, i)]
  /\ UNCHANGED tool_next_id

\* Kokkos starts or stops a section of the thread.
EmitSection(th, t, i) ==
  /\ t \in Emitted \cap {"StartProfileSectionEvent", "StopProfileSectionEvent"}
  /\ i \in Sections(th)
  /\ Emit(th, t, open[th][i].id)
  /\ UNCHANGED <<open, tool_next_id>>

\* Other events carry no id.
EmitOther(th, t) ==
  /\ t \in Emitted \ (Opener \cup EndEvent \cup ProfileSectionManipulationEvent)
  /\ Emit(th, t, 0)
  /\ UNCHANGED <<open, tool_next_id>>

\* The program hands an event of its own to callbacks::dispatch, with an id
\* from get_next_event_id.  Without a manager neither does anything.
dispatch(th, t) ==
  /\ singleton
  /\ t \in Dispatched
  /\ next_event_id < MaxId
  /\ frame[th] = Idle
  /\ frame' = [frame EXCEPT ![th] = [Idle EXCEPT !.pc = "listeners", !.type = t,
                                                 !.id = next_event_id, !.owner = "manager"]]
  /\ next_event_id' = next_event_id + 1
  /\ UNCHANGED <<managerVars, next_section_id, kokkosVars>>

-----------------------------------------------------------------------------
\* increment_id_if_needed_for_event_type_impl, when no context callback is set.
IncrementIdIfNeeded(th) ==
  LET t == frame[th].type
      Numbered(id) == [frame EXCEPT ![th] = [@ EXCEPT !.pc = "registered", !.id = id,
                                                      !.owner = "manager"]]
  IN \/ /\ t \in BeginEvent
        /\ frame' = Numbered(next_event_id)
        /\ next_event_id' = next_event_id + 1
        /\ UNCHANGED next_section_id
     \/ /\ t = "CreateProfileSectionEvent"
        /\ frame' = Numbered(next_section_id)
        /\ next_section_id' = next_section_id + 1
        /\ UNCHANGED next_event_id
     \/ /\ t \notin Opener
        /\ frame' = [frame EXCEPT ![th].pc = "registered"]
        /\ UNCHANGED <<next_event_id, next_section_id>>

\* The tool behind the context callback writes an id of its own.
CallTool(th) ==
  /\ IF frame[th].type \in Opener
     THEN /\ frame' = [frame EXCEPT ![th] = [@ EXCEPT !.pc = "registered", !.id = tool_next_id,
                                                      !.owner = "tool"]]
          /\ tool_next_id' = tool_next_id + 1
     ELSE /\ frame' = [frame EXCEPT ![th].pc = "registered"]
          /\ UNCHANGED tool_next_id
  /\ UNCHANGED <<next_event_id, next_section_id>>

\* Faulty variant: the Manager numbers what a tool has numbered.
NumberAlways(th) ==
  /\ frame[th].pc = "context"
  /\ IncrementIdIfNeeded(th)
  /\ tool_next_id' = IF frame[th].type \in Opener /\ context_callbacks[frame[th].type] # "null"
                     THEN tool_next_id + 1 ELSE tool_next_id
  /\ UNCHANGED <<managerVars, open>>

dispatch_context_callback(th) ==
  /\ frame[th].pc = "context"
  /\ IF context_callbacks[frame[th].type] = "null"
     THEN IncrementIdIfNeeded(th) /\ UNCHANGED tool_next_id
     ELSE CallTool(th)
  /\ UNCHANGED <<managerVars, open>>

\* Faulty variant: the walk skips what it has not yet called.
InvokeLast(th) ==
  /\ Walking(th)
  /\ \E i \in Upcoming(th) :
       /\ \A j \in Upcoming(th) : i >= j
       /\ frame' = [frame EXCEPT ![th].cursor = Walked(th)[i]]
  /\ UNCHANGED <<managerVars, counterVars, kokkosVars>>

\* The walk moves on to the next listener and enters its body.
InvokeListener(th) ==
  /\ Walking(th)
  /\ \E i \in Upcoming(th) :
       /\ \A j \in Upcoming(th) : i <= j
       /\ frame' = [frame EXCEPT ![th].cursor = Walked(th)[i]]
  /\ UNCHANGED <<managerVars, counterVars, kokkosVars>>

\* Faulty variant: the lambda leaves Kokkos's id as it was.
WrittenBackNot(th) == [type |-> frame[th].type, id |-> 0, owner |-> frame[th].owner]

\* *event_id = event.event_id, *section_id = event.section_id.
WrittenBack(th) == [type |-> frame[th].type, id |-> frame[th].id, owner |-> frame[th].owner]

\* The walk is over: the lambda writes the id back for Kokkos to keep.
FinishDispatch(th) ==
  /\ Walking(th)
  /\ Upcoming(th) = {}
  /\ frame' = [frame EXCEPT ![th] = Idle]
  /\ open' = IF frame[th].pc = "registered" /\ frame[th].type \in Opener
             THEN [open EXCEPT ![th] = Append(@, WrittenBack(th))] ELSE open
  /\ UNCHANGED <<managerVars, counterVars, tool_next_id>>

-----------------------------------------------------------------------------
ChangeListeners(th) ==
  \/ \E c \in Callable, shared \in BOOLEAN : register_listener(th, c, shared)
  \/ \E c \in Callable : unregister_pointer(th, c)
  \/ \E n \in Node : unregister_iterator(th, n)

EmitEvent(th) ==
  \/ \E t \in Emitted : EmitOpening(th, t) \/ EmitOther(th, t)
  \/ \E i \in DOMAIN open[th] : EmitClosing(th, i) \/ \E t \in Emitted : EmitSection(th, t, i)
  \/ \E t \in Dispatched : dispatch(th, t)

Advance(th) ==
  dispatch_context_callback(th) \/ InvokeListener(th) \/ FinishDispatch(th)

Next ==
  \/ \E t \in Attachable, c \in {"null", "tool"} : AttachTool(t, c)
  \/ initialize
  \/ finalize
  \/ \E th \in Thread : ChangeListeners(th) \/ EmitEvent(th) \/ Advance(th)

Spec == Init /\ [][Next]_vars

\* A thread in the Manager keeps running, and the bodies of listeners return.
FairSpec == Spec /\ \A th \in Thread : WF_vars(Advance(th))
-----------------------------------------------------------------------------
(***************************************************************************)
(* Properties.                                                             *)
(***************************************************************************)

\* Through every sequence of registrations, Kokkos calls the Manager for
\* exactly the event types some listener handles, and for every other type
\* it calls what it would call if the Manager did not exist, before
\* initialize() and after finalize() included (set_dispatching_callbacks,
\* reset_context_callbacks).
Transparent ==
  \A t \in EventTypeList :
    callbacks[t] = IF registered_callbacks[t] # <<>> THEN "dispatching" ELSE outside[t]

\* The list of an event type holds exactly the live models that handle it,
\* each once, in the order in which they were registered: no raw pointer to
\* a destroyed model stays behind, no listener is forgotten
\* (register_listener_impl and both overloads of unregister_listener).
ListsAgree ==
  /\ IsInjective(listeners)
  /\ \A t \in EventTypeList :
       /\ Nodes(registered_callbacks[t]) = {n \in Nodes(listeners) : Handles(n, t)}
       /\ IsInjective(registered_callbacks[t])
       /\ InOrderOf(registered_callbacks[t], listeners)

\* What the threads have begun (<<th, i>>, i > 0) and what they are
\* dispatching (i = 0).
HeldAt(th, i) == IF i = 0 THEN frame[th] ELSE open[th][i]

Places == UNION {{th} \X (0 .. Len(open[th])) : th \in Thread}

\* Those that have an id from one of the owners.
NumberedBy(owners) == {k \in Places : HeldAt(k[1], k[2]).owner \in owners}

\* No two kernels or custom events share an id, and no two sections,
\* whichever threads they run on and however their dispatches interleave
\* (get_next_event_id, get_next_section_id, and the id written back).
IdsUnique ==
  \A k, h \in NumberedBy({"manager"}) :
    LET x == HeldAt(k[1], k[2])
        y == HeldAt(h[1], h[2])
    IN /\ x.id = y.id
       /\ x.type = "CreateProfileSectionEvent" <=> y.type = "CreateProfileSectionEvent"
       => k = h

\* Those that Kokkos has begun, or begins: they will have an end event.
Begun == {k \in NumberedBy({"manager", "tool"}) : k[2] # 0 \/ frame[k[1]].pc = "registered"}

\* The tool numbers some event types and the Manager the others, and the same
\* id may be given by both.  But no two kernels of a type that the tool
\* numbers share an id, whether they were begun through the Manager or not,
\* nor do two of the same type with ids of the same giver: so an end event
\* tells which kernel has ended (dispatch_context_callback, and the id
\* written back).
EndsTellApart ==
  \A k, h \in Begun :
    LET x == HeldAt(k[1], k[2])
        y == HeldAt(h[1], h[2])
    IN /\ x.type = y.type
       /\ outside[x.type] = "tool" \/ x.owner = y.owner
       /\ x.id = y.id
       => k = h

\* A dispatch, once begun, ends: the context callback is called, then each
\* listener, then Kokkos goes on.
DispatchCompletes == \A th \in Thread : (frame[th].pc # "idle") ~> (frame[th].pc = "idle")

\* A listener that is registered when an event of a type it handles is
\* dispatched gets to see that event.
EventReachesListeners ==
  \A th \in Thread, n \in Node, t \in Emitted :
    (frame[th].pc = "context" /\ frame[th].type = t /\ n \in Nodes(listeners) /\ Handles(n, t))
      ~> (frame[th].type = t /\ frame[th].cursor = n)

\* What EventBeginEndIdMatcher.hpp:15-19 says of Kokkos events: a begin event
\* that listeners saw has an id that the end event of no other kernel of the
\* same type carries.
OneEndPerBegin ==
  \A th, other \in Thread : \A i \in DOMAIN open[th], j \in DOMAIN open[other] :
    /\ <<th, i>> # <<other, j>>
    /\ open[th][i].type = open[other][j].type
    /\ open[th][i].type \in BeginEvent
    /\ open[th][i].owner = "manager"
    => open[th][i].id # open[other][j].id
=============================================================================
