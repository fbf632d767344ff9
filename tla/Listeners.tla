----------------------------- MODULE Listeners -----------------------------
(***************************************************************************)
(* callbacks/Listener.hpp and Matcher.hpp: what makes a callable a         *)
(* listener or a matcher, and for which event types.  A callable is the    *)
(* set of event types it can be invoked with, what it returns, and the     *)
(* list event_type_list_t, if it declares one.                             *)
(*                                                                         *)
(* The Manager's constant HandledBy is the range of                        *)
(* listener_event_type_list.                                               *)
(***************************************************************************)
EXTENDS Events, TypeLists

\* EventTypeList with its order.
OrderedEventTypeList ==
  <<"BeginParallelForEvent",     "EndParallelForEvent",
    "BeginParallelReduceEvent",  "EndParallelReduceEvent",
    "BeginParallelScanEvent",    "EndParallelScanEvent",
    "BeginSingleEvent",          "EndSingleEvent",
    "BeginFenceEvent",           "EndFenceEvent",
    "AllocateDataEvent",         "DeallocateDataEvent",
    "BeginDeepCopyEvent",        "EndDeepCopyEvent",
    "CreateProfileSectionEvent", "DestroyProfileSectionEvent",
    "StartProfileSectionEvent",  "StopProfileSectionEvent",
    "PushRegionEvent",           "PopRegionEvent",
    "ProfileEvent">>

ASSUME OrderedEventTypes ==
  Range(OrderedEventTypeList) = EventTypeList /\ IsInjective(OrderedEventTypeList)

-----------------------------------------------------------------------------
(***************************************************************************)
(* Listeners.  Whatever a callable returns converts to void; the types a   *)
(* concept is satisfied for are a set.                                     *)
(***************************************************************************)
IsListenerFor(callable) == callable.invocable

has_event_type_list(callable) == "event_type_list_t" \in DOMAIN callable

ListenerFor(callable, types) == type_list_all(IsListenerFor(callable), types)

ImplicitListener(callable) == type_list_any(IsListenerFor(callable), OrderedEventTypeList)

ExplicitListener(callable) ==
  has_event_type_list(callable) /\ ListenerFor(callable, callable.event_type_list_t)

Listener(callable) == ExplicitListener(callable) \/ ImplicitListener(callable)

listener_event_type_list(callable) ==
  IF has_event_type_list(callable)
  THEN callable.event_type_list_t
  ELSE filter_type_list(IsListenerFor(callable), OrderedEventTypeList)

-----------------------------------------------------------------------------
(***************************************************************************)
(* Matchers.                                                               *)
(***************************************************************************)
IsMatcherFor(callable) == {t \in callable.invocable : callable.returns = "bool"}

MatcherFor(callable, types) == type_list_all(IsMatcherFor(callable), types)

matcher_event_type_list(callable) ==
  filter_type_list(IsMatcherFor(callable), OrderedEventTypeList)

Matcher(callable) == type_list_any(IsMatcherFor(callable), OrderedEventTypeList)

Predicate(types) == [invocable |-> types, returns |-> "bool"]

AnyEventMatcher   == Predicate(EventTypeList)
EventNameMatcher  == Predicate(NamedEvent \cup DataEvent)
EventRegexMatcher == Predicate(NamedEvent \cup DataEvent)
EventQueueMatcher == Predicate(EnqueuedEvent)
EventIdMatcher    == Predicate(IndexedEvent)

\* Their requires clauses hold of what they are given.
EventTypeMatcher(matcher, types) ==
  Predicate({t \in Range(types) : MatcherFor(matcher, <<t>>)})

ConjunctionMatcher(matchers) ==
  Predicate({t \in EventTypeList : \A i \in DOMAIN matchers : MatcherFor(matchers[i], <<t>>)})

EventBeginEndIdMatcher(begin) == Predicate({begin, paired_event[begin]})

\* The overloads for single event types and the one for every other type.
EventInProfileSectionMatcher == Predicate(EventTypeList)
EventRegionMatcher           == Predicate(EventTypeList)

-----------------------------------------------------------------------------
(***************************************************************************)
(* The listeners of the library.                                           *)
(***************************************************************************)
RecorderListener(types) ==
  [invocable |-> Range(types), returns |-> "void", event_type_list_t |-> types]

RecorderRequires(matcher, types) == type_list_size(types) > 0 /\ MatcherFor(matcher, types)

TimerListener(matcher) ==
  [invocable |-> Range(matcher_event_type_list(matcher)), returns |-> "void"]

RegionTimerListener ==
  TimerListener(EventTypeMatcher(EventRegionMatcher, <<"PushRegionEvent", "PopRegionEvent">>))

\* The conjunction of a matcher for the queue and of the given one must be a
\* matcher for the begin event.
BeginEndTimerListener(begin) == TimerListener(EventBeginEndIdMatcher(begin))

BeginEndTimerRequires(matcher, begin) ==
  begin \in BeginEvent /\ MatcherFor(ConjunctionMatcher(<<EventQueueMatcher, matcher>>), <<begin>>)

-----------------------------------------------------------------------------
(***************************************************************************)
(* The tuple of lists of the Manager, one per event type, in the order of  *)
(* EventTypeList.                                                          *)
(***************************************************************************)
EmptyListsOfCallOperators ==
  type_list_to_tuple(transform_type_list([t \in EventTypeList |-> <<>>], OrderedEventTypeList))

\* register_listener_impl: push_back in the list of each type it handles.
PushBackModel(types, model, registered) ==
  LET PushPointer(lists, t) ==
        IF type_list_contains(t, OrderedEventTypeList)
        THEN [lists EXCEPT ![type_list_index(t, OrderedEventTypeList)] = Append(@, model)]
        ELSE lists
  IN FoldLeft(PushPointer, registered, for_each(types))

\* unregister_listener: the pointers are removed from the lists of the types.
RemoveModel(types, model, registered) ==
  LET Other(m) == m # model
      RemovePointer(lists, t) ==
        IF type_list_contains(t, OrderedEventTypeList)
        THEN [lists EXCEPT ![type_list_index(t, OrderedEventTypeList)] = SelectSeq(@, Other)]
        ELSE lists
  IN FoldLeft(RemovePointer, registered, for_each(types))
=============================================================================
