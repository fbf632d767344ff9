--------------------- MODULE ManagerImplementsEventBus ---------------------
(***************************************************************************)
(* The Manager implements the event bus: registered listeners are the      *)
(* subscribers, and an event is published when its dispatch begins to walk *)
(* a list.  What the thread has still to deliver is what lies ahead of its *)
(* iterator in that list.                                                  *)
(***************************************************************************)
EXTENDS Manager

interestOfListeners == [n \in Nodes(listeners) |-> HandledBy[callable[n].of]]

deliveryOf(th) ==
  IF Walking(th)
  THEN [type |-> frame[th].type, id |-> frame[th].id, current |-> frame[th].cursor,
        rest |-> {Walked(th)[i] : i \in Upcoming(th)}]
  ELSE [rest |-> {}]

Bus == INSTANCE EventBus WITH
  Type <- EventType,
  subscribers <- listeners,
  interest <- interestOfListeners,
  delivery <- [th \in Thread |-> deliveryOf(th)]

\* Every behaviour of the Manager is one of the event bus: no event is lost,
\* repeated, reordered or shown with two ids, whatever the listeners register
\* and unregister while it is under way.
ImplementsEventBus == Bus!BusSpec
=============================================================================
