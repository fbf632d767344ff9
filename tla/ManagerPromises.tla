-------------------------- MODULE ManagerPromises --------------------------
(***************************************************************************)
(* What the Manager's invariant is good for: the Manager implements the    *)
(* event bus, and the ids it gives to kernels, custom events and sections  *)
(* are unique, for every set of threads, listeners and event types and any *)
(* number of open kernels; and the end event of a kernel carries the id of *)
(* its begin event alone, in a program whose kernels the Manager numbers.  *)
(***************************************************************************)
EXTENDS ManagerImplementsEventBus, ManagerProofs

(***************************************************************************)
(* The event bus.                                                          *)
(***************************************************************************)

\* Both modules mean the same lists.
LEMMA BusLists ==
  ASSUME NEW l, NEW n
  PROVE  /\ Bus!Nodes(l) = Nodes(l)
         /\ Bus!Position(l, n) = Position(l, n)
         /\ Bus!Link(l, n) = Link(l, n)
         /\ Bus!Unlink(l, n) = Unlink(l, n)
  <1>1. Bus!Nodes(l) = Nodes(l) /\ Bus!Position(l, n) = Position(l, n) /\ Bus!Link(l, n) = Link(l, n)
    BY DEF Bus!Nodes, Nodes, Bus!Range, Range, Bus!Position, Position, Bus!Link, Link
  <1>2. \A i : Bus!RemoveAt(l, i) = RemoveAt(l, i)
    BY DEF Bus!RemoveAt, RemoveAt
  <1> QED BY <1>1, <1>2 DEF Bus!Unlink, Unlink

-----------------------------------------------------------------------------
\* m comes before n in the list.
Before(l, m, n) == \E i, j \in DOMAIN l : i < j /\ l[i] = m /\ l[j] = n

\* A list of distinct nodes is in a strict order.
LEMMA BeforeIsOrder ==
  ASSUME NEW S, NEW l \in Seq(S), IsInjective(l), NEW m, NEW n, NEW k
  PROVE  /\ ~Before(l, n, n)
         /\ Before(l, m, n) /\ Before(l, n, k) => Before(l, m, k)
         /\ Before(l, m, n) => ~Before(l, n, m)
         /\ Before(l, m, n) => Position(l, m) < Position(l, n)
  <1>1. DOMAIN l = 1 .. Len(l) /\ \A i, j \in DOMAIN l : l[i] = l[j] => i = j
    BY DEF IsInjective
  <1>2. Before(l, m, n) => Position(l, m) < Position(l, n)
    <2> SUFFICES ASSUME Before(l, m, n) PROVE Position(l, m) < Position(l, n)
      OBVIOUS
    <2>1. PICK i, j \in DOMAIN l : i < j /\ l[i] = m /\ l[j] = n
      BY DEF Before
    <2>2. Position(l, m) = i /\ Position(l, n) = j
      BY <1>1, <2>1 DEF Position
    <2> QED BY <2>1, <2>2
  <1> QED BY <1>1, <1>2 DEF Before

\* Linking a node at the end puts it after those that are there.
LEMMA LinkBefore ==
  ASSUME NEW S, NEW l \in Seq(S), NEW n \in S \ Nodes(l), NEW c \in Nodes(l), NEW m \in Nodes(l)
  PROVE  /\ Before(Link(l, n), c, m) <=> Before(l, c, m)
         /\ Before(Link(l, n), c, n)
  <1> DEFINE k == Link(l, n)
  <1>1. /\ DOMAIN l = 1 .. Len(l) /\ DOMAIN k = 1 .. Len(l) + 1
        /\ \A i \in 1 .. Len(l) : k[i] = l[i]
        /\ k[Len(l) + 1] = n
    BY LinkProperties
  <1> HIDE DEF k
  <1>2. PICK p \in 1 .. Len(l) : l[p] = c
    BY NodesProperties
  <1>3. c # n /\ m # n
    OBVIOUS
  <1>4. Before(k, c, n)
    BY <1>1, <1>2 DEF Before
  <1>5. Before(l, c, m) => Before(k, c, m)
    BY <1>1 DEF Before
  <1>6. Before(k, c, m) => Before(l, c, m)
    BY <1>1, <1>3 DEF Before
  <1> QED BY <1>4, <1>5, <1>6 DEF k

\* Unlinking a node leaves the others in order.
LEMMA UnlinkBefore ==
  ASSUME NEW S, NEW l \in Seq(S), IsInjective(l), NEW n, NEW c, c # n, NEW m, m # n
  PROVE  Before(Unlink(l, n), c, m) <=> Before(l, c, m)
  BY UnlinkOrder DEF Before

-----------------------------------------------------------------------------
\* Whichever list a thread walks, it has still to call the registered
\* listeners that handle the event and come after the one it is calling.
Rest(th) == {Walked(th)[i] : i \in Upcoming(th)}

Outstanding(th) ==
  {n \in Nodes(listeners) : /\ Handles(n, frame[th].type)
                            /\ frame[th].cursor # NoNode => Before(listeners, frame[th].cursor, n)}

RestAgrees == \A th \in Thread : Walking(th) => Rest(th) = Outstanding(th)

LEMMA RestProperties == IInv => RestAgrees
  <1> SUFFICES ASSUME IInv, NEW th \in Thread, Walking(th)
               PROVE  Rest(th) = Outstanding(th)
    BY DEF RestAgrees
  <1> DEFINE t == frame[th].type
             c == frame[th].cursor
             l == Walked(th)
  <1>1. /\ listeners \in Seq(Node) /\ IsInjective(listeners)
        /\ DOMAIN listeners = 1 .. Len(listeners)
    BY DEF IInv, TypeOK, ListsAgree
  <1>2. c # NoNode => c \in Nodes(l)
    BY DEF IInv, CursorsListed
  <1>3. CASE frame[th].pc = "registered"
    <2>1. t \in EventTypeList /\ l = registered_callbacks[t]
      BY <1>3 DEF IInv, KokkosFrames, Walked
    <2>2. /\ Nodes(l) = {n \in Nodes(listeners) : Handles(n, t)}
          /\ l \in Seq(Node)
          /\ \A i, j \in DOMAIN l : l[i] = l[j] => i = j
          /\ \A i, j \in DOMAIN l : i < j => Before(listeners, l[i], l[j])
      BY <2>1 DEF IInv, TypeOK, ListsAgree, IsInjective, InOrderOf, Before
    <2>3. Rest(th) = {l[i] : i \in Ahead(l, c # NoNode, c)}
      BY <1>3 DEF Rest, Upcoming
    <2> HIDE DEF l, c, t
    <2>4. DOMAIN l = 1 .. Len(l) /\ \A n : n \in Nodes(l) <=> \E i \in 1 .. Len(l) : l[i] = n
      BY <2>2, NodesProperties
    <2>5. ASSUME NEW n \in Rest(th)
          PROVE  n \in Nodes(l) /\ (c # NoNode => Before(listeners, c, n))
      BY <2>2, <2>3, <2>4, <2>5 DEF Ahead
    <2>6. ASSUME NEW n \in Nodes(l), c # NoNode => Before(listeners, c, n)
          PROVE  n \in Rest(th)
      <3>1. PICK i \in DOMAIN l : l[i] = n
        BY <2>4
      <3>2. ASSUME c # NoNode
            PROVE  \E j \in DOMAIN l : l[j] = c /\ j < i
        <4>1. PICK j \in DOMAIN l : l[j] = c
          BY <1>2, <2>4, <3>2
        <4>2. Before(listeners, c, n) /\ ~Before(listeners, n, c) /\ c # n
          BY <1>1, <2>6, <3>2, BeforeIsOrder
        <4> QED BY <2>2, <2>4, <3>1, <4>1, <4>2
      <3> QED BY <2>3, <3>1, <3>2 DEF Ahead
    <2> QED BY <2>2, <2>5, <2>6 DEF t, c, Outstanding
  <1>4. CASE frame[th].pc = "listeners"
    <2>1. l = listeners
      BY <1>4 DEF Walked
    <2>2. Rest(th) = {listeners[i] : i \in {j \in Ahead(listeners, c # NoNode, c) : Handles(listeners[j], t)}}
      BY <1>4, <2>1 DEF Rest, Upcoming
    <2>3. \A n : n \in Nodes(listeners) <=> \E i \in 1 .. Len(listeners) : listeners[i] = n
      BY <1>1, NodesProperties
    <2> HIDE DEF c, t
    <2>4. ASSUME NEW n \in Rest(th)
          PROVE  n \in Nodes(listeners) /\ Handles(n, t) /\ (c # NoNode => Before(listeners, c, n))
      BY <1>1, <2>2, <2>3, <2>4 DEF Ahead, Before
    <2>5. ASSUME NEW n \in Nodes(listeners), Handles(n, t), c # NoNode => Before(listeners, c, n)
          PROVE  n \in Rest(th)
      BY <1>1, <2>2, <2>3, <2>5 DEF Ahead, Before, IsInjective
    <2> QED BY <2>4, <2>5 DEF t, c, Outstanding
  <1> QED BY <1>3, <1>4 DEF Walking

\* A thread delivers an event while it walks.
LEMMA DeliveryProperties ==
  ASSUME NEW th \in Thread
  PROVE  /\ ~Walking(th) => deliveryOf(th) = [rest |-> {}]
         /\ Walking(th) => deliveryOf(th) = [type |-> frame[th].type, id |-> frame[th].id,
                                            current |-> frame[th].cursor, rest |-> Rest(th)]
         /\ Bus!Active(th) <=> Walking(th)
  <1>1. \A t, i, c, r : [type |-> t, id |-> i, current |-> c, rest |-> r] # [rest |-> {}]
    <2> SUFFICES ASSUME NEW t, NEW i, NEW c, NEW r,
                        [type |-> t, id |-> i, current |-> c, rest |-> r] = [rest |-> {}]
                 PROVE  FALSE
      OBVIOUS
    <2>1. "type" \in DOMAIN [type |-> t, id |-> i, current |-> c, rest |-> r]
      OBVIOUS
    <2>2. "type" \notin DOMAIN [rest |-> {}]
      OBVIOUS
    <2> QED BY <2>1, <2>2
  <1> QED BY <1>1 DEF deliveryOf, Rest, Bus!Active, Bus!Nothing

-----------------------------------------------------------------------------
(***************************************************************************)
(* The steps of the Manager, as the event bus sees them.                   *)
(***************************************************************************)

\* A step that leaves the lists and the walk of a thread alone leaves its
\* delivery alone.
LEMMA SameDelivery ==
  ASSUME UNCHANGED listVars, NEW th \in Thread,
         frame'[th] = frame[th] \/ (~Walking(th) /\ ~Walking(th)')
  PROVE  deliveryOf(th)' = deliveryOf(th)
  BY DEF listVars, deliveryOf, Walking, Walked, Upcoming, Handles

LEMMA BusStutters ==
  ASSUME UNCHANGED listVars,
         \A th \in Thread : frame'[th] = frame[th] \/ (~Walking(th) /\ ~Walking(th)')
  PROVE  UNCHANGED Bus!busVars
  <1>1. \A th \in Thread : deliveryOf(th)' = deliveryOf(th)
    BY SameDelivery
  <1>2. listeners' = listeners /\ interestOfListeners' = interestOfListeners
    BY DEF listVars, interestOfListeners
  <1> QED BY <1>1, <1>2 DEF Bus!busVars

\* When one thread goes on, its delivery changes and nothing else.
LEMMA OneDelivery ==
  ASSUME IInv, UNCHANGED listVars, NEW th \in Thread, NEW f, frame' = [frame EXCEPT ![th] = f]
  PROVE  /\ UNCHANGED <<listeners, interestOfListeners>>
         /\ [u \in Thread |-> deliveryOf(u)]' =
              [[u \in Thread |-> deliveryOf(u)] EXCEPT ![th] = deliveryOf(th)']
         /\ frame'[th] = f
  <1>1. frame'[th] = f /\ \A u \in Thread \ {th} : frame'[u] = frame[u]
    BY DEF IInv, TypeOK
  <1>2. ASSUME NEW u \in Thread, u # th
        PROVE  deliveryOf(u)' = deliveryOf(u)
    <2>1. frame'[u] = frame[u]
      BY <1>1, <1>2
    <2> QED BY <2>1, SameDelivery
  <1>3. [u \in Thread |-> deliveryOf(u)]' =
          [[u \in Thread |-> deliveryOf(u)] EXCEPT ![th] = deliveryOf(th)']
    BY <1>2
  <1> QED BY <1>1, <1>3 DEF listVars, interestOfListeners

\* A walk begins: the event is published to the listeners that handle it.
LEMMA PublishStep ==
  ASSUME IInv, IInv', UNCHANGED listVars, NEW th \in Thread, NEW f,
         frame' = [frame EXCEPT ![th] = f], ~Walking(th), Walking(th)',
         f.cursor = NoNode, f.type \in EventType
  PROVE  Bus!Publish(th)
  <1> DEFINE d == [u \in Thread |-> deliveryOf(u)]
  <1>1. frame'[th] = f /\ f \in Frame
    BY OneDelivery DEF IInv, TypeOK
  <1>2. deliveryOf(th)' = [type |-> f.type, id |-> f.id, current |-> NoNode, rest |-> Rest(th)']
    BY <1>1 DEF deliveryOf, Rest
  <1>3. Rest(th)' = {n \in Nodes(listeners) : Handles(n, f.type)}
    <2>1. IInv' => RestAgrees'
      BY RestProperties, PTL
    <2>2. Rest(th)' = Outstanding(th)'
      BY <2>1 DEF RestAgrees
    <2> QED BY <1>1, <2>2 DEF Outstanding, listVars, Handles
  <1>4. deliveryOf(th)' \in Bus!Delivery
    <2>1. f.id \in Nat /\ Nodes(listeners) \subseteq Node
      BY <1>1, NodesProperties DEF Frame, IInv, TypeOK
    <2> QED BY <1>2, <1>3, <2>1 DEF Bus!Delivery
  <1>5. Rest(th)' = {n \in Bus!Nodes(listeners) : f.type \in interestOfListeners[n]}
    BY <1>3, BusLists DEF interestOfListeners, Handles
  <1>6. UNCHANGED <<listeners, interestOfListeners>> /\ d' = [d EXCEPT ![th] = deliveryOf(th)']
    BY OneDelivery
  <1>7. ~Bus!Active(th)
    BY DeliveryProperties
  <1>8. d'[th] = deliveryOf(th)'
    OBVIOUS
  <1>9. /\ d'[th].type = f.type
        /\ d'[th].current = NoNode
        /\ d'[th].rest = Rest(th)'
    BY <1>2, <1>8
  <1> QED BY <1>4, <1>5, <1>6, <1>7, <1>8, <1>9 DEF Bus!Publish

\* InvokeListener: the first listener ahead of the iterator is the earliest
\* subscriber who has yet to get the event.
LEMMA DeliverStep ==
  ASSUME IInv, IInv', NEW th \in Thread, InvokeListener(th)
  PROVE  Bus!Deliver(th)
  <1> DEFINE d == [u \in Thread |-> deliveryOf(u)]
             l == Walked(th)
             c == frame[th].cursor
             t == frame[th].type
  <1>1. /\ UNCHANGED listVars /\ Walking(th)
    BY DEF InvokeListener, managerVars
  <1>2. PICK i \in Upcoming(th) : /\ \A j \in Upcoming(th) : i <= j
                                  /\ frame' = [frame EXCEPT ![th].cursor = l[i]]
    BY DEF InvokeListener
  <1> DEFINE n == l[i]
             f == [frame[th] EXCEPT !.cursor = n]
  <1>3. frame' = [frame EXCEPT ![th] = f] /\ frame[th] \in Frame
    BY <1>2 DEF IInv, TypeOK
  <1>4. /\ frame'[th] = f /\ f.pc = frame[th].pc /\ f.type = t /\ f.id = frame[th].id /\ f.cursor = n
    BY <1>3 DEF IInv, TypeOK, Frame
  <1>5. /\ listeners \in Seq(Node) /\ IsInjective(listeners)
        /\ l \in Seq(Node) /\ IsInjective(l)
        /\ \A k, h \in DOMAIN l : k < h => Before(listeners, l[k], l[h])
    <2>1. listeners \in Seq(Node) /\ IsInjective(listeners)
      BY DEF IInv, TypeOK, ListsAgree
    <2>2. CASE frame[th].pc = "registered"
      <3>1. t \in EventTypeList /\ l = registered_callbacks[t]
        BY <2>2 DEF IInv, KokkosFrames, Walked
      <3> QED BY <2>1, <3>1 DEF IInv, TypeOK, ListsAgree, InOrderOf, Before
    <2>3. CASE frame[th].pc = "listeners"
      <3>1. l = listeners
        BY <2>3 DEF Walked
      <3> QED BY <2>1, <3>1 DEF Before
    <2> QED BY <1>1, <2>2, <2>3 DEF Walking
  <1>6. /\ n \in Rest(th)
        /\ \A m \in Rest(th) : m = n \/ Before(listeners, n, m)
    <2>1. Upcoming(th) \subseteq DOMAIN l /\ DOMAIN l = 1 .. Len(l)
      BY <1>5 DEF Upcoming, Ahead
    <2> HIDE DEF l
    <2>2. Rest(th) = {l[k] : k \in Upcoming(th)}
      BY DEF Rest, l
    <2>3. ASSUME NEW k \in Upcoming(th)
          PROVE  l[k] = n \/ Before(listeners, n, l[k])
      <3>1. i <= k /\ i \in 1 .. Len(l) /\ k \in 1 .. Len(l)
        BY <1>2, <2>1
      <3>2. i = k \/ i < k
        BY <3>1
      <3> QED BY <1>5, <2>1, <3>2
    <2> QED BY <2>2, <2>3
  <1> HIDE DEF n, f, l
  <1>7. /\ Rest(th) = {m \in Nodes(listeners) : Handles(m, t) /\ (c # NoNode => Before(listeners, c, m))}
        /\ Rest(th)' = {m \in Nodes(listeners) : Handles(m, t) /\ (n # NoNode => Before(listeners, n, m))}
    <2>1. RestAgrees
      BY RestProperties
    <2>2. IInv' => RestAgrees'
      BY RestProperties, PTL
    <2>3. Walking(th)' /\ frame'[th].type = t /\ frame'[th].cursor = n
      BY <1>1, <1>4 DEF Walking
    <2>4. Rest(th)' = Outstanding(th)'
      BY <2>2, <2>3 DEF RestAgrees
    <2> QED BY <1>1, <2>1, <2>3, <2>4 DEF RestAgrees, Outstanding, Handles, listVars, Before
  <1> HIDE DEF c, t
  <1>8. n \in Node /\ n # NoNode
    BY <1>5, <1>6, <1>7, NodesProperties, ManagerAssumption
  <1>9. Rest(th)' = Rest(th) \ {n}
    <2>1. ~Before(listeners, n, n)
      BY <1>5, BeforeIsOrder
    <2>2. \A m : Before(listeners, n, m) /\ Before(listeners, c, n) => Before(listeners, c, m)
      BY <1>5, BeforeIsOrder
    <2> QED BY <1>6, <1>7, <1>8, <2>1, <2>2
  <1>10. \A m \in Rest(th) : Bus!Position(listeners, n) <= Bus!Position(listeners, m)
    <2> SUFFICES ASSUME NEW m \in Rest(th), m # n
                 PROVE  Position(listeners, n) <= Position(listeners, m)
      <3>1. Position(listeners, n) \in 1 .. Len(listeners)
        BY <1>5, <1>6, <1>7, PositionProperties
      <3> QED BY <3>1, BusLists
    <2>1. Position(listeners, n) < Position(listeners, m)
      BY <1>5, <1>6, BeforeIsOrder
    <2>2. Position(listeners, n) \in Nat /\ Position(listeners, m) \in Nat
      BY <1>5, <1>6, <1>7, PositionProperties
    <2> QED BY <2>1, <2>2
  <1>11. deliveryOf(th) = [type |-> t, id |-> frame[th].id, current |-> c, rest |-> Rest(th)]
    BY <1>1, DeliveryProperties DEF t, c
  <1>12. deliveryOf(th)' = [type |-> t, id |-> frame[th].id, current |-> n, rest |-> Rest(th) \ {n}]
    <2>1. Walking(th)'
      BY <1>1, <1>4 DEF Walking
    <2> QED BY <1>4, <1>9, <2>1 DEF deliveryOf, Rest
  <1>13. UNCHANGED <<listeners, interestOfListeners>> /\ d' = [d EXCEPT ![th] = deliveryOf(th)']
    BY <1>1, <1>3, OneDelivery
  <1>14. d[th] = deliveryOf(th) /\ Bus!Active(th)
    BY <1>1, DeliveryProperties
  <1> DEFINE e == deliveryOf(th)
  <1>15. /\ e = [type |-> t, id |-> frame[th].id, current |-> c, rest |-> Rest(th)]
         /\ d[th] = e
         /\ d' = [d EXCEPT ![th] = [type |-> t, id |-> frame[th].id, current |-> n, rest |-> Rest(th) \ {n}]]
    BY <1>11, <1>12, <1>13
  <1> HIDE DEF e, d
  <1>16. e.rest = Rest(th) /\ e.type = t /\ e.id = frame[th].id
    BY <1>15
  <1>17. d' = [d EXCEPT ![th] = [type |-> @.type, id |-> @.id, current |-> n, rest |-> @.rest \ {n}]]
    BY <1>15, <1>16
  <1>18. \E m \in d[th].rest :
           /\ \A k \in d[th].rest : Bus!Position(listeners, m) <= Bus!Position(listeners, k)
           /\ d' = [d EXCEPT ![th] = [type |-> @.type, id |-> @.id, current |-> m, rest |-> @.rest \ {m}]]
    <2>1. d[th].rest = Rest(th)
      BY <1>15, <1>16
    <2> QED BY <1>6, <1>10, <1>17, <2>1
  <1> QED BY <1>13, <1>14, <1>18, Zenon DEF Bus!Deliver, d

\* FinishDispatch: nobody has yet to get the event.
LEMMA CompleteStep ==
  ASSUME IInv, NEW th \in Thread, FinishDispatch(th)
  PROVE  Bus!Complete(th)
  <1> DEFINE d == [u \in Thread |-> deliveryOf(u)]
  <1>1. /\ UNCHANGED listVars /\ Walking(th) /\ Upcoming(th) = {}
        /\ frame' = [frame EXCEPT ![th] = Idle]
    BY DEF FinishDispatch, managerVars
  <1>2. frame'[th] = Idle /\ UNCHANGED <<listeners, interestOfListeners>>
        /\ d' = [d EXCEPT ![th] = deliveryOf(th)']
    BY <1>1, OneDelivery
  <1>3. deliveryOf(th)' = [rest |-> {}]
    BY <1>2 DEF deliveryOf, Walking, Idle
  <1>4. Bus!Active(th) /\ deliveryOf(th).rest = {}
    BY <1>1, DeliveryProperties DEF Rest
  <1> QED BY <1>2, <1>3, <1>4 DEF Bus!Complete, Bus!Nothing

\* While the lists change only the thread that changes them can be walking,
\* and it is in the body of a listener.
LEMMA WalkingWhileChanging ==
  ASSUME IInv, NEW th \in Thread, MayChangeListeners(th), NEW u \in Thread, Walking(u)
  PROVE  u = th /\ frame[u].cursor # NoNode /\ frame[u].cursor \in Nodes(listeners)
  <1>1. u = th /\ frame[u].cursor # NoNode
    BY DEF MayChangeListeners, Walking
  <1>2. frame[u].cursor \in Nodes(Walked(u))
    BY <1>1 DEF IInv, CursorsListed
  <1>3. Nodes(Walked(u)) \subseteq Nodes(listeners)
    BY DEF Walked, IInv, KokkosFrames, ListsAgree
  <1> QED BY <1>1, <1>2, <1>3

\* register_listener: a new subscriber, who gets what is under way.
LEMMA SubscribeStep ==
  ASSUME IInv, IInv', NEW th \in Thread, NEW c \in Callable, NEW shared \in BOOLEAN,
         register_listener(th, c, shared)
  PROVE  \E n \in Node : Bus!Subscribe(n)
  <1> DEFINE d == [u \in Thread |-> deliveryOf(u)]
  <1>1. PICK n \in Node \ Nodes(listeners) :
          /\ listeners' = Link(listeners, n)
          /\ callable' = [m \in Nodes(listeners) \cup {n} |->
                            IF m = n THEN [of |-> c, shared |-> shared] ELSE callable[m]]
    BY DEF register_listener, SetLists
  <1>2. UNCHANGED frame /\ MayChangeListeners(th)
    BY DEF register_listener, SetLists
  <1>3. listeners \in Seq(Node) /\ Nodes(listeners') = Nodes(listeners) \cup {n}
    BY <1>1, LinkProperties DEF IInv, TypeOK
  <1>4. /\ \A m \in Nodes(listeners) : callable'[m].of = callable[m].of
        /\ callable'[n].of = c
    BY <1>1
  <1>5. /\ interestOfListeners' \in [Nodes(listeners) \cup {n} -> SUBSET EventType]
        /\ interestOfListeners'[n] = HandledBy[c]
        /\ \A m \in Nodes(listeners) : interestOfListeners'[m] = interestOfListeners[m]
    <2>1. interestOfListeners' = [m \in Nodes(listeners) \cup {n} |-> HandledBy[callable'[m].of]]
      BY <1>3 DEF interestOfListeners
    <2>2. \A m \in Nodes(listeners) \cup {n} : callable'[m].of \in Callable
      BY <1>4 DEF IInv, TypeOK, Model
    <2> QED BY <1>4, <2>1, <2>2, ManagerAssumption DEF interestOfListeners
  <1>6. ASSUME NEW u \in Thread
        PROVE  deliveryOf(u)' = IF Bus!Active(u) /\ deliveryOf(u).type \in HandledBy[c]
                                THEN [deliveryOf(u) EXCEPT !.rest = @ \cup {n}] ELSE deliveryOf(u)
    <2> DEFINE e == [type |-> frame[u].type, id |-> frame[u].id, current |-> frame[u].cursor,
                     rest |-> Rest(u)]
    <2>1. CASE ~Walking(u)
      BY <1>2, <2>1, DeliveryProperties DEF deliveryOf, Walking
    <2>2. CASE Walking(u)
      <3>1. frame[u].cursor # NoNode /\ frame[u].cursor \in Nodes(listeners)
        BY <1>2, <2>2, WalkingWhileChanging
      <3>2. Rest(u) = Outstanding(u)
        BY <2>2, RestProperties DEF RestAgrees
      <3>3. Rest(u)' = Outstanding(u)'
        <4>1. IInv' => RestAgrees'
          BY RestProperties, PTL
        <4> QED BY <1>2, <2>2, <4>1 DEF RestAgrees, Walking
      <3>4. Outstanding(u)' = Outstanding(u) \cup {m \in {n} : frame[u].type \in HandledBy[c]}
        <4>1. \A m \in Nodes(listeners) :
                 Before(listeners', frame[u].cursor, m) <=> Before(listeners, frame[u].cursor, m)
          BY <1>1, <1>3, <3>1, LinkBefore
        <4>2. Before(listeners', frame[u].cursor, n)
          BY <1>1, <1>3, <3>1, LinkBefore
        <4> QED BY <1>2, <1>3, <1>4, <3>1, <4>1, <4>2 DEF Outstanding, Handles, Before
      <3>5. /\ deliveryOf(u)' = [type |-> frame[u].type, id |-> frame[u].id,
                                 current |-> frame[u].cursor, rest |-> Rest(u)']
            /\ deliveryOf(u) = e /\ Bus!Active(u)
        BY <1>2, <2>2, DeliveryProperties DEF deliveryOf, Rest, Walking
      <3>6. [e EXCEPT !.rest = @ \cup {n}] = [type |-> frame[u].type, id |-> frame[u].id,
                 current |-> frame[u].cursor, rest |-> Rest(u) \cup {n}]
        OBVIOUS
      <3> QED BY <3>2, <3>3, <3>4, <3>5, <3>6, SMTT(30)
    <2> QED BY <2>1, <2>2
  <1>7. d' = [u \in Thread |-> IF Bus!Active(u) /\ d[u].type \in interestOfListeners'[n]
                              THEN [d[u] EXCEPT !.rest = @ \cup {n}] ELSE d[u]]
    BY <1>5, <1>6
  <1>8. /\ n \notin Bus!Nodes(listeners)
        /\ listeners' = Bus!Link(listeners, n)
        /\ interestOfListeners' \in [Bus!Nodes(listeners) \cup {n} -> SUBSET EventType]
        /\ \A m \in Bus!Nodes(listeners) : interestOfListeners'[m] = interestOfListeners[m]
    BY <1>1, <1>5, BusLists
  <1> QED BY <1>7, <1>8 DEF Bus!Subscribe

\* unregister_listener: a subscriber leaves, who is not being called.
LEMMA UnsubscribeStep ==
  ASSUME IInv, IInv', NEW th \in Thread, NEW n \in Nodes(listeners),
         MayUnregister(th, n), Unregister(n)
  PROVE  Bus!Unsubscribe(n)
  <1> DEFINE d == [u \in Thread |-> deliveryOf(u)]
  <1>1. /\ listeners' = Unlink(listeners, n)
        /\ callable' = [m \in Nodes(listeners) \ {n} |-> callable[m]]
        /\ UNCHANGED frame
        /\ frame[th].cursor # n /\ MayChangeListeners(th)
    BY DEF Unregister, SetLists, ModelsWithout, MayUnregister
  <1>2. /\ listeners \in Seq(Node) /\ IsInjective(listeners)
        /\ Nodes(listeners') = Nodes(listeners) \ {n}
    BY <1>1, UnlinkProperties DEF IInv, TypeOK, ListsAgree
  <1>3. interestOfListeners' = [m \in Nodes(listeners) \ {n} |-> interestOfListeners[m]]
    BY <1>1, <1>2 DEF interestOfListeners
  <1>4. ASSUME NEW u \in Thread
        PROVE  /\ deliveryOf(u)' = [deliveryOf(u) EXCEPT !.rest = @ \ {n}]
               /\ Bus!Active(u) => deliveryOf(u).current # n
    <2>1. CASE ~Walking(u)
      <3>1. deliveryOf(u) = [rest |-> {}] /\ deliveryOf(u)' = [rest |-> {}]
        BY <1>1, <2>1, DeliveryProperties DEF deliveryOf, Walking
      <3>2. [[rest |-> {}] EXCEPT !.rest = @ \ {n}] = [rest |-> {}]
        OBVIOUS
      <3> QED BY <2>1, <3>1, <3>2, DeliveryProperties
    <2>2. CASE Walking(u)
      <3> DEFINE e == [type |-> frame[u].type, id |-> frame[u].id, current |-> frame[u].cursor,
                       rest |-> Rest(u)]
      <3>1. frame[u].cursor # NoNode /\ frame[u].cursor \in Nodes(listeners) /\ frame[u].cursor # n
        BY <1>1, <2>2, WalkingWhileChanging
      <3>2. Rest(u) = Outstanding(u)
        BY <2>2, RestProperties DEF RestAgrees
      <3>3. Rest(u)' = Outstanding(u)'
        <4>1. IInv' => RestAgrees'
          BY RestProperties, PTL
        <4> QED BY <1>1, <2>2, <4>1 DEF RestAgrees, Walking
      <3>4. Outstanding(u)' = Outstanding(u) \ {n}
        <4>1. \A m \in Nodes(listeners) \ {n} :
                 Before(listeners', frame[u].cursor, m) <=> Before(listeners, frame[u].cursor, m)
          BY <1>1, <1>2, <3>1, UnlinkBefore
        <4> QED BY <1>1, <1>2, <3>1, <4>1 DEF Outstanding, Handles, Before
      <3>5. /\ deliveryOf(u)' = [type |-> frame[u].type, id |-> frame[u].id,
                                 current |-> frame[u].cursor, rest |-> Rest(u)']
            /\ deliveryOf(u) = e
        BY <1>1, <2>2, DeliveryProperties DEF deliveryOf, Rest, Walking
      <3>6. [e EXCEPT !.rest = @ \ {n}] = [type |-> frame[u].type, id |-> frame[u].id,
                 current |-> frame[u].cursor, rest |-> Rest(u) \ {n}]
        OBVIOUS
      <3> QED BY <3>1, <3>2, <3>3, <3>4, <3>5, <3>6
    <2> QED BY <2>1, <2>2
  <1>5. d' = [u \in Thread |-> [d[u] EXCEPT !.rest = @ \ {n}]]
    BY <1>4
  <1>6. \A u \in Thread : Bus!Active(u) => d[u].current # n
    BY <1>4
  <1>7. /\ n \in Bus!Nodes(listeners)
        /\ listeners' = Bus!Unlink(listeners, n)
        /\ interestOfListeners' = [m \in Bus!Nodes(listeners) \ {n} |-> interestOfListeners[m]]
    BY <1>1, <1>3, BusLists
  <1> QED BY <1>5, <1>6, <1>7 DEF Bus!Unsubscribe

\* finalize: no event is under way, and nobody is left.
LEMMA CloseStep ==
  ASSUME IInv, finalize
  PROVE  Bus!Close
  <1>1. /\ \A th \in Thread : frame[th].pc = "idle"
        /\ listeners' = <<>> /\ UNCHANGED frame
    BY DEF finalize
  <1>2. interestOfListeners' = <<>>
    <2>1. Nodes(<<>>) = {}
      BY DEF Nodes, Range
    <2> QED BY <1>1, <2>1 DEF interestOfListeners
  <1>3. \A th \in Thread : ~Walking(th) /\ deliveryOf(th)' = deliveryOf(th)
    BY <1>1 DEF deliveryOf, Walking
  <1> QED BY <1>1, <1>2, <1>3, DeliveryProperties DEF Bus!Close

\* dispatch_context_callback and dispatch begin a walk: the event is published.
LEMMA WalkBegins ==
  ASSUME IInv, IInv', NEW th \in Thread,
         dispatch_context_callback(th) \/ \E t \in Dispatched : dispatch(th, t)
  PROVE  Bus!Publish(th)
  <1>1. CASE dispatch_context_callback(th)
    <2>1. /\ UNCHANGED listVars /\ frame[th].pc = "context" /\ frame[th] \in Frame
          /\ frame[th].cursor = NoNode /\ frame[th].type \in EventType
      BY <1>1 DEF dispatch_context_callback, managerVars, IInv, TypeOK, KokkosFrames, EventType
    <2>2. PICK id, owner : frame' = [frame EXCEPT ![th] = [@ EXCEPT !.pc = "registered", !.id = id,
                                                                    !.owner = owner]]
                           \/ frame' = [frame EXCEPT ![th].pc = "registered"]
      BY <1>1 DEF dispatch_context_callback, IncrementIdIfNeeded, CallTool
    <2>3. PICK f : /\ frame' = [frame EXCEPT ![th] = f]
                   /\ f = [frame[th] EXCEPT !.pc = "registered", !.id = id, !.owner = owner]
                      \/ f = [frame[th] EXCEPT !.pc = "registered"]
      BY <2>2
    <2>4. /\ frame'[th] = f
          /\ f.pc = "registered" /\ f.type = frame[th].type /\ f.cursor = NoNode
      BY <2>1, <2>3 DEF Frame, IInv, TypeOK
    <2>5. ~Walking(th) /\ Walking(th)'
      BY <2>1, <2>4 DEF Walking
    <2> QED BY <2>1, <2>3, <2>4, <2>5, PublishStep
  <1>2. ASSUME NEW t \in Dispatched, dispatch(th, t)
        PROVE  Bus!Publish(th)
    <2> DEFINE f == [Idle EXCEPT !.pc = "listeners", !.type = t, !.id = next_event_id, !.owner = "manager"]
    <2>1. UNCHANGED listVars /\ frame[th] = Idle /\ frame' = [frame EXCEPT ![th] = f]
      BY <1>2 DEF dispatch, managerVars
    <2>2. f.pc = "listeners" /\ f.type = t /\ f.cursor = NoNode
      BY DEF Idle
    <2> HIDE DEF f
    <2>3. frame'[th] = f /\ t \in EventType
      BY <2>1, ManagerAssumption DEF IInv, TypeOK
    <2>4. ~Walking(th) /\ Walking(th)'
      BY <2>1, <2>2, <2>3 DEF Walking, Idle
    <2> QED BY <2>1, <2>2, <2>3, <2>4, PublishStep
  <1> QED BY <1>1, <1>2

\* Every step of the Manager is one of the bus, or changes nothing it knows.
LEMMA NextBus ==
  ASSUME IInv, IInv', [Next]_vars
  PROVE  [Bus!BusNext]_(Bus!busVars)
  <1>1. CASE UNCHANGED <<listVars, frame>>
    BY <1>1, BusStutters
  <1>2. ASSUME NEW t, NEW c, AttachTool(t, c) PROVE UNCHANGED <<listVars, frame>>
    BY <1>2 DEF AttachTool, listVars
  <1>3. CASE initialize
    BY <1>1, <1>3 DEF initialize, listVars
  <1>4. CASE finalize
    BY <1>4, CloseStep DEF Bus!BusNext
  <1>5. ASSUME NEW th \in Thread, ChangeListeners(th) PROVE Bus!BusNext
    <2>1. ASSUME NEW c \in Callable, NEW shared \in BOOLEAN, register_listener(th, c, shared)
          PROVE  Bus!BusNext
      BY <2>1, SubscribeStep DEF Bus!BusNext
    <2>2. ASSUME NEW n \in Nodes(listeners), MayUnregister(th, n), Unregister(n)
          PROVE  Bus!BusNext
      <3>1. n \in Node
        BY NodesProperties DEF IInv, TypeOK
      <3> QED BY <2>2, <3>1, UnsubscribeStep DEF Bus!BusNext
    <2>3. ASSUME NEW c \in Callable, unregister_pointer(th, c) PROVE Bus!BusNext
      <3>1. PICK i \in DOMAIN listeners : MayUnregister(th, listeners[i]) /\ Unregister(listeners[i])
        BY <2>3 DEF unregister_pointer
      <3>2. listeners[i] \in Nodes(listeners)
        BY DEF Nodes, Range
      <3> QED BY <2>2, <3>1, <3>2
    <2>4. ASSUME NEW n \in Node, unregister_iterator(th, n) PROVE Bus!BusNext
      BY <2>2, <2>4 DEF unregister_iterator
    <2> QED BY <1>5, <2>1, <2>3, <2>4 DEF ChangeListeners
  <1>6. ASSUME NEW th \in Thread, NEW t, NEW id, Emit(th, t, id) PROVE UNCHANGED Bus!busVars
    <2>1. UNCHANGED listVars
      BY <1>6 DEF Emit, managerVars
    <2>2. \A u \in Thread : frame'[u] = frame[u] \/ (~Walking(u) /\ ~Walking(u)')
      BY <1>6 DEF Emit, Walking, Idle, IInv, TypeOK
    <2> QED BY <2>1, <2>2, BusStutters
  <1>7. ASSUME NEW th \in Thread, EmitEvent(th) PROVE [Bus!BusNext]_(Bus!busVars)
    <2>1. ASSUME NEW t \in Dispatched, dispatch(th, t) PROVE Bus!BusNext
      BY <2>1, WalkBegins DEF Bus!BusNext
    <2>2. ASSUME NEW t, EmitOpening(th, t) \/ EmitOther(th, t) PROVE \E s, id : Emit(th, s, id)
      BY <2>2 DEF EmitOpening, EmitOther
    <2>3. ASSUME NEW i, NEW t, EmitClosing(th, i) \/ EmitSection(th, t, i)
          PROVE  \E s, id : Emit(th, s, id)
      BY <2>3 DEF EmitClosing, EmitSection
    <2> QED BY <1>6, <1>7, <2>1, <2>2, <2>3 DEF EmitEvent
  <1>8. ASSUME NEW th \in Thread, Advance(th) PROVE Bus!BusNext
    BY <1>8, WalkBegins, DeliverStep, CompleteStep DEF Advance, Bus!BusNext
  <1>9. CASE UNCHANGED vars
    BY <1>1, <1>9 DEF vars, managerVars
  <1> QED BY <1>1, <1>2, <1>3, <1>4, <1>5, <1>7, <1>8, <1>9 DEF Next

\* There is nobody to deliver to at first, and nothing to deliver.
LEMMA InitBus == Init => Bus!BusInit
  <1> SUFFICES ASSUME Init PROVE Bus!BusInit
    OBVIOUS
  <1>1. listeners = <<>> /\ frame = [th \in Thread |-> Idle]
    BY DEF Init
  <1>2. interestOfListeners = <<>>
    <2>1. Nodes(listeners) = {}
      BY <1>1 DEF Nodes, Range
    <2> QED BY <2>1 DEF interestOfListeners
  <1>3. \A th \in Thread : deliveryOf(th) = [rest |-> {}]
    BY <1>1 DEF deliveryOf, Walking, Idle
  <1> QED BY <1>1, <1>2, <1>3 DEF Bus!BusInit, Bus!Nothing

\* Every behaviour of the Manager is one of the event bus: whatever is
\* registered, unregistered and emitted meanwhile, an event reaches each
\* listener of its type once, in the order of registration and with one id
\* (register_listener, unregister_listener, both dispatch functions).
THEOREM EventBusImplemented == Spec => ImplementsEventBus
  <1>1. IInv /\ [Next]_vars => [Bus!BusNext]_(Bus!busVars)
    BY NextIInv, NextBus
  <1> QED BY InitBus, InitIInv, NextIInv, <1>1, PTL DEF Spec, ImplementsEventBus, Bus!BusSpec

-----------------------------------------------------------------------------
(***************************************************************************)
(* The ids.                                                                *)
(***************************************************************************)

\* Who numbers kernels and sections, and keeps a counter for it.
Numberer == {"manager", "tool"}

\* The Manager numbers sections by a counter of their own.
IsSection(t) == t = "CreateProfileSectionEvent"

Counter(x) ==
  IF x.owner = "tool" THEN tool_next_id
  ELSE IF IsSection(x.type) THEN next_section_id ELSE next_event_id

SameCounter(x, y) ==
  /\ x.owner = y.owner
  /\ x.owner = "manager" => (IsSection(x.type) <=> IsSection(y.type))

\* What a thread holds: the event it is dispatching and what it has begun.
Held(th) == 0 .. Len(open[th])

Given(th, i) == i \in Held(th) /\ HeldAt(th, i).owner \in Numberer

\* An event is numbered in the context callback, or after it.
NotYetNumbered ==
  \A th \in Thread : frame[th].pc \in {"idle", "context"} => frame[th].owner \notin Numberer

\* An id that was given is below the counter it came from,
BelowCounters ==
  \A th \in Thread : \A i \in Held(th) :
    Given(th, i) => HeldAt(th, i).id < Counter(HeldAt(th, i))

\* and was given once.
GivenOnce ==
  \A th, other \in Thread : \A i \in Held(th), j \in Held(other) :
    /\ Given(th, i)
    /\ Given(other, j)
    /\ HeldAt(th, i).id = HeldAt(other, j).id
    /\ SameCounter(HeldAt(th, i), HeldAt(other, j))
    => th = other /\ i = j

\* It was given through Kokkos: not the id of an event that the program
\* dispatches itself.
ThroughKokkos(th, i) == i # 0 \/ frame[th].pc = "registered"

\* The ids of the Manager do not outlive it, and are those of types the tool
\* has no callback for.
UntooledNumbered ==
  \A th \in Thread : \A i \in Held(th) :
    Given(th, i) /\ HeldAt(th, i).owner = "manager" =>
      /\ singleton
      /\ ThroughKokkos(th, i) => outside[HeldAt(th, i).type] = "null"

IdsIInv ==
  /\ IInv
  /\ NotYetNumbered
  /\ BelowCounters
  /\ GivenOnce
  /\ UntooledNumbered

-----------------------------------------------------------------------------
\* What is held has an id and a type.
LEMMA HeldProperties ==
  ASSUME TypeOK, NEW th \in Thread, NEW i \in Held(th)
  PROVE  /\ HeldAt(th, i).id \in Nat
         /\ i # 0 => i \in DOMAIN open[th] /\ HeldAt(th, i) = open[th][i] /\ open[th][i] \in Open
         /\ i = 0 => HeldAt(th, i) = frame[th] /\ frame[th] \in Frame
         /\ 0 \in Held(th)
  <1>1. open[th] \in Seq(Open) /\ frame[th] \in Frame
    BY DEF TypeOK
  <1>2. CASE i = 0
    BY <1>1, <1>2 DEF HeldAt, Held, Frame
  <1>3. CASE i # 0
    <2>1. i \in DOMAIN open[th] /\ open[th][i] \in Open
      BY <1>1, <1>3 DEF Held
    <2> QED BY <1>1, <1>3, <2>1 DEF HeldAt, Held, Open
  <1> QED BY <1>2, <1>3

\* A place is one of a thread's.
LEMMA PlaceProperties ==
  ASSUME NEW owners, NEW k \in NumberedBy(owners)
  PROVE  /\ k[1] \in Thread /\ k[2] \in Held(k[1])
         /\ k = <<k[1], k[2]>>
         /\ HeldAt(k[1], k[2]).owner \in owners
  <1>1. PICK th \in Thread : k \in {th} \X (0 .. Len(open[th]))
    BY DEF NumberedBy, Places
  <1>2. k[1] = th /\ k[2] \in 0 .. Len(open[th]) /\ k = <<k[1], k[2]>>
    BY <1>1
  <1> QED BY <1>2 DEF NumberedBy, Held

\* What IdsUnique says of the ids of the Manager is part of the invariant,
LEMMA GivenOnceIsUnique == IdsIInv => IdsUnique
  <1> SUFFICES ASSUME IdsIInv,
                      NEW k \in NumberedBy({"manager"}), NEW h \in NumberedBy({"manager"}),
                      HeldAt(k[1], k[2]).id = HeldAt(h[1], h[2]).id,
                      HeldAt(k[1], k[2]).type = "CreateProfileSectionEvent"
                        <=> HeldAt(h[1], h[2]).type = "CreateProfileSectionEvent"
               PROVE  k = h
    BY DEF IdsUnique
  <1>1. /\ k[1] \in Thread /\ k[2] \in Held(k[1]) /\ k = <<k[1], k[2]>>
        /\ HeldAt(k[1], k[2]).owner = "manager"
    BY PlaceProperties
  <1>2. /\ h[1] \in Thread /\ h[2] \in Held(h[1]) /\ h = <<h[1], h[2]>>
        /\ HeldAt(h[1], h[2]).owner = "manager"
    BY PlaceProperties
  <1>3. k[1] = h[1] /\ k[2] = h[2]
    BY <1>1, <1>2 DEF IdsIInv, GivenOnce, Given, Numberer, SameCounter, IsSection
  <1> QED BY <1>1, <1>2, <1>3

\* and so is what EndsTellApart says: of a type the tool numbers there are no
\* ids of the Manager.
LEMMA GivenOnceTellsApart == IdsIInv => EndsTellApart
  <1> SUFFICES ASSUME IdsIInv, NEW k \in Begun, NEW h \in Begun,
                      HeldAt(k[1], k[2]).type = HeldAt(h[1], h[2]).type,
                      \/ outside[HeldAt(k[1], k[2]).type] = "tool"
                      \/ HeldAt(k[1], k[2]).owner = HeldAt(h[1], h[2]).owner,
                      HeldAt(k[1], k[2]).id = HeldAt(h[1], h[2]).id
               PROVE  k = h
    BY DEF EndsTellApart
  <1> DEFINE x == HeldAt(k[1], k[2])
             y == HeldAt(h[1], h[2])
  <1>1. /\ k[1] \in Thread /\ k[2] \in Held(k[1]) /\ k = <<k[1], k[2]>>
        /\ x.owner \in Numberer /\ ThroughKokkos(k[1], k[2])
    BY PlaceProperties DEF Begun, Numberer, ThroughKokkos
  <1>2. /\ h[1] \in Thread /\ h[2] \in Held(h[1]) /\ h = <<h[1], h[2]>>
        /\ y.owner \in Numberer /\ ThroughKokkos(h[1], h[2])
    BY PlaceProperties DEF Begun, Numberer, ThroughKokkos
  <1>3. Given(k[1], k[2]) /\ Given(h[1], h[2])
    BY <1>1, <1>2 DEF Given
  <1>4. x.owner = y.owner
    <2> SUFFICES ASSUME outside[x.type] = "tool" PROVE x.owner = "tool" /\ y.owner = "tool"
      OBVIOUS
    <2>1. x.owner # "manager" /\ y.owner # "manager"
      BY <1>1, <1>2, <1>3 DEF IdsIInv, UntooledNumbered
    <2> QED BY <1>1, <1>2, <2>1 DEF Numberer
  <1>5. SameCounter(x, y)
    BY <1>4 DEF SameCounter
  <1>6. k[1] = h[1] /\ k[2] = h[2]
    BY <1>1, <1>2, <1>3, <1>5 DEF IdsIInv, GivenOnce
  <1> QED BY <1>1, <1>2, <1>6

-----------------------------------------------------------------------------
\* A step after which nothing has an id that nothing had before: each that has
\* one had it in the place from[th][i], and no two had it in the same.
LEMMA NothingGivenStep ==
  ASSUME IdsIInv, IInv', NEW from,
         NotYetNumbered',
         tool_next_id <= tool_next_id',
         \A th \in Thread : \A i \in Held(th)' :
           Given(th, i)' =>
             /\ from[th][i] \in Held(th)
             /\ Given(th, from[th][i])
             /\ HeldAt(th, i)'.id = HeldAt(th, from[th][i]).id
             /\ HeldAt(th, i)'.type = HeldAt(th, from[th][i]).type
             /\ HeldAt(th, i)'.owner = HeldAt(th, from[th][i]).owner
             /\ HeldAt(th, i)'.owner = "manager" =>
                  /\ next_event_id <= next_event_id' /\ next_section_id <= next_section_id'
                  /\ UNCHANGED <<singleton, outside>>
                  /\ ThroughKokkos(th, i)' => ThroughKokkos(th, from[th][i])
             /\ \A j \in Held(th)' : Given(th, j)' /\ from[th][i] = from[th][j] => i = j
  PROVE  IdsIInv'
  <1>1. /\ next_event_id \in Nat /\ next_section_id \in Nat /\ tool_next_id \in Nat
        /\ next_event_id' \in Nat /\ next_section_id' \in Nat /\ tool_next_id' \in Nat
    BY DEF IdsIInv, IInv, TypeOK
  <1>2. BelowCounters'
    <2> SUFFICES ASSUME NEW th \in Thread, NEW i \in Held(th)', Given(th, i)'
                 PROVE  HeldAt(th, i)'.id < Counter(HeldAt(th, i))'
      BY DEF BelowCounters
    <2>1. PICK j : j = from[th][i]
      OBVIOUS
    <2>2. /\ j \in Held(th) /\ Given(th, j)
          /\ HeldAt(th, i)'.id = HeldAt(th, j).id
          /\ HeldAt(th, i)'.type = HeldAt(th, j).type
          /\ HeldAt(th, i)'.owner = HeldAt(th, j).owner
          /\ HeldAt(th, j).owner = "manager" =>
               next_event_id <= next_event_id' /\ next_section_id <= next_section_id'
      BY <2>1
    <2>3. HeldAt(th, j).id < Counter(HeldAt(th, j)) /\ HeldAt(th, j).id \in Nat
      BY <2>2, HeldProperties DEF IdsIInv, BelowCounters, IInv
    <2>4. HeldAt(th, j).owner \in {"manager", "tool"}
      BY <2>2 DEF Given, Numberer
    <2>5. CASE HeldAt(th, j).owner = "tool"
      BY <1>1, <2>2, <2>3, <2>5 DEF Counter
    <2>6. CASE HeldAt(th, j).owner = "manager"
      BY <1>1, <2>2, <2>3, <2>6 DEF Counter
    <2> QED BY <2>4, <2>5, <2>6
  <1>3. GivenOnce'
    <2> SUFFICES ASSUME NEW u \in Thread, NEW v \in Thread, NEW i \in Held(u)', NEW j \in Held(v)',
                        Given(u, i)', Given(v, j)',
                        HeldAt(u, i)'.id = HeldAt(v, j)'.id,
                        SameCounter(HeldAt(u, i), HeldAt(v, j))'
                 PROVE  u = v /\ i = j
      BY DEF GivenOnce
    <2>1. PICK f, g : f = from[u][i] /\ g = from[v][j]
      OBVIOUS
    <2>2. /\ f \in Held(u) /\ Given(u, f) /\ HeldAt(u, i)'.id = HeldAt(u, f).id
          /\ HeldAt(u, i)'.type = HeldAt(u, f).type /\ HeldAt(u, i)'.owner = HeldAt(u, f).owner
      BY <2>1
    <2>3. /\ g \in Held(v) /\ Given(v, g) /\ HeldAt(v, j)'.id = HeldAt(v, g).id
          /\ HeldAt(v, j)'.type = HeldAt(v, g).type /\ HeldAt(v, j)'.owner = HeldAt(v, g).owner
      BY <2>1
    <2>4. SameCounter(HeldAt(u, f), HeldAt(v, g))
      BY <2>2, <2>3 DEF SameCounter
    <2>5. u = v /\ f = g
      <3>1. HeldAt(u, f).id = HeldAt(v, g).id
        BY <2>2, <2>3
      <3>2. GivenOnce
        BY DEF IdsIInv
      <3> QED BY <2>2, <2>3, <2>4, <3>1, <3>2 DEF GivenOnce
    <2>6. u = v /\ from[u][i] = from[u][j]
      BY <2>1, <2>5
    <2> QED BY <2>6
  <1>4. UntooledNumbered'
    <2> SUFFICES ASSUME NEW th \in Thread, NEW i \in Held(th)', Given(th, i)',
                        HeldAt(th, i)'.owner = "manager"
                 PROVE  /\ singleton'
                        /\ ThroughKokkos(th, i)' => outside'[HeldAt(th, i)'.type] = "null"
      BY DEF UntooledNumbered
    <2>1. PICK j : j = from[th][i]
      OBVIOUS
    <2>2. /\ j \in Held(th) /\ Given(th, j) /\ HeldAt(th, j).owner = "manager"
          /\ HeldAt(th, i)'.type = HeldAt(th, j).type
          /\ UNCHANGED <<singleton, outside>>
          /\ ThroughKokkos(th, i)' => ThroughKokkos(th, j)
      BY <2>1
    <2> QED BY <2>2 DEF IdsIInv, UntooledNumbered
  <1> QED BY <1>2, <1>3, <1>4 DEF IdsIInv

\* The same when what has an id has it in the place it had it in before.
LEMMA NothingMovesStep ==
  ASSUME IdsIInv, IInv',
         NotYetNumbered',
         tool_next_id <= tool_next_id',
         \A th \in Thread : \A i \in Held(th)' :
           Given(th, i)' =>
             /\ Given(th, i)
             /\ HeldAt(th, i)'.id = HeldAt(th, i).id
             /\ HeldAt(th, i)'.type = HeldAt(th, i).type
             /\ HeldAt(th, i)'.owner = HeldAt(th, i).owner
             /\ HeldAt(th, i)'.owner = "manager" =>
                  /\ next_event_id <= next_event_id' /\ next_section_id <= next_section_id'
                  /\ UNCHANGED <<singleton, outside>>
                  /\ ThroughKokkos(th, i)' => ThroughKokkos(th, i)
  PROVE  IdsIInv'
  <1>1. PICK from : from = [th \in Thread |-> [i \in Nat |-> i]]
    OBVIOUS
  <1>2. \A th \in Thread : \A i \in Held(th)' : from[th][i] = i
    <2>1. \A th \in Thread : \A i \in Held(th)' : i \in Nat
      BY DEF Held, IInv, TypeOK
    <2> QED BY <1>1, <2>1
  <1>3. \A th \in Thread : \A i \in Held(th)' :
           Given(th, i)' =>
             /\ from[th][i] \in Held(th)
             /\ Given(th, from[th][i])
             /\ HeldAt(th, i)'.id = HeldAt(th, from[th][i]).id
             /\ HeldAt(th, i)'.type = HeldAt(th, from[th][i]).type
             /\ HeldAt(th, i)'.owner = HeldAt(th, from[th][i]).owner
             /\ HeldAt(th, i)'.owner = "manager" =>
                  /\ next_event_id <= next_event_id' /\ next_section_id <= next_section_id'
                  /\ UNCHANGED <<singleton, outside>>
                  /\ ThroughKokkos(th, i)' => ThroughKokkos(th, from[th][i])
             /\ \A j \in Held(th)' : Given(th, j)' /\ from[th][i] = from[th][j] => i = j
    <2> SUFFICES ASSUME NEW th \in Thread, NEW i \in Held(th)', Given(th, i)'
                 PROVE  /\ Given(th, i) /\ i \in Held(th)
                        /\ HeldAt(th, i)'.id = HeldAt(th, i).id
                        /\ HeldAt(th, i)'.type = HeldAt(th, i).type
                        /\ HeldAt(th, i)'.owner = HeldAt(th, i).owner
                        /\ HeldAt(th, i)'.owner = "manager" =>
                             /\ next_event_id <= next_event_id' /\ next_section_id <= next_section_id'
                             /\ UNCHANGED <<singleton, outside>>
                             /\ ThroughKokkos(th, i)' => ThroughKokkos(th, i)
      BY <1>2
    <2> QED BY DEF Given
  <1> QED BY <1>3, NothingGivenStep

\* A step that changes neither what is held nor the counters, while there is a
\* manager or none.
LEMMA NothingHeldChangesStep ==
  ASSUME IdsIInv, IInv', UNCHANGED <<frame, open, next_event_id, next_section_id, tool_next_id>>,
         ~singleton \/ UNCHANGED <<singleton, outside>>
  PROVE  IdsIInv'
  <1>1. next_event_id \in Nat /\ next_section_id \in Nat /\ tool_next_id \in Nat
    BY DEF IdsIInv, IInv, TypeOK
  <1>2. \A th \in Thread : Held(th)' = Held(th)
    BY DEF Held
  <1>3. \A th \in Thread : \A i \in Held(th) : HeldAt(th, i)' = HeldAt(th, i)
    BY DEF HeldAt
  <1>4. ~singleton => \A th \in Thread : \A i \in Held(th) :
          Given(th, i) => HeldAt(th, i).owner # "manager"
    BY DEF IdsIInv, UntooledNumbered
  <1>5. NotYetNumbered'
    BY DEF IdsIInv, NotYetNumbered
  <1> QED BY <1>1, <1>2, <1>3, <1>4, <1>5, NothingMovesStep DEF Given, ThroughKokkos

\* A step after which one thing has the next id of its counter, in the place n
\* of thread th, and everything else that has one had it before.
LEMMA GivingStep ==
  ASSUME IdsIInv, IInv', NEW th \in Thread, NEW n \in Nat, NEW x,
         NotYetNumbered',
         HeldAt(th, n)' = x, x.owner \in Numberer, x.id = Counter(x),
         tool_next_id' = IF x.owner = "tool" THEN tool_next_id + 1 ELSE tool_next_id,
         next_event_id' = IF x.owner = "manager" /\ ~IsSection(x.type) THEN next_event_id + 1
                                                                      ELSE next_event_id,
         next_section_id' = IF x.owner = "manager" /\ IsSection(x.type) THEN next_section_id + 1
                                                                       ELSE next_section_id,
         UNCHANGED <<singleton, outside>>,
         x.owner = "manager" => /\ singleton
                                /\ ThroughKokkos(th, n)' => outside[x.type] = "null",
         \A u \in Thread : \A i \in Held(u)' :
           Given(u, i)' /\ ~(u = th /\ i = n) =>
             /\ Given(u, i)
             /\ HeldAt(u, i)' = HeldAt(u, i)
             /\ ThroughKokkos(u, i)' => ThroughKokkos(u, i)
  PROVE  IdsIInv'
  <1>1. /\ next_event_id \in Nat /\ next_section_id \in Nat /\ tool_next_id \in Nat
        /\ next_event_id' \in Nat /\ next_section_id' \in Nat /\ tool_next_id' \in Nat
        /\ TypeOK
    BY DEF IdsIInv, IInv, TypeOK
  <1>2. x.owner \in {"manager", "tool"}
    BY DEF Numberer
  <1>3. next_event_id <= next_event_id' /\ next_section_id <= next_section_id'
        /\ tool_next_id <= tool_next_id'
    BY <1>1
  \* The new id is below its counter now, and everything else is below what
  \* that counter was.
  <1>4. Counter(x)' = Counter(x) + 1 /\ Counter(x) \in Nat
    BY <1>1, <1>2 DEF Counter
  <1>5. ASSUME NEW u \in Thread, NEW i \in Held(u)', Given(u, i)', ~(u = th /\ i = n)
        PROVE  /\ Given(u, i) /\ i \in Held(u) /\ HeldAt(u, i)' = HeldAt(u, i)
               /\ HeldAt(u, i).owner \in {"manager", "tool"}
               /\ HeldAt(u, i).id \in Nat
               /\ HeldAt(u, i).id < Counter(HeldAt(u, i))
               /\ HeldAt(u, i).id < Counter(HeldAt(u, i))'
               /\ SameCounter(HeldAt(u, i), x) => HeldAt(u, i).id # x.id
               /\ SameCounter(x, HeldAt(u, i)) => HeldAt(u, i).id # x.id
    <2>1. Given(u, i) /\ i \in Held(u) /\ HeldAt(u, i)' = HeldAt(u, i)
      BY <1>5 DEF Given
    <2>2. /\ HeldAt(u, i).owner \in {"manager", "tool"} /\ HeldAt(u, i).id \in Nat
          /\ HeldAt(u, i).id < Counter(HeldAt(u, i))
      BY <1>1, <2>1, HeldProperties DEF Given, Numberer, IdsIInv, BelowCounters
    <2>3. SameCounter(HeldAt(u, i), x) \/ SameCounter(x, HeldAt(u, i))
            => Counter(HeldAt(u, i)) = Counter(x)
      BY <1>2, <2>2 DEF SameCounter, Counter
    <2>4. Counter(HeldAt(u, i)) \in Nat /\ Counter(HeldAt(u, i)) <= Counter(HeldAt(u, i))'
      BY <1>1, <1>3, <2>1 DEF Counter
    <2>5. Counter(HeldAt(u, i))' \in Nat
      BY <1>1, <2>1 DEF Counter
    <2>6. HeldAt(u, i).id < Counter(HeldAt(u, i))'
      BY <2>2, <2>4, <2>5
    <2> QED BY <1>4, <2>1, <2>2, <2>3, <2>6
  <1>6. BelowCounters'
    <2> SUFFICES ASSUME NEW u \in Thread, NEW i \in Held(u)', Given(u, i)'
                 PROVE  HeldAt(u, i)'.id < Counter(HeldAt(u, i))'
      BY DEF BelowCounters
    <2>1. CASE u = th /\ i = n
      <3>1. Counter(HeldAt(u, i))' = Counter(x)'
        BY <2>1 DEF Counter
      <3> QED BY <1>4, <2>1, <3>1
    <2>2. CASE ~(u = th /\ i = n)
      BY <1>5, <2>2
    <2> QED BY <2>1, <2>2
  <1>7. GivenOnce'
    <2> SUFFICES ASSUME NEW u \in Thread, NEW v \in Thread, NEW i \in Held(u)', NEW j \in Held(v)',
                        Given(u, i)', Given(v, j)',
                        HeldAt(u, i)'.id = HeldAt(v, j)'.id,
                        SameCounter(HeldAt(u, i), HeldAt(v, j))'
                 PROVE  u = v /\ i = j
      BY DEF GivenOnce
    <2>0. SameCounter(HeldAt(u, i)', HeldAt(v, j)')
      BY DEF SameCounter
    <2>1. CASE u = th /\ i = n
      BY <1>5, <2>0, <2>1
    <2>2. CASE v = th /\ j = n
      BY <1>5, <2>0, <2>2
    <2>3. CASE ~(u = th /\ i = n) /\ ~(v = th /\ j = n)
      <3>1. /\ Given(u, i) /\ HeldAt(u, i)' = HeldAt(u, i) /\ i \in Held(u)
            /\ Given(v, j) /\ HeldAt(v, j)' = HeldAt(v, j) /\ j \in Held(v)
        BY <1>5, <2>3
      <3> QED BY <2>0, <3>1 DEF IdsIInv, GivenOnce
    <2> QED BY <2>1, <2>2, <2>3
  <1>8. UntooledNumbered'
    <2> SUFFICES ASSUME NEW u \in Thread, NEW i \in Held(u)', Given(u, i)',
                        HeldAt(u, i)'.owner = "manager"
                 PROVE  /\ singleton'
                        /\ ThroughKokkos(u, i)' => outside'[HeldAt(u, i)'.type] = "null"
      BY DEF UntooledNumbered
    <2>1. CASE u = th /\ i = n
      BY <2>1
    <2>2. CASE ~(u = th /\ i = n)
      <3>1. /\ Given(u, i) /\ HeldAt(u, i)' = HeldAt(u, i) /\ i \in Held(u)
            /\ ThroughKokkos(u, i)' => ThroughKokkos(u, i)
        BY <2>2 DEF Given
      <3> QED BY <3>1 DEF IdsIInv, UntooledNumbered
    <2> QED BY <2>1, <2>2
  <1> QED BY <1>6, <1>7, <1>8 DEF IdsIInv

-----------------------------------------------------------------------------
(***************************************************************************)
(* The steps that hold an event, or let go of one.                         *)
(***************************************************************************)

\* Kokkos calls the callback of an event: until the context callback has been
\* called the frame is nobody's.
LEMMA EmitHolds ==
  ASSUME IdsIInv, NEW th \in Thread, NEW t, NEW id, Emit(th, t, id)
  PROVE  /\ frame'[th].owner = "nobody"
         /\ \A u \in Thread \ {th} : frame'[u] = frame[u]
         /\ NotYetNumbered'
         /\ UNCHANGED <<next_event_id, next_section_id, singleton, outside>>
  <1>1. /\ frame'[th].owner = "nobody"
        /\ \A u \in Thread \ {th} : frame'[u] = frame[u]
        /\ UNCHANGED <<next_event_id, next_section_id, singleton, outside>>
    BY DEF Emit, Idle, managerVars, counterVars, IdsIInv, IInv, TypeOK
  <1>2. NotYetNumbered'
    BY <1>1 DEF IdsIInv, NotYetNumbered, Numberer
  <1> QED BY <1>1, <1>2

\* What is open after the event was open before it, each thing in a place of
\* its own, unless it has no id from a tool or the Manager.
LEMMA EmitKeepsIds ==
  ASSUME IdsIInv, IInv', NEW th \in Thread, NEW t, NEW id, Emit(th, t, id), NEW place,
         UNCHANGED tool_next_id,
         \A i \in DOMAIN open'[th] : open'[th][i].owner \in Numberer =>
           place[i] \in DOMAIN open[th] /\ open'[th][i] = open[th][place[i]],
         \A i, j \in DOMAIN open'[th] : place[i] = place[j] => i = j,
         \A u \in Thread \ {th} : open'[u] = open[u]
  PROVE  IdsIInv'
  <1>1. /\ frame'[th].owner = "nobody"
        /\ \A u \in Thread \ {th} : frame'[u] = frame[u]
        /\ NotYetNumbered'
        /\ UNCHANGED <<next_event_id, next_section_id, tool_next_id, singleton, outside>>
    BY EmitHolds
  <1>2. /\ next_event_id \in Nat /\ next_section_id \in Nat /\ tool_next_id \in Nat
        /\ \A u \in Thread : open[u] \in Seq(Open) /\ open'[u] \in Seq(Open)
    BY DEF IdsIInv, IInv, TypeOK
  <1>3. PICK from : from = [u \in Thread |-> [i \in Nat |-> IF u = th /\ i # 0 THEN place[i] ELSE i]]
    OBVIOUS
  <1>4. ASSUME NEW u \in Thread, NEW i \in Held(u)', Given(u, i)'
        PROVE  /\ from[u][i] \in Held(u)
               /\ Given(u, from[u][i])
               /\ HeldAt(u, i)' = HeldAt(u, from[u][i])
               /\ ThroughKokkos(u, i)' => ThroughKokkos(u, from[u][i])
               /\ u = th => i # 0 /\ i \in DOMAIN open'[th]
               /\ from[u][i] = IF u = th THEN place[i] ELSE i
    <2>1. HeldAt(u, i)'.owner \in Numberer /\ i \in 0 .. Len(open'[u]) /\ i \in Nat
      BY <1>2, <1>4 DEF Given, Held
    <2>2. CASE u # th
      <3>1. from[u][i] = i
        BY <1>3, <2>1, <2>2
      <3>2. Held(u)' = Held(u) /\ HeldAt(u, i)' = HeldAt(u, i)
        BY <1>1, <2>2 DEF Held, HeldAt
      <3>3. ThroughKokkos(u, i)' = ThroughKokkos(u, i)
        BY <1>1, <2>2 DEF ThroughKokkos
      <3> QED BY <1>4, <2>2, <3>1, <3>2, <3>3 DEF Given
    <2>3. CASE u = th
      <3>1. i # 0
        BY <1>1, <2>1, <2>3 DEF HeldAt, Numberer
      <3>2. i \in DOMAIN open'[th] /\ HeldAt(u, i)' = open'[th][i]
        BY <1>2, <2>1, <2>3, <3>1 DEF HeldAt
      <3>3. place[i] \in DOMAIN open[th] /\ open'[th][i] = open[th][place[i]]
        BY <2>1, <3>2
      <3>4. place[i] \in Held(th) /\ place[i] # 0 /\ HeldAt(th, place[i]) = open[th][place[i]]
        BY <1>2, <3>3 DEF Held, HeldAt
      <3>5. from[u][i] = place[i]
        BY <1>3, <2>1, <2>3, <3>1
      <3> QED BY <2>1, <2>3, <3>1, <3>2, <3>3, <3>4, <3>5 DEF Given, ThroughKokkos
    <2> QED BY <2>2, <2>3
  <1>5. \A u \in Thread : \A i \in Held(u)' :
           Given(u, i)' =>
             /\ from[u][i] \in Held(u)
             /\ Given(u, from[u][i])
             /\ HeldAt(u, i)'.id = HeldAt(u, from[u][i]).id
             /\ HeldAt(u, i)'.type = HeldAt(u, from[u][i]).type
             /\ HeldAt(u, i)'.owner = HeldAt(u, from[u][i]).owner
             /\ HeldAt(u, i)'.owner = "manager" =>
                  /\ next_event_id <= next_event_id' /\ next_section_id <= next_section_id'
                  /\ UNCHANGED <<singleton, outside>>
                  /\ ThroughKokkos(u, i)' => ThroughKokkos(u, from[u][i])
             /\ \A j \in Held(u)' : Given(u, j)' /\ from[u][i] = from[u][j] => i = j
    <2> SUFFICES ASSUME NEW u \in Thread, NEW i \in Held(u)', Given(u, i)',
                        NEW j \in Held(u)', Given(u, j)', from[u][i] = from[u][j]
                 PROVE  i = j
      BY <1>1, <1>2, <1>4
    <2> QED BY <1>4
  <1> QED BY <1>1, <1>2, <1>5, NothingGivenStep

\* Kokkos begins a kernel or creates a section: if it is open at once, the
\* tool numbered it or nobody did.
LEMMA EmitOpeningKeepsIds ==
  ASSUME IdsIInv, IInv', NEW th \in Thread, NEW t, EmitOpening(th, t)
  PROVE  IdsIInv'
  <1>1. /\ open[th] \in Seq(Open) /\ DOMAIN open = Thread /\ t \in EventTypeList
        /\ tool_next_id \in Nat
    BY OpenersAndClosers DEF IdsIInv, IInv, TypeOK, EmitOpening
  <1>2. callbacks[t] \in {"null", "tool", "dispatching"} /\ Emit(th, t, 0)
    BY <1>1 DEF IdsIInv, IInv, TypeOK, Callback, EmitOpening
  <1>3. CASE callbacks[t] # "tool"
    <2>1. UNCHANGED tool_next_id
      BY <1>3 DEF EmitOpening
    <2>2. /\ \A u \in Thread \ {th} : open'[u] = open[u]
          /\ \/ open'[th] = open[th]
             \/ open'[th] = Append(open[th], [type |-> t, id |-> 0, owner |-> "nobody"])
      BY <1>1, <1>2, <1>3 DEF EmitOpening
    <2>3. PICK place : place = [i \in Nat |-> i]
      OBVIOUS
    <2>4. open'[th] \in Seq(Open)
      BY DEF IInv, TypeOK
    <2>5. \A i \in DOMAIN open'[th] : place[i] = i
      BY <2>3, <2>4
    <2>6. \A i \in DOMAIN open'[th] : open'[th][i].owner \in Numberer =>
            i \in DOMAIN open[th] /\ open'[th][i] = open[th][i]
      <3>1. ASSUME NEW o, o.owner \notin Numberer, open'[th] = Append(open[th], o),
                   NEW i \in DOMAIN open'[th], open'[th][i].owner \in Numberer
            PROVE  i \in DOMAIN open[th] /\ open'[th][i] = open[th][i]
        BY <1>1, <3>1
      <3> QED BY <2>2, <3>1 DEF Numberer
    <2> QED BY <1>2, <2>1, <2>2, <2>5, <2>6, EmitKeepsIds
  <1>4. CASE callbacks[t] = "tool"
    <2>1. PICK n : n = Len(open[th]) + 1
      OBVIOUS
    <2>2. PICK x : x = [type |-> t, id |-> tool_next_id, owner |-> "tool"]
      OBVIOUS
    <2>3. /\ frame' = frame /\ tool_next_id' = tool_next_id + 1
          /\ UNCHANGED <<next_event_id, next_section_id, singleton, outside>>
          /\ NotYetNumbered'
      BY <1>2, <1>4, EmitHolds DEF EmitOpening, Emit
    <2>4. \A u \in Thread \ {th} : open'[u] = open[u]
      BY <1>1, <1>4 DEF EmitOpening
    <2>5. open'[th] = Append(open[th], x)
      BY <1>1, <1>4, <2>2 DEF EmitOpening
    <2>6. n \in Nat /\ n # 0 /\ Len(open'[th]) = n /\ open'[th][n] = x
      BY <1>1, <2>1, <2>5
    <2>7. HeldAt(th, n)' = x
      BY <2>6 DEF HeldAt
    <2>8. x.owner = "tool" /\ x.id = Counter(x)
      BY <2>2 DEF Counter
    <2>9. \A u \in Thread : \A i \in Held(u)' :
            Given(u, i)' /\ ~(u = th /\ i = n) =>
              /\ Given(u, i)
              /\ HeldAt(u, i)' = HeldAt(u, i)
              /\ ThroughKokkos(u, i)' => ThroughKokkos(u, i)
      <3> SUFFICES ASSUME NEW u \in Thread, NEW i \in Held(u)', Given(u, i)', ~(u = th /\ i = n)
                   PROVE  /\ Given(u, i)
                          /\ HeldAt(u, i)' = HeldAt(u, i)
                          /\ ThroughKokkos(u, i)' => ThroughKokkos(u, i)
        OBVIOUS
      <3>1. ThroughKokkos(u, i)' = ThroughKokkos(u, i)
        BY <2>3 DEF ThroughKokkos
      <3>2. i \in Held(u) /\ HeldAt(u, i)' = HeldAt(u, i)
        <4>1. CASE u # th
          BY <2>3, <2>4, <4>1 DEF Held, HeldAt
        <4>2. CASE u = th
          <5>1. i \in 0 .. n /\ i # n
            BY <2>6, <4>2 DEF Held
          <5>2. i \in 0 .. Len(open[th])
            BY <1>1, <2>1, <5>1
          <5>3. i # 0 => open'[th][i] = open[th][i]
            BY <1>1, <2>5, <5>2
          <5> QED BY <2>3, <4>2, <5>2, <5>3 DEF Held, HeldAt
        <4> QED BY <4>1, <4>2
      <3> QED BY <3>1, <3>2 DEF Given
    <2>10. /\ x.owner \in Numberer
           /\ tool_next_id' = IF x.owner = "tool" THEN tool_next_id + 1 ELSE tool_next_id
           /\ next_event_id' = IF x.owner = "manager" /\ ~IsSection(x.type) THEN next_event_id + 1
                                                                           ELSE next_event_id
           /\ next_section_id' = IF x.owner = "manager" /\ IsSection(x.type) THEN next_section_id + 1
                                                                            ELSE next_section_id
           /\ x.owner = "manager" => /\ singleton
                                     /\ ThroughKokkos(th, n)' => outside[x.type] = "null"
      BY <2>3, <2>8 DEF Numberer
    <2> QED BY <2>3, <2>6, <2>7, <2>8, <2>9, <2>10, GivingStep
  <1> QED BY <1>3, <1>4

\* Kokkos ends a kernel or destroys a section: what was open after it moves
\* one place down.
LEMMA EmitClosingKeepsIds ==
  ASSUME IdsIInv, IInv', NEW th \in Thread, NEW k \in DOMAIN open[th], EmitClosing(th, k)
  PROVE  IdsIInv'
  <1>1. open[th] \in Seq(Open) /\ DOMAIN open = Thread
    BY DEF IdsIInv, IInv, TypeOK
  <1>2. /\ open'[th] = RemoveAt(open[th], k) /\ \A u \in Thread \ {th} : open'[u] = open[u]
        /\ UNCHANGED tool_next_id
    BY <1>1 DEF EmitClosing
  <1>3. PICK place : place = [i \in Nat |-> IF i < k THEN i ELSE i + 1]
    OBVIOUS
  <1>4. /\ DOMAIN open'[th] = 1 .. Len(open[th]) - 1 /\ k \in 1 .. Len(open[th])
        /\ Len(open[th]) \in Nat
        /\ \A i \in DOMAIN open'[th] :
             open'[th][i] = IF i < k THEN open[th][i] ELSE open[th][i + 1]
    <2>1. k \in 1 .. Len(open[th]) /\ Len(open[th]) \in Nat
      BY <1>1
    <2>2. /\ open'[th] \in Seq(Open) /\ Len(open'[th]) = Len(open[th]) - 1
          /\ \A i \in 1 .. Len(open[th]) - 1 :
               open'[th][i] = IF i < k THEN open[th][i] ELSE open[th][i + 1]
      BY <1>1, <1>2, <2>1, RemoveAtProperties
    <2>3. DOMAIN open'[th] = 1 .. Len(open[th]) - 1
      BY <2>1, <2>2
    <2> QED BY <2>1, <2>2, <2>3, Zenon
  <1>5. \A i \in DOMAIN open'[th] : place[i] = IF i < k THEN i ELSE i + 1
    BY <1>3, <1>4
  <1>6. \A i \in DOMAIN open'[th] : place[i] \in DOMAIN open[th] /\ open'[th][i] = open[th][place[i]]
    BY <1>1, <1>4, <1>5
  <1>7. \A i, j \in DOMAIN open'[th] : place[i] = place[j] => i = j
    BY <1>4, <1>5
  <1>8. \E t, id : Emit(th, t, id)
    BY DEF EmitClosing
  <1> QED BY <1>2, <1>6, <1>7, <1>8, EmitKeepsIds

\* Kokkos starts or stops a section, or has an event without an id.
LEMMA EmitOtherKeepsIds ==
  ASSUME IdsIInv, IInv', NEW th \in Thread, NEW t, NEW i, EmitOther(th, t) \/ EmitSection(th, t, i)
  PROVE  IdsIInv'
  <1>1. UNCHANGED <<open, tool_next_id>>
    BY DEF EmitOther, EmitSection
  <1>2. PICK id : Emit(th, t, id)
    BY DEF EmitOther, EmitSection
  <1>3. PICK place : place = [k \in Nat |-> k]
    OBVIOUS
  <1>4. \A k \in DOMAIN open[th] : place[k] = k
    BY <1>3 DEF IdsIInv, IInv, TypeOK
  <1> QED BY <1>1, <1>2, <1>4, EmitKeepsIds

\* An event gets the next id of its counter while it is being dispatched.
LEMMA FrameGivenStep ==
  ASSUME IdsIInv, IInv', NEW th \in Thread, NEW f,
         frame' = [frame EXCEPT ![th] = f],
         f.pc \notin {"idle", "context"}, f.owner \in Numberer, f.id = Counter(f),
         tool_next_id' = IF f.owner = "tool" THEN tool_next_id + 1 ELSE tool_next_id,
         next_event_id' = IF f.owner = "manager" /\ ~IsSection(f.type) THEN next_event_id + 1
                                                                      ELSE next_event_id,
         next_section_id' = IF f.owner = "manager" /\ IsSection(f.type) THEN next_section_id + 1
                                                                       ELSE next_section_id,
         UNCHANGED <<open, singleton, outside>>,
         f.owner = "manager" => singleton /\ (f.pc = "registered" => outside[f.type] = "null")
  PROVE  IdsIInv'
  <1>1. frame'[th] = f /\ \A u \in Thread \ {th} : frame'[u] = frame[u]
    BY DEF IdsIInv, IInv, TypeOK
  <1>2. HeldAt(th, 0)' = f /\ (ThroughKokkos(th, 0)' => f.pc = "registered")
    BY <1>1 DEF HeldAt, ThroughKokkos
  <1>3. NotYetNumbered'
    BY <1>1 DEF IdsIInv, NotYetNumbered
  <1>4. \A u \in Thread : \A i \in Held(u)' :
          Given(u, i)' /\ ~(u = th /\ i = 0) =>
            /\ Given(u, i)
            /\ HeldAt(u, i)' = HeldAt(u, i)
            /\ ThroughKokkos(u, i)' => ThroughKokkos(u, i)
    <2> SUFFICES ASSUME NEW u \in Thread, NEW i \in Held(u)', Given(u, i)', ~(u = th /\ i = 0)
                 PROVE  /\ Given(u, i)
                        /\ HeldAt(u, i)' = HeldAt(u, i)
                        /\ ThroughKokkos(u, i)' => ThroughKokkos(u, i)
      OBVIOUS
    <2>1. i \in Held(u) /\ HeldAt(u, i)' = HeldAt(u, i)
      BY <1>1 DEF Held, HeldAt
    <2>2. ThroughKokkos(u, i)' => ThroughKokkos(u, i)
      BY <1>1 DEF ThroughKokkos
    <2> QED BY <2>1, <2>2 DEF Given
  <1>5. 0 \in Nat /\ UNCHANGED <<singleton, outside>>
        /\ (f.owner = "manager" => singleton /\ (ThroughKokkos(th, 0)' => outside[f.type] = "null"))
    BY <1>2
  <1> QED BY <1>2, <1>3, <1>4, <1>5, GivingStep

\* The program asks for an id and dispatches an event of its own.
LEMMA DispatchKeepsIds ==
  ASSUME "CreateProfileSectionEvent" \notin Dispatched,
         IdsIInv, IInv', NEW th \in Thread, NEW t, dispatch(th, t)
  PROVE  IdsIInv'
  <1>1. PICK f : f = [Idle EXCEPT !.pc = "listeners", !.type = t, !.id = next_event_id,
                                  !.owner = "manager"]
    OBVIOUS
  <1>2. /\ singleton
        /\ frame' = [frame EXCEPT ![th] = f]
        /\ next_event_id' = next_event_id + 1
        /\ UNCHANGED <<next_section_id, tool_next_id, open, singleton, outside>>
    BY <1>1 DEF dispatch, managerVars, kokkosVars
  <1>3. f.owner = "manager" /\ f.pc = "listeners" /\ f.type = t /\ f.id = next_event_id
    BY <1>1 DEF Idle
  <1>4. ~IsSection(f.type)
    BY <1>3 DEF dispatch, IsSection
  <1>5. f.id = Counter(f) /\ f.owner \in Numberer /\ f.pc \notin {"idle", "context"}
    BY <1>3, <1>4 DEF Counter, Numberer
  <1> QED BY <1>2, <1>3, <1>4, <1>5, FrameGivenStep

\* A step that leaves what is open alone and changes the frame of one thread
\* without numbering its event.
LEMMA FrameKeepsIds ==
  ASSUME IdsIInv, IInv', NEW th \in Thread, NEW f,
         frame' = [frame EXCEPT ![th] = f],
         f.owner \in Numberer => /\ f.owner = frame[th].owner /\ f.id = frame[th].id
                                 /\ f.type = frame[th].type /\ f.pc = frame[th].pc
                                 /\ f.pc \notin {"idle", "context"},
         UNCHANGED <<open, next_event_id, next_section_id, tool_next_id, singleton, outside>>
  PROVE  IdsIInv'
  <1>1. next_event_id \in Nat /\ next_section_id \in Nat /\ tool_next_id \in Nat
    BY DEF IdsIInv, IInv, TypeOK
  <1>2. frame'[th] = f /\ \A u \in Thread \ {th} : frame'[u] = frame[u]
    BY DEF IdsIInv, IInv, TypeOK
  <1>3. NotYetNumbered'
    BY <1>2 DEF IdsIInv, NotYetNumbered
  <1>4. ASSUME NEW u \in Thread, NEW i \in Held(u)', Given(u, i)'
        PROVE  /\ Given(u, i)
               /\ HeldAt(u, i)'.id = HeldAt(u, i).id
               /\ HeldAt(u, i)'.type = HeldAt(u, i).type
               /\ HeldAt(u, i)'.owner = HeldAt(u, i).owner
               /\ ThroughKokkos(u, i)' => ThroughKokkos(u, i)
    <2>1. i \in Held(u)
      BY DEF Held
    <2>2. CASE u = th /\ i = 0
      BY <1>2, <1>4, <2>1, <2>2 DEF Given, HeldAt, ThroughKokkos
    <2>3. CASE ~(u = th /\ i = 0)
      <3>1. HeldAt(u, i)' = HeldAt(u, i)
        BY <1>2, <2>3 DEF HeldAt
      <3>2. ThroughKokkos(u, i)' => ThroughKokkos(u, i)
        BY <1>2, <2>3 DEF ThroughKokkos
      <3> QED BY <1>4, <2>1, <3>1, <3>2 DEF Given
    <2> QED BY <2>2, <2>3
  <1>5. tool_next_id <= tool_next_id' /\ next_event_id <= next_event_id'
        /\ next_section_id <= next_section_id' /\ UNCHANGED <<singleton, outside>>
    BY <1>1
  <1> QED BY <1>3, <1>4, <1>5, NothingMovesStep

\* dispatch_context_callback numbers the event if no tool is there to do it.
LEMMA ContextKeepsIds ==
  ASSUME IdsIInv, IInv', NEW th \in Thread, dispatch_context_callback(th)
  PROVE  IdsIInv'
  <1>1. /\ frame[th].pc = "context" /\ frame[th].owner \notin Numberer
        /\ UNCHANGED <<open, singleton, outside>>
        /\ frame[th] \in Frame /\ DOMAIN frame = Thread
    BY DEF dispatch_context_callback, managerVars, IdsIInv, NotYetNumbered, IInv, TypeOK
  <1>2. singleton /\ context_callbacks = outside
    BY <1>1 DEF IdsIInv, IInv, CursorsListed, SavedTable
  <1> DEFINE G(id, owner) == [frame[th] EXCEPT !.pc = "registered", !.id = id, !.owner = owner]
  <1>3. \A id, owner : /\ G(id, owner).pc = "registered" /\ G(id, owner).id = id
                       /\ G(id, owner).owner = owner /\ G(id, owner).type = frame[th].type
    BY <1>1 DEF Frame
  \* An event that needs no id.
  <1>4. ASSUME frame' = [frame EXCEPT ![th].pc = "registered"],
               UNCHANGED <<next_event_id, next_section_id, tool_next_id>>
        PROVE  IdsIInv'
    <2>1. PICK f : f = [frame[th] EXCEPT !.pc = "registered"]
      OBVIOUS
    <2>2. frame' = [frame EXCEPT ![th] = f]
      BY <1>1, <1>4, <2>1
    <2>3. f.owner \notin Numberer
      BY <1>1, <2>1 DEF Frame
    <2> QED BY <1>1, <1>4, <2>2, <2>3, FrameKeepsIds
  <1>5. CASE context_callbacks[frame[th].type] = "null"
    <2>1. IncrementIdIfNeeded(th) /\ UNCHANGED tool_next_id
      BY <1>5 DEF dispatch_context_callback
    <2>2. CASE /\ frame[th].type \in BeginEvent
               /\ frame' = [frame EXCEPT ![th] = G(next_event_id, "manager")]
               /\ next_event_id' = next_event_id + 1
               /\ UNCHANGED next_section_id
      <3>1. PICK f : f = G(next_event_id, "manager")
        OBVIOUS
      <3>2. ~IsSection(frame[th].type)
        BY <2>2, EventTables DEF IsSection
      <3>3. /\ f.owner = "manager" /\ f.pc \notin {"idle", "context"} /\ ~IsSection(f.type)
            /\ f.id = next_event_id /\ f.type = frame[th].type
        BY <1>3, <3>1, <3>2
      <3>4. f.id = Counter(f) /\ f.owner \in Numberer
        BY <3>3 DEF Counter, Numberer
      <3> HIDE DEF G
      <3> QED BY <1>1, <1>2, <1>5, <2>1, <2>2, <3>1, <3>3, <3>4, FrameGivenStep
    <2>3. CASE /\ frame[th].type = "CreateProfileSectionEvent"
               /\ frame' = [frame EXCEPT ![th] = G(next_section_id, "manager")]
               /\ next_section_id' = next_section_id + 1
               /\ UNCHANGED next_event_id
      <3>1. PICK f : f = G(next_section_id, "manager")
        OBVIOUS
      <3>2. /\ f.owner = "manager" /\ f.pc \notin {"idle", "context"} /\ IsSection(f.type)
            /\ f.id = next_section_id /\ f.type = frame[th].type
        BY <1>3, <2>3, <3>1 DEF IsSection
      <3>3. f.id = Counter(f) /\ f.owner \in Numberer
        BY <3>2 DEF Counter, Numberer
      <3> HIDE DEF G
      <3> QED BY <1>1, <1>2, <1>5, <2>1, <2>3, <3>1, <3>2, <3>3, FrameGivenStep
    <2>4. CASE /\ frame' = [frame EXCEPT ![th].pc = "registered"]
               /\ UNCHANGED <<next_event_id, next_section_id>>
      BY <1>4, <2>1, <2>4
    <2> HIDE DEF G
    <2> QED BY <2>1, <2>2, <2>3, <2>4 DEF IncrementIdIfNeeded, G
  <1>6. CASE context_callbacks[frame[th].type] # "null"
    <2>1. CallTool(th) /\ UNCHANGED <<next_event_id, next_section_id>>
      BY <1>6 DEF dispatch_context_callback, CallTool
    <2>2. CASE frame' = [frame EXCEPT ![th] = G(tool_next_id, "tool")] /\ tool_next_id' = tool_next_id + 1
      <3>1. PICK f : f = G(tool_next_id, "tool")
        OBVIOUS
      <3>2. f.owner = "tool" /\ f.pc \notin {"idle", "context"} /\ f.id = tool_next_id
        BY <1>3, <3>1
      <3>3. f.id = Counter(f) /\ f.owner \in Numberer
        BY <3>2 DEF Counter, Numberer
      <3> HIDE DEF G
      <3> QED BY <1>1, <2>1, <2>2, <3>1, <3>2, <3>3, FrameGivenStep
    <2>3. CASE frame' = [frame EXCEPT ![th].pc = "registered"] /\ UNCHANGED tool_next_id
      BY <1>4, <2>1, <2>3
    <2> QED BY <2>1, <2>2, <2>3 DEF CallTool
  <1> QED BY <1>5, <1>6

\* The walk moves on: the event stays what it is.
LEMMA InvokeKeepsIds ==
  ASSUME IdsIInv, IInv', NEW th \in Thread, InvokeListener(th)
  PROVE  IdsIInv'
  <1>1. PICK i : frame' = [frame EXCEPT ![th].cursor = Walked(th)[i]]
    BY DEF InvokeListener
  <1>2. PICK f : f = [frame[th] EXCEPT !.cursor = Walked(th)[i]]
    OBVIOUS
  <1>3. /\ UNCHANGED <<open, next_event_id, next_section_id, tool_next_id, singleton, outside>>
        /\ frame[th].pc \notin {"idle", "context"}
    BY DEF InvokeListener, Walking, managerVars, counterVars, kokkosVars
  <1>4. /\ f.owner = frame[th].owner /\ f.id = frame[th].id
        /\ f.type = frame[th].type /\ f.pc = frame[th].pc
    BY <1>2 DEF IdsIInv, IInv, TypeOK, Frame
  <1>5. frame' = [frame EXCEPT ![th] = f]
    BY <1>1, <1>2 DEF IdsIInv, IInv, TypeOK
  <1> QED BY <1>3, <1>4, <1>5, FrameKeepsIds

\* The end of a dispatch: what the event was numbered with is written back, so
\* the id moves from the frame to the end of what is open.
LEMMA FinishKeepsIds ==
  ASSUME IdsIInv, IInv', NEW th \in Thread, FinishDispatch(th)
  PROVE  IdsIInv'
  <1>1. /\ frame'[th] = Idle /\ \A u \in Thread \ {th} : frame'[u] = frame[u]
        /\ Idle.owner = "nobody"
        /\ UNCHANGED <<next_event_id, next_section_id, tool_next_id, singleton, outside>>
    BY DEF FinishDispatch, managerVars, counterVars, Idle, IdsIInv, IInv, TypeOK
  <1>2. TypeOK /\ next_event_id \in Nat /\ next_section_id \in Nat /\ tool_next_id \in Nat
    BY DEF IdsIInv, IInv, TypeOK
  <1>3. PICK n : n = Len(open[th]) + 1
    OBVIOUS
  <1>4. /\ open[th] \in Seq(Open) /\ n \in Nat /\ n # 0 /\ n \notin Held(th)
        /\ DOMAIN open = Thread
        /\ \A u \in Thread : open[u] \in Seq(Open) /\ Len(open[u]) \in Nat /\ 0 \in Held(u)
        /\ \A u \in Thread : Len(open'[u]) \in Nat
    BY <1>2, <1>3 DEF TypeOK, Held, IInv
  <1>5. /\ \A u \in Thread \ {th} : open'[u] = open[u]
        /\ \/ open'[th] = open[th]
           \/ frame[th].pc = "registered" /\ open'[th] = Append(open[th], WrittenBack(th))
    BY <1>4 DEF FinishDispatch
  <1>6. PICK from : from = [u \in Thread |-> [i \in Nat |-> IF u = th /\ i = n THEN 0 ELSE i]]
    OBVIOUS
  <1>7. \A u \in Thread : \A i \in Held(u)' : from[u][i] = IF u = th /\ i = n THEN 0 ELSE i
    <2>1. \A u \in Thread : \A i \in Held(u)' : i \in Nat
      BY <1>4 DEF Held
    <2> QED BY <1>6, <2>1
  \* Whatever is numbered after the step was numbered before it, in the place
  \* it came from.
  <1>8. ASSUME NEW u \in Thread, NEW i \in Held(u)', Given(u, i)'
        PROVE  /\ from[u][i] \in Held(u)
               /\ Given(u, from[u][i])
               /\ HeldAt(u, i)'.id = HeldAt(u, from[u][i]).id
               /\ HeldAt(u, i)'.type = HeldAt(u, from[u][i]).type
               /\ HeldAt(u, i)'.owner = HeldAt(u, from[u][i]).owner
               /\ ThroughKokkos(u, i)' => ThroughKokkos(u, from[u][i])
               /\ u = th => i # 0
    <2>1. HeldAt(u, i)'.owner \in Numberer /\ i \in 0 .. Len(open'[u])
      BY <1>8 DEF Given, Held
    <2>2. CASE u # th
      <3>1. from[u][i] = i
        BY <1>7, <2>2
      <3>2. Held(u)' = Held(u) /\ HeldAt(u, i)' = HeldAt(u, i)
        BY <1>1, <1>5, <2>2 DEF Held, HeldAt
      <3>3. ThroughKokkos(u, i)' = ThroughKokkos(u, i)
        BY <1>1, <2>2 DEF ThroughKokkos
      <3> QED BY <1>8, <2>2, <3>1, <3>2, <3>3 DEF Given
    <2>3. CASE u = th
      <3>1. i # 0
        BY <1>1, <2>1, <2>3 DEF HeldAt, Numberer
      <3>2. HeldAt(u, i)' = open'[th][i]
        BY <2>3, <3>1 DEF HeldAt
      <3>3. CASE i = n
        <4>1. frame[th].pc = "registered" /\ open'[th] = Append(open[th], WrittenBack(th))
          BY <1>3, <1>4, <1>5, <2>1, <2>3, <3>3
        <4>2. HeldAt(u, i)' = WrittenBack(th)
          BY <1>3, <1>4, <3>2, <3>3, <4>1
        <4>3. HeldAt(th, 0) = frame[th] /\ from[u][i] = 0 /\ 0 \in Held(th)
          BY <1>4, <1>7, <2>3, <3>3 DEF HeldAt
        <4>4. /\ WrittenBack(th).id = frame[th].id /\ WrittenBack(th).type = frame[th].type
              /\ WrittenBack(th).owner = frame[th].owner
          BY DEF WrittenBack
        <4> QED BY <2>1, <2>3, <3>1, <4>1, <4>2, <4>3, <4>4 DEF Given, ThroughKokkos
      <3>4. CASE i # n
        <4>1. i \in 1 .. Len(open[th]) /\ open'[th][i] = open[th][i]
          <5>1. CASE open'[th] = open[th]
            BY <1>4, <2>1, <2>3, <3>1, <5>1
          <5>2. CASE open'[th] = Append(open[th], WrittenBack(th))
            <6>1. Len(open'[th]) = n
              BY <1>3, <1>4, <5>2
            <6>2. i \in 1 .. Len(open[th])
              BY <1>3, <1>4, <2>1, <2>3, <3>1, <3>4, <6>1
            <6> QED BY <1>4, <5>2, <6>2
          <5> QED BY <1>5, <5>1, <5>2
        <4>2. i \in Held(th) /\ HeldAt(th, i) = open[th][i]
          BY <1>4, <3>1, <4>1 DEF Held, HeldAt
        <4>3. from[u][i] = i
          BY <1>7, <2>3, <3>4
        <4> QED BY <2>1, <2>3, <3>1, <3>2, <4>1, <4>2, <4>3 DEF Given, ThroughKokkos
      <3> QED BY <3>3, <3>4
    <2> QED BY <2>2, <2>3
  <1>9. NotYetNumbered'
    BY <1>1 DEF NotYetNumbered, IdsIInv, Numberer
  <1>10. \A u \in Thread : \A i \in Held(u)' :
           Given(u, i)' =>
             /\ from[u][i] \in Held(u)
             /\ Given(u, from[u][i])
             /\ HeldAt(u, i)'.id = HeldAt(u, from[u][i]).id
             /\ HeldAt(u, i)'.type = HeldAt(u, from[u][i]).type
             /\ HeldAt(u, i)'.owner = HeldAt(u, from[u][i]).owner
             /\ HeldAt(u, i)'.owner = "manager" =>
                  /\ next_event_id <= next_event_id' /\ next_section_id <= next_section_id'
                  /\ UNCHANGED <<singleton, outside>>
                  /\ ThroughKokkos(u, i)' => ThroughKokkos(u, from[u][i])
             /\ \A j \in Held(u)' : Given(u, j)' /\ from[u][i] = from[u][j] => i = j
    <2> SUFFICES ASSUME NEW u \in Thread, NEW i \in Held(u)', Given(u, i)',
                        NEW j \in Held(u)', Given(u, j)', from[u][i] = from[u][j]
                 PROVE  i = j
      BY <1>1, <1>2, <1>8
    <2>1. u = th => i # 0 /\ j # 0
      BY <1>8
    <2> QED BY <1>7, <2>1
  <1>11. tool_next_id <= tool_next_id'
    BY <1>1, <1>2
  <1> QED BY <1>9, <1>10, <1>11, NothingGivenStep

\* finalize() disowns every id the Manager gave; its counters start again.
LEMMA FinalizeKeepsIds ==
  ASSUME IdsIInv, IInv', finalize
  PROVE  IdsIInv'
  <1>1. /\ \A th \in Thread : frame[th].pc = "idle"
        /\ frame' = frame /\ UNCHANGED tool_next_id
        /\ \A th \in Thread : open'[th] = [i \in DOMAIN open[th] |->
              IF open[th][i].owner = "manager" THEN [open[th][i] EXCEPT !.owner = "former"]
                                               ELSE open[th][i]]
    BY DEF finalize
  <1>2. /\ tool_next_id \in Nat
        /\ \A th \in Thread : open[th] \in Seq(Open) /\ open'[th] \in Seq(Open)
    BY DEF IdsIInv, IInv, TypeOK
  <1>3. ASSUME NEW th \in Thread, NEW i \in Held(th)', Given(th, i)'
        PROVE  /\ Given(th, i) /\ HeldAt(th, i)' = HeldAt(th, i)
               /\ HeldAt(th, i)'.owner # "manager"
    <2>1. i # 0
      BY <1>1, <1>3 DEF Given, HeldAt, IdsIInv, NotYetNumbered
    <2>2. i \in DOMAIN open'[th] /\ open'[th][i].owner \in Numberer /\ HeldAt(th, i)' = open'[th][i]
      BY <1>2, <1>3, <2>1 DEF Given, Held, HeldAt
    <2>3. /\ DOMAIN open'[th] = DOMAIN open[th]
          /\ \A k \in DOMAIN open[th] :
               open'[th][k] = IF open[th][k].owner = "manager"
                              THEN [open[th][k] EXCEPT !.owner = "former"] ELSE open[th][k]
      BY <1>1
    <2>4. i \in DOMAIN open[th] /\ open[th][i] \in Open
      BY <1>2, <2>2, <2>3
    <2>5. [open[th][i] EXCEPT !.owner = "former"].owner = "former"
      BY <2>4 DEF Open
    <2>6. open[th][i].owner # "manager" /\ open'[th][i] = open[th][i]
      BY <2>2, <2>3, <2>4, <2>5 DEF Numberer
    <2>7. i \in Held(th) /\ HeldAt(th, i) = open[th][i]
      BY <1>2, <2>1, <2>4 DEF Held, HeldAt
    <2> QED BY <2>2, <2>6, <2>7 DEF Given
  <1>4. NotYetNumbered'
    BY <1>1 DEF IdsIInv, NotYetNumbered
  <1>5. tool_next_id <= tool_next_id'
    BY <1>1, <1>2
  <1> QED BY <1>3, <1>4, <1>5, NothingMovesStep

-----------------------------------------------------------------------------
\* Nothing is numbered before the first manager is there.
LEMMA InitIdsIInv == Init => IdsIInv
  <1> SUFFICES ASSUME Init PROVE IdsIInv
    OBVIOUS
  <1>1. \A th \in Thread : frame[th].owner = "nobody" /\ open[th] = <<>>
    BY DEF Init, Idle
  <1>2. \A th \in Thread : \A i \in Held(th) : ~Given(th, i)
    BY <1>1 DEF Held, Given, HeldAt, Numberer
  <1>3. NotYetNumbered
    BY <1>1 DEF NotYetNumbered, Numberer
  <1> QED BY <1>2, <1>3, InitIInv DEF IdsIInv, BelowCounters, GivenOnce, UntooledNumbered

\* Every step keeps the ids unique.
LEMMA NextIdsIInv ==
  ASSUME "CreateProfileSectionEvent" \notin Dispatched
  PROVE  IdsIInv /\ [Next]_vars => IdsIInv'
  <1> SUFFICES ASSUME IdsIInv, [Next]_vars PROVE IdsIInv'
    OBVIOUS
  <1>0. IInv'
    BY NextIInv DEF IdsIInv
  <1>1. ASSUME NEW t, NEW c, AttachTool(t, c) PROVE IdsIInv'
    BY <1>0, <1>1, NothingHeldChangesStep DEF AttachTool, counterVars, kokkosVars
  <1>2. CASE initialize
    BY <1>0, <1>2, NothingHeldChangesStep DEF initialize, counterVars, kokkosVars
  <1>3. CASE finalize
    BY <1>0, <1>3, FinalizeKeepsIds
  <1>4. ASSUME NEW th \in Thread, ChangeListeners(th) PROVE IdsIInv'
    <2>1. UNCHANGED <<frame, open, next_event_id, next_section_id, tool_next_id, singleton, outside>>
      BY <1>4 DEF ChangeListeners, register_listener, unregister_pointer, unregister_iterator,
             Unregister, SetLists, counterVars, kokkosVars
    <2> QED BY <1>0, <2>1, NothingHeldChangesStep
  <1>5. ASSUME NEW th \in Thread, EmitEvent(th) PROVE IdsIInv'
    BY <1>0, <1>5, EmitOpeningKeepsIds, EmitOtherKeepsIds, EmitClosingKeepsIds, DispatchKeepsIds
       DEF EmitEvent
  <1>6. ASSUME NEW th \in Thread, Advance(th) PROVE IdsIInv'
    BY <1>0, <1>6, ContextKeepsIds, InvokeKeepsIds, FinishKeepsIds DEF Advance
  <1>7. CASE UNCHANGED vars
    BY <1>0, <1>7, NothingHeldChangesStep DEF vars, managerVars, counterVars, kokkosVars
  <1> QED BY <1>1, <1>2, <1>3, <1>4, <1>5, <1>6, <1>7 DEF Next

\* No two kernels or custom events share an id of the Manager, and no two
\* sections, on however many threads, as long as the program asks
\* get_next_event_id for the ids of what it dispatches and leaves sections to
\* Kokkos (get_next_event_id, get_next_section_id,
\* increment_id_if_needed_for_event_type_impl).
THEOREM IdsUniqueHolds ==
  ASSUME "CreateProfileSectionEvent" \notin Dispatched
  PROVE  Spec => []IdsUnique
  <1>1. Init => IdsIInv
    BY InitIdsIInv
  <1>2. IdsIInv /\ [Next]_vars => IdsIInv'
    BY NextIdsIInv
  <1>3. IdsIInv => IdsUnique
    BY GivenOnceIsUnique
  <1> QED BY <1>1, <1>2, <1>3, PTL DEF Spec

\* A tool and the Manager number kernels side by side, each the types that
\* are its own: an end event of a type the tool numbers has an id of the
\* tool's, and one kernel only that it can be the end of, whether the tool was
\* called by the Manager or by Kokkos (dispatch_context_callback,
\* increment_id_if_needed_for_event_type_impl).
THEOREM EndsTellApartHolds ==
  ASSUME "CreateProfileSectionEvent" \notin Dispatched
  PROVE  Spec => []EndsTellApart
  <1>1. Init => IdsIInv
    BY InitIdsIInv
  <1>2. IdsIInv /\ [Next]_vars => IdsIInv'
    BY NextIdsIInv
  <1>3. IdsIInv => EndsTellApart
    BY GivenOnceTellsApart
  <1> QED BY <1>1, <1>2, <1>3, PTL DEF Spec
-----------------------------------------------------------------------------
(***************************************************************************)
(* The end of a kernel.  OneEndPerBegin fails where an id was not given by *)
(* the manager that is there: the kernel was begun while no listener       *)
(* handled its type, or under a tool, or under an earlier manager.         *)
(* Without such kernels it holds.                                          *)
(***************************************************************************)

\* A program under which this manager numbers every kernel: it begins one
\* only while some listener handles its begin event and no tool has a
\* callback for it, and it finalizes the manager only with no kernel open.
NumbersEveryKernel ==
  /\ \A th \in Thread, t \in BeginEvent :
       EmitOpening(th, t) => callbacks[t] = "dispatching" /\ outside[t] = "null"
  /\ finalize => \A th \in Thread : \A i \in DOMAIN open[th] : open[th][i].type \notin BeginEvent

\* The kernels a thread has open have an id of this manager, and the one it
\* is about to open will have.
OpenNumbered(th) ==
  \A i \in DOMAIN open[th] : open[th][i].type \in BeginEvent => open[th][i].owner = "manager"

FrameNumbered(th) ==
  frame[th].type \in BeginEvent =>
    /\ frame[th].pc = "context" => outside[frame[th].type] = "null"
    /\ frame[th].pc = "registered" => frame[th].owner = "manager"

KernelsNumbered == \A th \in Thread : OpenNumbered(th) /\ FrameNumbered(th)

\* Such kernels have one end event each.
LEMMA NumberedKernelsEndOnce == IdsIInv /\ KernelsNumbered => OneEndPerBegin
  <1> SUFFICES ASSUME IdsIInv, KernelsNumbered,
                      NEW th \in Thread, NEW other \in Thread,
                      NEW i \in DOMAIN open[th], NEW j \in DOMAIN open[other],
                      <<th, i>> # <<other, j>>,
                      open[th][i].type = open[other][j].type,
                      open[th][i].type \in BeginEvent,
                      open[th][i].id = open[other][j].id
               PROVE  FALSE
    BY DEF OneEndPerBegin
  <1>1. open[th][i].owner = "manager" /\ open[other][j].owner = "manager"
    BY DEF KernelsNumbered, OpenNumbered
  <1>2. open[th] \in Seq(Open) /\ open[other] \in Seq(Open)
    BY DEF IdsIInv, IInv, TypeOK
  <1>3. i # 0 /\ i \in Held(th) /\ j # 0 /\ j \in Held(other)
    BY <1>2 DEF Held
  <1>4. HeldAt(th, i) = open[th][i] /\ HeldAt(other, j) = open[other][j]
    BY <1>3 DEF HeldAt
  <1>5. Given(th, i) /\ Given(other, j) /\ SameCounter(open[th][i], open[other][j])
    BY <1>1, <1>3, <1>4 DEF Given, Numberer, SameCounter
  <1>6. th = other /\ i = j
    BY <1>3, <1>4, <1>5 DEF IdsIInv, GivenOnce
  <1> QED BY <1>6

-----------------------------------------------------------------------------
\* A step of one thread says nothing of the kernels of the others.
LEMMA OneThreadKeepsNumbered ==
  ASSUME KernelsNumbered, NEW th \in Thread, UNCHANGED outside,
         \A u \in Thread \ {th} : frame'[u] = frame[u] /\ open'[u] = open[u],
         OpenNumbered(th)', FrameNumbered(th)'
  PROVE  KernelsNumbered'
  BY DEF KernelsNumbered, OpenNumbered, FrameNumbered

\* Kokkos calls a callback: the thread stays idle, or the context callback of
\* the type is next.
LEMMA EmitFrame ==
  ASSUME IInv, NEW th \in Thread, NEW t, NEW id, Emit(th, t, id),
         t \in BeginEvent => callbacks[t] # "dispatching" \/ outside[t] = "null"
  PROVE  /\ UNCHANGED outside
         /\ \A u \in Thread \ {th} : frame'[u] = frame[u]
         /\ FrameNumbered(th)'
  <1>1. DOMAIN frame = Thread /\ frame[th] = Idle /\ UNCHANGED outside
    BY DEF Emit, managerVars, IInv, TypeOK
  <1>2. Idle.pc = "idle"
    BY DEF Idle
  <1>3. CASE callbacks[t] = "dispatching"
    <2>1. frame' = [frame EXCEPT ![th] = [Idle EXCEPT !.pc = "context", !.type = t, !.id = id]]
      BY <1>3 DEF Emit
    <2>2. frame'[th].pc = "context" /\ frame'[th].type = t
      BY <1>1, <2>1 DEF Idle
    <2> QED BY <1>1, <1>3, <2>1, <2>2 DEF FrameNumbered
  <1>4. CASE callbacks[t] # "dispatching"
    <2>1. frame' = frame
      BY <1>4 DEF Emit
    <2> QED BY <1>1, <1>2, <2>1 DEF FrameNumbered
  <1> QED BY <1>3, <1>4

\* Kokkos begins a kernel that listeners see, or creates a section.
LEMMA EmitOpeningKeepsNumbered ==
  ASSUME IInv, KernelsNumbered, NumbersEveryKernel, NEW th \in Thread, NEW t, EmitOpening(th, t)
  PROVE  KernelsNumbered'
  <1>1. Emit(th, t, 0) /\ t \in Opener /\ t \in EventTypeList
    BY OpenersAndClosers DEF EmitOpening
  <1>2. t \in BeginEvent => callbacks[t] = "dispatching" /\ outside[t] = "null"
    BY DEF NumbersEveryKernel
  <1>3. /\ UNCHANGED outside
        /\ \A u \in Thread \ {th} : frame'[u] = frame[u]
        /\ FrameNumbered(th)'
    BY <1>1, <1>2, EmitFrame
  <1>4. open[th] \in Seq(Open) /\ DOMAIN open = Thread /\ callbacks[t] \in {"null", "tool", "dispatching"}
    BY <1>1 DEF IInv, TypeOK, Callback
  <1>5. CASE t \in BeginEvent
    <2>1. open' = open
      BY <1>2, <1>5 DEF EmitOpening
    <2>2. OpenNumbered(th)'
      BY <2>1 DEF KernelsNumbered, OpenNumbered
    <2> QED BY <1>3, <2>1, <2>2, OneThreadKeepsNumbered
  <1>6. CASE t \notin BeginEvent
    <2>1. /\ \A u \in Thread \ {th} : open'[u] = open[u]
          /\ open'[th] = open[th] \/ \E o : o.type = t /\ open'[th] = Append(open[th], o)
      BY <1>4 DEF EmitOpening
    <2>2. \A i \in DOMAIN open'[th] : \/ i \in DOMAIN open[th] /\ open'[th][i] = open[th][i]
                                      \/ open'[th][i].type = t
      BY <1>4, <2>1
    <2>3. OpenNumbered(th)'
      BY <1>6, <2>2 DEF KernelsNumbered, OpenNumbered
    <2> QED BY <1>3, <2>1, <2>3, OneThreadKeepsNumbered
  <1> QED BY <1>5, <1>6

\* What stays open was open, and an end event is no begin event.
LEMMA EmitClosingKeepsNumbered ==
  ASSUME IInv, KernelsNumbered, NEW th \in Thread, NEW k \in DOMAIN open[th], EmitClosing(th, k)
  PROVE  KernelsNumbered'
  <1>1. open[th] \in Seq(Open) /\ DOMAIN open = Thread
    BY DEF IInv, TypeOK
  <1>2. open'[th] = RemoveAt(open[th], k) /\ \A u \in Thread \ {th} : open'[u] = open[u]
    BY <1>1 DEF EmitClosing
  <1>3. \A i \in DOMAIN open'[th] : \E j \in DOMAIN open[th] : open'[th][i] = open[th][j]
    <2>1. /\ k \in 1 .. Len(open[th]) /\ Len(open[th]) \in Nat
          /\ DOMAIN open[th] = 1 .. Len(open[th])
      BY <1>1
    <2>2. /\ open'[th] \in Seq(Open) /\ Len(open'[th]) = Len(open[th]) - 1
          /\ \A i \in 1 .. Len(open[th]) - 1 :
               open'[th][i] = IF i < k THEN open[th][i] ELSE open[th][i + 1]
      BY <1>1, <1>2, <2>1, RemoveAtProperties
    <2> SUFFICES ASSUME NEW i \in DOMAIN open'[th]
                 PROVE  \E j \in DOMAIN open[th] : open'[th][i] = open[th][j]
      OBVIOUS
    <2>3. i \in 1 .. Len(open[th]) - 1 /\ i \in DOMAIN open[th] /\ i + 1 \in DOMAIN open[th]
      BY <2>1, <2>2
    <2>4. open'[th][i] = open[th][i] \/ open'[th][i] = open[th][i + 1]
      BY <2>2, <2>3
    <2> QED BY <2>3, <2>4
  <1>4. OpenNumbered(th)'
    BY <1>2, <1>3 DEF KernelsNumbered, OpenNumbered
  <1>5. PICK t, id : t = paired_event[open[th][k].type] /\ Emit(th, t, id)
    BY DEF EmitClosing
  <1>6. open[th][k].type \in Opener
    <2>1. open[th][k] \in Open
      BY <1>1
    <2> QED BY <2>1 DEF Open
  <1>7. t \notin BeginEvent
    <2>1. "DestroyProfileSectionEvent" \notin BeginEvent
          /\ paired_event["CreateProfileSectionEvent"] = "DestroyProfileSectionEvent"
      BY EventTables DEF paired_event
    <2>2. \A e \in BeginEvent : paired_event[e] \notin BeginEvent
      BY EventTables DEF EndEvent
    <2> QED BY <1>5, <1>6, <2>1, <2>2 DEF Opener
  <1>8. /\ UNCHANGED outside
        /\ \A u \in Thread \ {th} : frame'[u] = frame[u]
        /\ FrameNumbered(th)'
    BY <1>5, <1>7, EmitFrame
  <1> QED BY <1>2, <1>4, <1>8, OneThreadKeepsNumbered

\* Kokkos starts or stops a section, or has an event without an id.
LEMMA EmitOtherKeepsNumbered ==
  ASSUME IInv, KernelsNumbered, NEW th \in Thread, NEW t, NEW i,
         EmitOther(th, t) \/ EmitSection(th, t, i)
  PROVE  KernelsNumbered'
  <1>1. PICK id : Emit(th, t, id)
    BY DEF EmitOther, EmitSection
  <1>2. t \notin BeginEvent /\ open' = open
    BY EventTables DEF EmitOther, EmitSection, Opener
  <1>3. /\ UNCHANGED outside
        /\ \A u \in Thread \ {th} : frame'[u] = frame[u]
        /\ FrameNumbered(th)'
    BY <1>1, <1>2, EmitFrame
  <1>4. OpenNumbered(th)'
    BY <1>2 DEF KernelsNumbered, OpenNumbered
  <1> QED BY <1>2, <1>3, <1>4, OneThreadKeepsNumbered

\* An event of the program's own opens no kernel.
LEMMA DispatchKeepsNumbered ==
  ASSUME IInv, KernelsNumbered, NEW th \in Thread, NEW t, dispatch(th, t)
  PROVE  KernelsNumbered'
  <1>1. /\ UNCHANGED <<open, outside>>
        /\ DOMAIN frame = Thread
        /\ frame' = [frame EXCEPT ![th] = [Idle EXCEPT !.pc = "listeners", !.type = t,
                                                       !.id = next_event_id, !.owner = "manager"]]
    BY DEF dispatch, managerVars, kokkosVars, IInv, TypeOK
  <1>2. frame'[th].pc = "listeners" /\ \A u \in Thread \ {th} : frame'[u] = frame[u]
    BY <1>1 DEF Idle
  <1> QED BY <1>1, <1>2, OneThreadKeepsNumbered DEF FrameNumbered, KernelsNumbered, OpenNumbered

\* The Manager numbers a kernel that no tool has a callback for.
LEMMA ContextKeepsNumbered ==
  ASSUME IInv, KernelsNumbered, NEW th \in Thread, dispatch_context_callback(th)
  PROVE  KernelsNumbered'
  <1> DEFINE t == frame[th].type
             f == frame'[th]
  <1>1. /\ frame[th].pc = "context" /\ UNCHANGED <<open, outside>>
        /\ frame[th] \in Frame /\ DOMAIN frame = Thread
    BY DEF dispatch_context_callback, managerVars, IInv, TypeOK
  <1>2. singleton /\ context_callbacks = outside
    BY <1>1 DEF IInv, CursorsListed, SavedTable
  <1>3. t \in BeginEvent => context_callbacks[t] = "null"
    BY <1>1, <1>2 DEF KernelsNumbered, FrameNumbered
  <1>4. \A u \in Thread \ {th} : frame'[u] = frame[u]
    BY <1>1 DEF dispatch_context_callback, IncrementIdIfNeeded, CallTool
  <1>5. f.pc = "registered" /\ f.type = t
    BY <1>1 DEF dispatch_context_callback, IncrementIdIfNeeded, CallTool, Frame
  <1>6. t \in BeginEvent => f.owner = "manager"
    <2> SUFFICES ASSUME t \in BeginEvent PROVE f.owner = "manager"
      OBVIOUS
    <2>1. IncrementIdIfNeeded(th)
      BY <1>3 DEF dispatch_context_callback
    <2>2. t # "CreateProfileSectionEvent" /\ t \in Opener
      BY EventTables DEF Opener
    <2>3. frame' = [frame EXCEPT ![th] = [@ EXCEPT !.pc = "registered", !.id = next_event_id,
                                                   !.owner = "manager"]]
      BY <2>1, <2>2 DEF IncrementIdIfNeeded
    <2> QED BY <1>1, <2>3 DEF Frame
  <1>7. FrameNumbered(th)'
    BY <1>5, <1>6 DEF FrameNumbered
  <1>8. OpenNumbered(th)'
    BY <1>1 DEF KernelsNumbered, OpenNumbered
  <1> QED BY <1>1, <1>4, <1>7, <1>8, OneThreadKeepsNumbered

\* The walk moves on: the event stays what it is.
LEMMA InvokeKeepsNumbered ==
  ASSUME IInv, KernelsNumbered, NEW th \in Thread, InvokeListener(th)
  PROVE  KernelsNumbered'
  <1>1. PICK i : frame' = [frame EXCEPT ![th].cursor = Walked(th)[i]]
    BY DEF InvokeListener
  <1>2. /\ UNCHANGED <<open, outside>>
        /\ frame[th] \in Frame /\ DOMAIN frame = Thread
    BY DEF InvokeListener, managerVars, kokkosVars, IInv, TypeOK
  <1>3. /\ frame'[th].pc = frame[th].pc /\ frame'[th].type = frame[th].type
        /\ frame'[th].owner = frame[th].owner
        /\ \A u \in Thread \ {th} : frame'[u] = frame[u]
    BY <1>1, <1>2 DEF Frame
  <1> QED BY <1>2, <1>3, OneThreadKeepsNumbered DEF FrameNumbered, KernelsNumbered, OpenNumbered

\* The id is written back: a kernel that is now open was numbered in the frame.
LEMMA FinishKeepsNumbered ==
  ASSUME IInv, KernelsNumbered, NEW th \in Thread, FinishDispatch(th)
  PROVE  KernelsNumbered'
  <1>1. /\ frame' = [frame EXCEPT ![th] = Idle] /\ UNCHANGED outside
        /\ DOMAIN frame = Thread /\ DOMAIN open = Thread /\ open[th] \in Seq(Open)
    BY DEF FinishDispatch, managerVars, IInv, TypeOK
  <1>2. frame'[th].pc = "idle" /\ \A u \in Thread \ {th} : frame'[u] = frame[u]
    BY <1>1 DEF Idle
  <1>3. /\ \A u \in Thread \ {th} : open'[u] = open[u]
        /\ \/ open'[th] = open[th]
           \/ frame[th].pc = "registered" /\ open'[th] = Append(open[th], WrittenBack(th))
    BY <1>1 DEF FinishDispatch
  <1>4. WrittenBack(th).type = frame[th].type /\ WrittenBack(th).owner = frame[th].owner
    BY DEF WrittenBack
  <1>5. OpenNumbered(th)'
    <2>1. CASE open'[th] = open[th]
      BY <2>1 DEF KernelsNumbered, OpenNumbered
    <2>2. CASE frame[th].pc = "registered" /\ open'[th] = Append(open[th], WrittenBack(th))
      <3>1. \A i \in DOMAIN open'[th] : \/ i \in DOMAIN open[th] /\ open'[th][i] = open[th][i]
                                        \/ open'[th][i] = WrittenBack(th)
        BY <1>1, <2>2
      <3> QED BY <1>4, <2>2, <3>1 DEF KernelsNumbered, OpenNumbered, FrameNumbered
    <2> QED BY <1>3, <2>1, <2>2
  <1> QED BY <1>1, <1>2, <1>3, <1>5, OneThreadKeepsNumbered DEF FrameNumbered

\* The kernels of a manager that goes away would have an id of nobody's; there
\* are none.
LEMMA FinalizeKeepsNumbered ==
  ASSUME IInv, KernelsNumbered, NumbersEveryKernel, finalize
  PROVE  KernelsNumbered'
  <1>1. /\ frame' = frame /\ UNCHANGED outside
        /\ \A th \in Thread : frame[th].pc = "idle"
        /\ \A th \in Thread : open'[th] = [i \in DOMAIN open[th] |->
              IF open[th][i].owner = "manager" THEN [open[th][i] EXCEPT !.owner = "former"]
                                               ELSE open[th][i]]
    BY DEF finalize
  <1>2. ASSUME NEW th \in Thread, NEW i \in DOMAIN open'[th]
        PROVE  open'[th][i].type \notin BeginEvent
    <2>1. i \in DOMAIN open[th] /\ open[th] \in Seq(Open)
      BY <1>1, <1>2 DEF IInv, TypeOK
    <2>2. open[th][i] \in Open
      BY <2>1
    <2>3. [open[th][i] EXCEPT !.owner = "former"].type = open[th][i].type
      BY <2>2 DEF Open
    <2>4. open'[th][i].type = open[th][i].type
      BY <1>1, <2>1, <2>3
    <2> QED BY <2>1, <2>4 DEF NumbersEveryKernel
  <1> QED BY <1>1, <1>2 DEF KernelsNumbered, OpenNumbered, FrameNumbered

\* Every step keeps the kernels numbered.
LEMMA NextNumbered ==
  IInv /\ KernelsNumbered /\ [Next]_vars /\ [NumbersEveryKernel]_vars => KernelsNumbered'
  <1> SUFFICES ASSUME IInv, KernelsNumbered, [Next]_vars, [NumbersEveryKernel]_vars
               PROVE  KernelsNumbered'
    OBVIOUS
  <1>0. ASSUME UNCHANGED <<frame, open, outside>> PROVE KernelsNumbered'
    BY <1>0 DEF KernelsNumbered, OpenNumbered, FrameNumbered
  <1>1. CASE UNCHANGED vars
    BY <1>0, <1>1 DEF vars, managerVars, kokkosVars
  <1>2. CASE Next /\ NumbersEveryKernel
    <2>1. ASSUME NEW t, NEW c, AttachTool(t, c) PROVE KernelsNumbered'
      <3>1. UNCHANGED <<frame, open>> /\ \A th \in Thread : frame[th].pc = "idle"
        BY <2>1 DEF AttachTool, kokkosVars, IInv, CursorsListed
      <3> QED BY <3>1 DEF KernelsNumbered, OpenNumbered, FrameNumbered
    <2>2. CASE initialize
      BY <1>0, <2>2 DEF initialize, kokkosVars
    <2>3. CASE finalize
      BY <1>2, <2>3, FinalizeKeepsNumbered
    <2>4. ASSUME NEW th \in Thread, ChangeListeners(th) PROVE KernelsNumbered'
      BY <1>0, <2>4 DEF ChangeListeners, register_listener, unregister_pointer, unregister_iterator,
             Unregister, SetLists, kokkosVars
    <2>5. ASSUME NEW th \in Thread, EmitEvent(th) PROVE KernelsNumbered'
      BY <1>2, <2>5, EmitOpeningKeepsNumbered, EmitOtherKeepsNumbered, EmitClosingKeepsNumbered,
         DispatchKeepsNumbered DEF EmitEvent
    <2>6. ASSUME NEW th \in Thread, Advance(th) PROVE KernelsNumbered'
      BY <2>6, ContextKeepsNumbered, InvokeKeepsNumbered, FinishKeepsNumbered DEF Advance
    <2> QED BY <1>2, <2>1, <2>2, <2>3, <2>4, <2>5, <2>6 DEF Next
  <1> QED BY <1>1, <1>2

\* A begin event that listeners saw has an id that the end event of no other
\* kernel of its type carries, in every program that begins kernels only while
\* a listener sees them and no tool numbers them, and finalizes the manager
\* with no kernel open (EventBeginEndIdMatcher.hpp:15-19, and
\* increment_id_if_needed_for_event_type_impl, which numbers what it sees).
THEOREM OneEndPerBeginHolds ==
  ASSUME "CreateProfileSectionEvent" \notin Dispatched
  PROVE  Spec /\ [][NumbersEveryKernel]_vars => []OneEndPerBegin
  <1>1. Init => IdsIInv /\ KernelsNumbered
    BY InitIdsIInv DEF Init, Idle, KernelsNumbered, OpenNumbered, FrameNumbered
  <1>2. IdsIInv /\ [Next]_vars => IdsIInv'
    BY NextIdsIInv
  <1>3. IdsIInv /\ KernelsNumbered /\ [Next]_vars /\ [NumbersEveryKernel]_vars => KernelsNumbered'
    BY NextNumbered DEF IdsIInv
  <1>4. IdsIInv /\ KernelsNumbered => OneEndPerBegin
    BY NumberedKernelsEndOnce
  <1> QED BY <1>1, <1>2, <1>3, <1>4, PTL DEF Spec
=============================================================================
