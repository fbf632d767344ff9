------------------------------ MODULE EventBus ------------------------------
(***************************************************************************)
(* What the Manager promises to the listeners, without Kokkos's callback   *)
(* table, the context callbacks and the lists per event type: an event     *)
(* that is published reaches every subscriber interested in its type, one  *)
(* after the other in the order of subscription, each exactly once and all *)
(* with the same id.  Someone who subscribes while the event is under way  *)
(* gets it too, someone who leaves before its turn does not.               *)
(***************************************************************************)
EXTENDS Lists

CONSTANTS Thread, Node, Type, NoNode

VARIABLES
  subscribers,  \* the subscribers, in order of subscription
  interest,     \* the event types each subscriber is interested in
  delivery      \* the event each thread is delivering

busVars == <<subscribers, interest, delivery>>

\* Who has the event now and who has yet to get it; nothing is delivered
\* when there is no event.
Delivery == [type : Type, id : Nat, current : Node \cup {NoNode}, rest : SUBSET Node]
Nothing  == [rest |-> {}]

BusTypeOK ==
  /\ subscribers \in Seq(Node)
  /\ interest \in [Nodes(subscribers) -> SUBSET Type]
  /\ delivery \in [Thread -> Delivery \cup {Nothing}]

Active(th) == delivery[th] # Nothing

BusInit ==
  /\ subscribers = <<>>
  /\ interest = <<>>
  /\ delivery = [th \in Thread |-> Nothing]

Subscribe(n) ==
  /\ n \notin Nodes(subscribers)
  /\ subscribers' = Link(subscribers, n)
  /\ interest' \in [Nodes(subscribers) \cup {n} -> SUBSET Type]
  /\ \A m \in Nodes(subscribers) : interest'[m] = interest[m]
  /\ delivery' = [th \in Thread |->
                    IF Active(th) /\ delivery[th].type \in interest'[n]
                    THEN [delivery[th] EXCEPT !.rest = @ \cup {n}] ELSE delivery[th]]

Unsubscribe(n) ==
  /\ n \in Nodes(subscribers)
  /\ \A th \in Thread : Active(th) => delivery[th].current # n
  /\ subscribers' = Unlink(subscribers, n)
  /\ interest' = [m \in Nodes(subscribers) \ {n} |-> interest[m]]
  /\ delivery' = [th \in Thread |-> [delivery[th] EXCEPT !.rest = @ \ {n}]]

Close ==
  /\ \A th \in Thread : ~Active(th)
  /\ subscribers' = <<>>
  /\ interest' = <<>>
  /\ UNCHANGED delivery

\* An event of any type and with any id.
Publish(th) ==
  /\ ~Active(th)
  /\ delivery'[th] \in Delivery
  /\ delivery'[th].current = NoNode
  /\ delivery'[th].rest = {n \in Nodes(subscribers) : delivery'[th].type \in interest[n]}
  /\ delivery' = [delivery EXCEPT ![th] = delivery'[th]]
  /\ UNCHANGED <<subscribers, interest>>

Deliver(th) ==
  /\ Active(th)
  /\ \E n \in delivery[th].rest :
       /\ \A m \in delivery[th].rest : Position(subscribers, n) <= Position(subscribers, m)
       /\ delivery' = [delivery EXCEPT ![th] = [type |-> @.type, id |-> @.id,
                                                current |-> n, rest |-> @.rest \ {n}]]
  /\ UNCHANGED <<subscribers, interest>>

Complete(th) ==
  /\ Active(th)
  /\ delivery[th].rest = {}
  /\ delivery' = [delivery EXCEPT ![th] = Nothing]
  /\ UNCHANGED <<subscribers, interest>>

BusNext ==
  \/ \E n \in Node : Subscribe(n) \/ Unsubscribe(n)
  \/ Close
  \/ \E th \in Thread : Publish(th) \/ Deliver(th) \/ Complete(th)

BusSpec == BusInit /\ [][BusNext]_busVars
=============================================================================
