--------------------------- MODULE ManagerProofs ---------------------------
(***************************************************************************)
(* The invariants of the Manager hold for every set of threads, listeners  *)
(* and event types, and for any number of registrations.                   *)
(***************************************************************************)
EXTENDS Manager, SequenceTheorems, TLAPS

(***************************************************************************)
(* What linking and unlinking a node do to a list of distinct nodes.       *)
(***************************************************************************)

\* The nodes of a list are what stands at its positions.
LEMMA NodesProperties ==
  ASSUME NEW S, NEW l \in Seq(S)
  PROVE  /\ DOMAIN l = 1 .. Len(l)
         /\ \A n : n \in Nodes(l) <=> \E i \in 1 .. Len(l) : l[i] = n
         /\ Nodes(l) \subseteq S
  BY DEF Nodes, Range

\* A node of a list has one position, and Position finds it.
LEMMA PositionProperties ==
  ASSUME NEW S, NEW l \in Seq(S), NEW n \in Nodes(l)
  PROVE  Position(l, n) \in 1 .. Len(l) /\ l[Position(l, n)] = n
  BY DEF Position, Nodes, Range

\* Linking adds the node at the end.
LEMMA LinkProperties ==
  ASSUME NEW S, NEW l \in Seq(S), NEW n \in S
  PROVE  /\ Link(l, n) \in Seq(S)
         /\ Link(l, n) # <<>>
         /\ Len(Link(l, n)) = Len(l) + 1
         /\ \A i \in 1 .. Len(l) : Link(l, n)[i] = l[i]
         /\ Link(l, n)[Len(l) + 1] = n
         /\ Nodes(Link(l, n)) = Nodes(l) \cup {n}
  <1>1. /\ Link(l, n) \in Seq(S)
        /\ Link(l, n) # <<>>
        /\ Len(Link(l, n)) = Len(l) + 1
        /\ \A i \in 1 .. Len(l) : Link(l, n)[i] = l[i]
        /\ Link(l, n)[Len(l) + 1] = n
    BY DEF Link
  <1>2. Nodes(Link(l, n)) = Nodes(l) \cup {n}
    <2>1. DOMAIN Link(l, n) = 1 .. Len(l) + 1 /\ DOMAIN l = 1 .. Len(l)
      BY <1>1
    <2>2. 1 .. Len(l) + 1 = (1 .. Len(l)) \cup {Len(l) + 1}
      OBVIOUS
    <2> QED BY <1>1, <2>1, <2>2 DEF Nodes, Range
  <1> QED BY <1>1, <1>2

\* A new node keeps the nodes distinct.
LEMMA LinkInjective ==
  ASSUME NEW S, NEW l \in Seq(S), NEW n \in S \ Nodes(l), IsInjective(l)
  PROVE  IsInjective(Link(l, n))
  <1>1. \A i \in 1 .. Len(l) : l[i] # n
    BY DEF Nodes, Range
  <1>2. DOMAIN Link(l, n) = 1 .. Len(l) + 1 /\ DOMAIN l = 1 .. Len(l)
    BY LinkProperties
  <1>3. ASSUME NEW i \in 1 .. Len(l) + 1, NEW j \in 1 .. Len(l) + 1, Link(l, n)[i] = Link(l, n)[j]
        PROVE  i = j
    <2>1. \A k \in 1 .. Len(l) : Link(l, n)[k] = l[k] /\ l[k] # n
      BY <1>1, LinkProperties
    <2>2. Link(l, n)[Len(l) + 1] = n
      BY LinkProperties
    <2>3. \A k, h \in 1 .. Len(l) : l[k] = l[h] => k = h
      BY <1>2 DEF IsInjective
    <2> QED BY <1>3, <2>1, <2>2, <2>3
  <1> QED BY <1>2, <1>3 DEF IsInjective

\* The same of push_back, in the terms of sequences.
LEMMA PushBackInjective ==
  ASSUME NEW S, NEW l \in Seq(S), NEW n \in S, n \notin Range(l), IsInjective(l)
  PROVE  Range(Append(l, n)) = Range(l) \cup {n} /\ IsInjective(Append(l, n))
  <1>1. n \in S \ Nodes(l)
    BY DEF Nodes
  <1>2. Nodes(Link(l, n)) = Nodes(l) \cup {n}
    BY LinkProperties
  <1>3. IsInjective(Link(l, n))
    BY <1>1, LinkInjective
  <1>4. Link(l, n) = Append(l, n)
    BY DEF Link
  <1>5. Range(Append(l, n)) = Range(l) \cup {n}
    BY <1>2, <1>4, Zenon DEF Nodes
  <1>6. IsInjective(Append(l, n))
    BY <1>3, <1>4, Zenon
  <1> QED BY <1>5, <1>6

\* Unlinking a node that is there moves its successors one position down.
LEMMA RemoveAtProperties ==
  ASSUME NEW S, NEW l \in Seq(S), NEW p \in 1 .. Len(l)
  PROVE  /\ RemoveAt(l, p) \in Seq(S)
         /\ Len(RemoveAt(l, p)) = Len(l) - 1
         /\ \A i \in 1 .. Len(l) - 1 : RemoveAt(l, p)[i] = IF i < p THEN l[i] ELSE l[i + 1]
  <1> DEFINE a == SubSeq(l, 1, p - 1)
             b == SubSeq(l, p + 1, Len(l))
  <1>1. a \in Seq(S) /\ Len(a) = p - 1 /\ \A i \in 1 .. p - 1 : a[i] = l[i]
    OBVIOUS
  <1>2. b \in Seq(S) /\ Len(b) = Len(l) - p /\ \A i \in 1 .. Len(l) - p : b[i] = l[p + i]
    OBVIOUS
  <1>3. RemoveAt(l, p) = a \o b
    BY DEF RemoveAt
  <1> HIDE DEF a, b
  <1>4. /\ a \o b \in Seq(S)
        /\ Len(a \o b) = Len(a) + Len(b)
        /\ \A i \in 1 .. Len(a) + Len(b) :
             (a \o b)[i] = IF i <= Len(a) THEN a[i] ELSE b[i - Len(a)]
    BY <1>1, <1>2, ConcatProperties
  <1>5. Len(a) + Len(b) = Len(l) - 1
    BY <1>1, <1>2
  <1>6. ASSUME NEW i \in 1 .. Len(l) - 1
        PROVE  (a \o b)[i] = IF i < p THEN l[i] ELSE l[i + 1]
    <2>1. CASE i < p
      BY <2>1, <1>1, <1>4, <1>5
    <2>2. CASE i >= p
      <3>1. i - (p - 1) \in 1 .. Len(l) - p /\ p + (i - (p - 1)) = i + 1
        BY <2>2
      <3>2. (a \o b)[i] = b[i - (p - 1)]
        BY <2>2, <1>1, <1>4, <1>5
      <3>3. b[i - (p - 1)] = l[i + 1]
        BY <3>1, <1>2
      <3> QED BY <2>2, <3>2, <3>3
    <2>3. i < p \/ i >= p
      OBVIOUS
    <2> QED BY <2>1, <2>2, <2>3
  <1> QED BY <1>3, <1>4, <1>5, <1>6

\* Unlinking takes the node out and keeps the other nodes distinct.
LEMMA UnlinkProperties ==
  ASSUME NEW S, NEW l \in Seq(S), IsInjective(l), NEW n
  PROVE  /\ Unlink(l, n) \in Seq(S)
         /\ Nodes(Unlink(l, n)) = Nodes(l) \ {n}
         /\ IsInjective(Unlink(l, n))
  <1>1. CASE n \notin Nodes(l)
    BY <1>1 DEF Unlink
  <1>2. CASE n \in Nodes(l)
    <2> DEFINE p == Position(l, n)
               u == Unlink(l, n)
    <2>1. p \in 1 .. Len(l) /\ l[p] = n
      BY <1>2, PositionProperties
    <2>2. /\ u \in Seq(S)
          /\ Len(u) = Len(l) - 1
          /\ \A i \in 1 .. Len(l) - 1 : u[i] = IF i < p THEN l[i] ELSE l[i + 1]
      BY <1>2, <2>1, RemoveAtProperties DEF Unlink
    <2>3. \A i, j \in 1 .. Len(l) : l[i] = l[j] => i = j
      BY DEF IsInjective
    <2>4. DOMAIN u = 1 .. Len(l) - 1 /\ DOMAIN l = 1 .. Len(l)
      BY <2>2
    <2> HIDE DEF p, u
    <2>5. IsInjective(u)
      BY <2>1, <2>2, <2>3, <2>4 DEF IsInjective
    <2>6. ASSUME NEW i \in 1 .. Len(l) - 1
          PROVE  u[i] \in Nodes(l) /\ u[i] # n
      <3>1. u[i] = IF i < p THEN l[i] ELSE l[i + 1]
        BY <2>2
      <3>2. i \in 1 .. Len(l) /\ i + 1 \in 1 .. Len(l)
        OBVIOUS
      <3>3. \A k \in 1 .. Len(l) : l[k] \in Nodes(l)
        BY NodesProperties
      <3>4. CASE i < p
        BY <3>1, <3>2, <3>3, <3>4, <2>1, <2>3
      <3>5. CASE i >= p
        BY <3>1, <3>2, <3>3, <3>5, <2>1, <2>3
      <3> QED BY <3>4, <3>5, <2>1
    <2>7. ASSUME NEW k \in 1 .. Len(l), l[k] # n
          PROVE  \E i \in 1 .. Len(l) - 1 : u[i] = l[k]
      <3>1. CASE k < p
        BY <3>1, <2>1, <2>2
      <3>2. CASE k > p
        <4>1. k - 1 \in 1 .. Len(l) - 1 /\ ~(k - 1 < p) /\ (k - 1) + 1 = k
          BY <3>2, <2>1
        <4> QED BY <4>1, <2>2
      <3> QED BY <3>1, <3>2, <2>1, <2>7
    <2>8. Nodes(u) = Nodes(l) \ {n}
      <3>1. \A m : m \in Nodes(u) <=> \E i \in 1 .. Len(l) - 1 : u[i] = m
        BY <2>2, NodesProperties
      <3>2. \A m : m \in Nodes(l) <=> \E i \in 1 .. Len(l) : l[i] = m
        BY NodesProperties
      <3>3. \A m : m \in Nodes(u) => m \in Nodes(l) \ {n}
        BY <3>1, <2>6
      <3>4. \A m : m \in Nodes(l) \ {n} => m \in Nodes(u)
        BY <3>1, <3>2, <2>7
      <3> QED BY <3>3, <3>4
    <2> QED BY <2>2, <2>5, <2>8 DEF u
  <1> QED BY <1>1, <1>2

\* Unlinking does not change the order of the nodes that stay: two nodes
\* after it were in that order before, and the other way round.
LEMMA UnlinkOrder ==
  ASSUME NEW S, NEW l \in Seq(S), IsInjective(l), NEW n
  PROVE  /\ \A i, j \in DOMAIN Unlink(l, n) : i < j =>
              \E k, h \in DOMAIN l : /\ k < h /\ l[k] # n /\ l[h] # n
                                    /\ l[k] = Unlink(l, n)[i] /\ l[h] = Unlink(l, n)[j]
         /\ \A k, h \in DOMAIN l : k < h /\ l[k] # n /\ l[h] # n =>
              \E i, j \in DOMAIN Unlink(l, n) :
                i < j /\ Unlink(l, n)[i] = l[k] /\ Unlink(l, n)[j] = l[h]
  <1>1. CASE n \notin Nodes(l)
    <2>1. Unlink(l, n) = l
      BY <1>1 DEF Unlink
    <2>2. \A i \in DOMAIN l : l[i] # n
      BY <1>1 DEF Nodes, Range
    <2> QED BY <2>1, <2>2
  <1>2. CASE n \in Nodes(l)
    <2> DEFINE p == Position(l, n)
               u == Unlink(l, n)
    <2>1. p \in 1 .. Len(l) /\ l[p] = n
      BY <1>2, PositionProperties
    <2>2. /\ u \in Seq(S)
          /\ Len(u) = Len(l) - 1
          /\ \A i \in 1 .. Len(l) - 1 : u[i] = IF i < p THEN l[i] ELSE l[i + 1]
      BY <1>2, <2>1, RemoveAtProperties DEF Unlink
    <2>3. \A i, j \in 1 .. Len(l) : l[i] = l[j] => i = j
      BY DEF IsInjective
    <2>4. DOMAIN u = 1 .. Len(l) - 1 /\ DOMAIN l = 1 .. Len(l)
      BY <2>2
    <2> DEFINE before(i) == IF i < p THEN i ELSE i + 1
               after(k)  == IF k < p THEN k ELSE k - 1
    <2> HIDE DEF p, u
    <2>5. ASSUME NEW i \in DOMAIN u
          PROVE  before(i) \in DOMAIN l /\ before(i) # p /\ u[i] = l[before(i)]
      BY <2>1, <2>2, <2>4
    <2>6. ASSUME NEW k \in DOMAIN l, l[k] # n
          PROVE  after(k) \in DOMAIN u /\ u[after(k)] = l[k]
      <3>1. k \in 1 .. Len(l) /\ k # p /\ Len(l) \in Nat /\ p \in 1 .. Len(l)
        BY <2>1, <2>2, <2>4, <2>6
      <3>2. CASE k < p
        <4>1. k \in 1 .. Len(l) - 1
          BY <3>1, <3>2
        <4> QED BY <2>2, <2>4, <3>2, <4>1
      <3>3. CASE p < k
        <4>1. k - 1 \in 1 .. Len(l) - 1 /\ ~(k - 1 < p) /\ ~(k < p) /\ (k - 1) + 1 = k
          BY <3>1, <3>3
        <4> QED BY <2>2, <2>4, <4>1
      <3> QED BY <3>1, <3>2, <3>3
    <2>7. ASSUME NEW i \in DOMAIN u, NEW j \in DOMAIN u, i < j
          PROVE  before(i) < before(j)
      BY <2>1, <2>4, <2>7
    <2>8. ASSUME NEW k \in DOMAIN l, NEW h \in DOMAIN l, k < h, l[k] # n, l[h] # n
          PROVE  after(k) < after(h)
      BY <2>1, <2>4, <2>8
    <2>9. \A i \in DOMAIN u : l[before(i)] # n
      BY <2>1, <2>3, <2>4, <2>5
    <2> HIDE DEF before, after
    <2>10. \A i, j \in DOMAIN u : i < j =>
             \E k, h \in DOMAIN l : k < h /\ l[k] # n /\ l[h] # n /\ l[k] = u[i] /\ l[h] = u[j]
      BY <2>5, <2>7, <2>9
    <2>11. \A k, h \in DOMAIN l : k < h /\ l[k] # n /\ l[h] # n =>
             \E i, j \in DOMAIN u : i < j /\ u[i] = l[k] /\ u[j] = l[h]
      BY <2>6, <2>8
    <2> QED BY <2>10, <2>11 DEF u
  <1> QED BY <1>1, <1>2

\* A list stays in the order of another when the same node is unlinked from
\* both,
LEMMA UnlinkBothInOrder ==
  ASSUME NEW S, NEW m \in Seq(S), IsInjective(m), NEW l \in Seq(S), IsInjective(l), NEW n,
         InOrderOf(m, l)
  PROVE  InOrderOf(Unlink(m, n), Unlink(l, n))
  <1> DEFINE u == Unlink(m, n)
             v == Unlink(l, n)
  <1>0. \A c, d \in DOMAIN l : c < d /\ l[c] # n /\ l[d] # n =>
          \E k, h \in DOMAIN v : k < h /\ v[k] = l[c] /\ v[h] = l[d]
    BY UnlinkOrder
  <1>1. ASSUME NEW i \in DOMAIN u, NEW j \in DOMAIN u, i < j
        PROVE  \E k, h \in DOMAIN v : k < h /\ v[k] = u[i] /\ v[h] = u[j]
    <2>1. PICK a, b \in DOMAIN m : a < b /\ m[a] # n /\ m[b] # n /\ m[a] = u[i] /\ m[b] = u[j]
      BY <1>1, UnlinkOrder
    <2>2. PICK c, d \in DOMAIN l : c < d /\ l[c] = m[a] /\ l[d] = m[b]
      BY <2>1 DEF InOrderOf
    <2>3. \E k, h \in DOMAIN v : k < h /\ v[k] = l[c] /\ v[h] = l[d]
      <3>1. l[c] # n /\ l[d] # n
        BY <2>1, <2>2
      <3> HIDE DEF v
      <3> QED BY <1>0, <2>2, <3>1
    <2> QED BY <2>1, <2>2, <2>3
  <1> QED BY <1>1 DEF InOrderOf

\* when a new node is linked to the other,
LEMMA LinkOtherInOrder ==
  ASSUME NEW S, NEW m \in Seq(S), NEW l \in Seq(S), NEW n \in S, InOrderOf(m, l)
  PROVE  InOrderOf(m, Link(l, n))
  <1>1. /\ DOMAIN l = 1 .. Len(l) /\ DOMAIN Link(l, n) = 1 .. Len(l) + 1
        /\ \A i \in 1 .. Len(l) : Link(l, n)[i] = l[i]
    BY LinkProperties
  <1>2. \A k \in DOMAIN l : k \in DOMAIN Link(l, n) /\ Link(l, n)[k] = l[k]
    BY <1>1
  <1> QED BY <1>2 DEF InOrderOf

\* and when it is linked to both.
LEMMA LinkBothInOrder ==
  ASSUME NEW S, NEW m \in Seq(S), NEW l \in Seq(S), NEW n \in S,
         InOrderOf(m, l), Nodes(m) \subseteq Nodes(l)
  PROVE  InOrderOf(Link(m, n), Link(l, n))
  <1> DEFINE x == Link(m, n)
             y == Link(l, n)
  <1>1. /\ DOMAIN m = 1 .. Len(m) /\ DOMAIN x = 1 .. Len(m) + 1
        /\ \A i \in 1 .. Len(m) : x[i] = m[i]
        /\ x[Len(m) + 1] = n
    BY LinkProperties
  <1>2. /\ DOMAIN l = 1 .. Len(l) /\ DOMAIN y = 1 .. Len(l) + 1
        /\ \A i \in 1 .. Len(l) : y[i] = l[i]
        /\ y[Len(l) + 1] = n
    BY LinkProperties
  <1> HIDE DEF x, y
  <1>3. ASSUME NEW i \in DOMAIN x, NEW j \in DOMAIN x, i < j
        PROVE  \E k, h \in DOMAIN y : k < h /\ y[k] = x[i] /\ y[h] = x[j]
    <2>1. i \in DOMAIN m /\ x[i] = m[i]
      BY <1>1, <1>3
    <2>2. CASE j \in DOMAIN m
      <3>1. PICK k, h \in DOMAIN l : k < h /\ l[k] = m[i] /\ l[h] = m[j]
        BY <1>3, <2>1, <2>2 DEF InOrderOf
      <3>2. x[j] = m[j]
        BY <1>1, <2>2
      <3> QED BY <1>2, <2>1, <3>1, <3>2
    <2>3. CASE j = Len(m) + 1
      <3>1. PICK k \in 1 .. Len(l) : l[k] = m[i]
        BY <1>1, <2>1, NodesProperties
      <3>2. k \in DOMAIN y /\ Len(l) + 1 \in DOMAIN y /\ k < Len(l) + 1
        BY <1>2
      <3> QED BY <1>1, <1>2, <2>1, <2>3, <3>1, <3>2
    <2> QED BY <1>1, <2>2, <2>3
  <1> QED BY <1>3 DEF InOrderOf, x, y

-----------------------------------------------------------------------------
(***************************************************************************)
(* The inductive invariant.                                                *)
(***************************************************************************)

\* The members of a manager that does not exist are empty; a manager keeps
\* the table it found, and nobody else changes Kokkos's.
SavedTable ==
  /\ singleton => context_callbacks = outside
  /\ ~singleton => /\ listeners = <<>>
                   /\ registered_callbacks = [t \in EventTypeList |-> <<>>]

\* Only the public dispatch handles event types Kokkos does not know, and no
\* listener is called before the context callback.
KokkosFrames ==
  \A th \in Thread :
    /\ frame[th].pc \in {"context", "registered"} => frame[th].type \in EventTypeList
    /\ frame[th].pc = "context" => frame[th].cursor = NoNode

\* A thread is in the Manager only while there is one, in the dispatch of a
\* type only while some listener handles it, and its cursor is on a node of
\* the list it walks.  For the nodes that leave a list this is what the
\* program ensures (MayUnregister); ListsAgree rests on it and it on
\* ListsAgree.
CursorsListed ==
  \A th \in Thread :
    /\ frame[th].pc # "idle" => singleton
    /\ frame[th].pc = "context" => registered_callbacks[frame[th].type] # <<>>
    /\ Walking(th) /\ frame[th].cursor # NoNode => frame[th].cursor \in Nodes(Walked(th))

IInv ==
  /\ TypeOK
  /\ SavedTable
  /\ KokkosFrames
  /\ Transparent
  /\ ListsAgree
  /\ CursorsListed

-----------------------------------------------------------------------------
\* The event tables, as far as the Manager depends on them.
LEMMA OpenersAndClosers ==
  /\ Opener \subseteq EventTypeList
  /\ "CreateProfileSectionEvent" \in EventTypeList
  /\ \A t \in Opener : paired_event[t] \in EventTypeList
  <1>1. BeginEvent \subseteq EventTypeList
    BY DEF BeginEvent
  <1>2. "CreateProfileSectionEvent" \in EventTypeList
    BY DEF EventTypeList
  <1>3. "CreateProfileSectionEvent" \in DOMAIN paired_event
    BY DEF paired_event
  <1>4. \A t \in Opener : t \in DOMAIN paired_event
    BY <1>3, EventTables DEF Opener
  <1>5. \A t \in DOMAIN paired_event : paired_event[t] \in EventTypeList
    BY EventTables
  <1> QED BY <1>1, <1>2, <1>4, <1>5 DEF Opener

\* A thread that is out of the Manager has a well-formed frame.
LEMMA IdleFrame == Idle \in Frame
  BY DEF Idle, Frame, Owner

\* Nobody has a body running in a manager whose lists are empty.
LEMMA EmptyListsAgree ==
  ASSUME listeners = <<>>, registered_callbacks = [t \in EventTypeList |-> <<>>]
  PROVE  ListsAgree
  <1>1. Nodes(<<>>) = {} /\ IsInjective(<<>>) /\ InOrderOf(<<>>, <<>>)
    BY DEF Nodes, Range, IsInjective, InOrderOf
  <1> QED BY <1>1 DEF ListsAgree

\* The invariant holds before the first initialize() (Manager.hpp:472-481).
THEOREM InitIInv == Init => IInv
  <1> SUFFICES ASSUME Init PROVE IInv
    OBVIOUS
  <1>1. TypeOK
    <2>1. Nodes(listeners) = {}
      BY DEF Init, Nodes, Range
    <2>2. callable \in [Nodes(listeners) -> Model]
      BY <2>1 DEF Init
    <2>3. outside \in [EventTypeList -> {"null", "tool"}]
      BY DEF Init
    <2>4. /\ callbacks \in [EventTypeList -> Callback]
          /\ context_callbacks \in [EventTypeList -> Callback]
      BY DEF Init, Callback
    <2>5. listeners \in Seq(Node) /\ registered_callbacks \in [EventTypeList -> Seq(Node)]
      BY DEF Init
    <2>6. frame \in [Thread -> Frame] /\ open \in [Thread -> Seq(Open)]
      BY IdleFrame DEF Init
    <2>7. /\ singleton \in BOOLEAN
          /\ next_event_id \in Nat /\ next_section_id \in Nat /\ tool_next_id \in Nat
      BY DEF Init
    <2> QED BY <2>2, <2>3, <2>4, <2>5, <2>6, <2>7 DEF TypeOK
  <1>2. SavedTable /\ KokkosFrames /\ Transparent /\ CursorsListed
    BY DEF Init, SavedTable, KokkosFrames, Transparent, CursorsListed, Walking, Idle
  <1>3. ListsAgree
    BY EmptyListsAgree DEF Init
  <1> QED BY <1>1, <1>2, <1>3 DEF IInv

-----------------------------------------------------------------------------
(***************************************************************************)
(* Registering and unregistering: the lists change, no frame does.         *)
(***************************************************************************)

\* set_dispatching_callbacks leaves the table in agreement with the lists.
LEMMA DispatchingCallbacksTransparent ==
  ASSUME TypeOK, SavedTable, singleton, UNCHANGED outside,
         registered_callbacks' \in [EventTypeList -> Seq(Node)],
         callbacks' = DispatchingCallbacks(registered_callbacks')
  PROVE  Transparent' /\ callbacks' \in [EventTypeList -> Callback]
  <1>1. \A t \in EventTypeList :
          callbacks'[t] = IF registered_callbacks'[t] = <<>> THEN context_callbacks[t] ELSE "dispatching"
    BY DEF DispatchingCallbacks
  <1>2. context_callbacks = outside /\ outside' = outside
    BY DEF SavedTable
  <1>3. Transparent'
    BY <1>1, <1>2 DEF Transparent
  <1>4. callbacks' \in [EventTypeList -> Callback]
    BY <1>1 DEF DispatchingCallbacks, TypeOK, Callback
  <1> QED BY <1>3, <1>4

\* register_listener keeps the invariant: the new node is at the end of the list
\* of all listeners and of the list of each type it handles.
LEMMA RegisterStep ==
  ASSUME IInv, NEW th \in Thread, NEW c \in Callable, NEW shared \in BOOLEAN,
         register_listener(th, c, shared)
  PROVE  IInv'
  <1> USE DEF IInv
  <1>1. PICK n \in Node \ Nodes(listeners) :
          /\ listeners' = Link(listeners, n)
          /\ callable' = [m \in Nodes(listeners) \cup {n} |->
                            IF m = n THEN [of |-> c, shared |-> shared] ELSE callable[m]]
          /\ registered_callbacks' =
               [t \in EventTypeList |-> IF t \in HandledBy[c] THEN Link(registered_callbacks[t], n)
                                                              ELSE registered_callbacks[t]]
    BY DEF register_listener, SetLists
  <1>2. /\ singleton
        /\ callbacks' = DispatchingCallbacks(registered_callbacks')
        /\ UNCHANGED <<singleton, context_callbacks, next_event_id, next_section_id,
                       tool_next_id, frame, open, outside>>
    BY DEF register_listener, SetLists, MayChangeListeners, counterVars, kokkosVars
  <1>3. /\ listeners \in Seq(Node)
        /\ \A t \in EventTypeList : registered_callbacks[t] \in Seq(Node)
    BY DEF TypeOK
  <1>4. /\ listeners' \in Seq(Node)
        /\ Nodes(listeners') = Nodes(listeners) \cup {n}
        /\ IsInjective(listeners')
    <2>1. n \in Node /\ n \in Node \ Nodes(listeners) /\ IsInjective(listeners)
      BY DEF ListsAgree
    <2>2. Link(listeners, n) \in Seq(Node) /\ Nodes(Link(listeners, n)) = Nodes(listeners) \cup {n}
      BY <1>3, <2>1, LinkProperties
    <2>3. IsInjective(Link(listeners, n))
      BY <1>3, <2>1, LinkInjective
    <2> QED BY <1>1, <2>2, <2>3
  <1>5. ASSUME NEW t \in EventTypeList
        PROVE  /\ registered_callbacks'[t] \in Seq(Node)
               /\ t \in HandledBy[c] => /\ registered_callbacks'[t] = Link(registered_callbacks[t], n)
                                       /\ registered_callbacks'[t] # <<>>
                                       /\ Nodes(registered_callbacks'[t]) =
                                            Nodes(registered_callbacks[t]) \cup {n}
               /\ t \notin HandledBy[c] => registered_callbacks'[t] = registered_callbacks[t]
    <2>1. registered_callbacks'[t] = IF t \in HandledBy[c] THEN Link(registered_callbacks[t], n)
                                                          ELSE registered_callbacks[t]
      BY <1>1
    <2>2. /\ Link(registered_callbacks[t], n) \in Seq(Node)
          /\ Link(registered_callbacks[t], n) # <<>>
          /\ Nodes(Link(registered_callbacks[t], n)) = Nodes(registered_callbacks[t]) \cup {n}
      <3> DEFINE l == registered_callbacks[t]
      <3>1. l \in Seq(Node) /\ n \in Node
        BY <1>3
      <3> HIDE DEF l
      <3>2. /\ Link(l, n) \in Seq(Node)
            /\ Link(l, n) # <<>>
            /\ Nodes(Link(l, n)) = Nodes(l) \cup {n}
        BY <3>1, LinkProperties
      <3> QED BY <3>2 DEF l
    <2> QED BY <1>3, <2>1, <2>2
  <1>6. TypeOK'
    <2>1. callable' \in [Nodes(listeners') -> Model]
      BY <1>1, <1>4 DEF TypeOK, Model
    <2>2. registered_callbacks' \in [EventTypeList -> Seq(Node)]
      BY <1>1, <1>5
    <2>3. callbacks' \in [EventTypeList -> Callback]
      BY <1>2, <2>2, DispatchingCallbacksTransparent
    <2> QED BY <1>2, <1>4, <2>1, <2>2, <2>3 DEF TypeOK
  <1>7. SavedTable' /\ KokkosFrames'
    BY <1>2 DEF SavedTable, KokkosFrames
  <1>8. Transparent'
    BY <1>2, <1>6, DispatchingCallbacksTransparent DEF TypeOK
  <1>9. ListsAgree'
    <2> SUFFICES ASSUME NEW t \in EventTypeList
                 PROVE  /\ Nodes(registered_callbacks'[t]) = {m \in Nodes(listeners') : Handles(m, t)'}
                        /\ IsInjective(registered_callbacks'[t])
                        /\ InOrderOf(registered_callbacks'[t], listeners')
      BY <1>4 DEF ListsAgree
    <2>1. /\ Nodes(registered_callbacks[t]) = {m \in Nodes(listeners) : Handles(m, t)}
          /\ IsInjective(registered_callbacks[t])
          /\ InOrderOf(registered_callbacks[t], listeners)
      BY DEF ListsAgree
    <2>2. Handles(n, t)' <=> t \in HandledBy[c]
      BY <1>1 DEF Handles
    <2>3. \A m \in Nodes(listeners) : Handles(m, t)' <=> Handles(m, t)
      BY <1>1 DEF Handles
    <2>4. CASE t \in HandledBy[c]
      <3>1. Nodes(registered_callbacks'[t]) = {m \in Nodes(listeners') : Handles(m, t)'}
        BY <1>4, <1>5, <2>1, <2>2, <2>3, <2>4
      <3>2. IsInjective(registered_callbacks'[t])
        BY <1>3, <1>5, <2>1, <2>4, LinkInjective
      <3>3. InOrderOf(registered_callbacks'[t], listeners')
        BY <1>1, <1>3, <1>5, <2>1, <2>4, LinkBothInOrder
      <3> QED BY <3>1, <3>2, <3>3
    <2>5. CASE t \notin HandledBy[c]
      <3>1. Nodes(registered_callbacks'[t]) = {m \in Nodes(listeners') : Handles(m, t)'}
        BY <1>4, <1>5, <2>1, <2>2, <2>3, <2>5
      <3>2. InOrderOf(registered_callbacks'[t], listeners')
        BY <1>1, <1>3, <1>5, <2>1, <2>5, LinkOtherInOrder
      <3> QED BY <1>5, <2>1, <2>5, <3>1, <3>2
    <2> QED BY <2>4, <2>5
  <1>10. CursorsListed'
    <2> SUFFICES ASSUME NEW u \in Thread
                 PROVE  /\ frame'[u].pc # "idle" => singleton'
                        /\ frame'[u].pc = "context" => registered_callbacks'[frame'[u].type] # <<>>
                        /\ Walking(u)' /\ frame'[u].cursor # NoNode => frame'[u].cursor \in Nodes(Walked(u)')
      BY DEF CursorsListed
    <2>1. frame'[u] = frame[u]
      BY <1>2
    <2>2. frame[u].pc = "context" => registered_callbacks'[frame[u].type] # <<>>
      BY <1>5 DEF CursorsListed, KokkosFrames
    <2>3. ASSUME Walking(u), frame[u].cursor # NoNode
          PROVE  frame[u].cursor \in Nodes(Walked(u)')
      <3>1. frame[u].cursor \in Nodes(Walked(u))
        BY <2>3 DEF CursorsListed
      <3>2. CASE frame[u].pc = "registered"
        BY <1>5, <2>1, <3>1, <3>2 DEF Walked, KokkosFrames
      <3>3. CASE frame[u].pc = "listeners"
        BY <1>4, <2>1, <3>1, <3>3 DEF Walked
      <3> QED BY <2>3, <3>2, <3>3 DEF Walking
    <2> QED BY <1>2, <2>1, <2>2, <2>3 DEF Walking
  <1> QED BY <1>6, <1>7, <1>8, <1>9, <1>10

\* Both overloads of unregister_listener keep it: the node leaves every list
\* together with its model, and no walk is on it.
LEMMA UnregisterStep ==
  ASSUME IInv, NEW th \in Thread, NEW n, n \in Nodes(listeners),
         MayUnregister(th, n), Unregister(n)
  PROVE  IInv'
  <1> USE DEF IInv, MayUnregister
  <1>1. /\ registered_callbacks' = [t \in EventTypeList |-> Unlink(registered_callbacks[t], n)]
        /\ listeners' = Unlink(listeners, n)
        /\ callable' = [m \in Nodes(listeners) \ {n} |-> callable[m]]
        /\ callbacks' = DispatchingCallbacks(registered_callbacks')
        /\ UNCHANGED <<singleton, context_callbacks, next_event_id, next_section_id,
                       tool_next_id, frame, open, outside>>
    BY DEF Unregister, SetLists, ModelsWithout, RegisteredWithout, counterVars, kokkosVars
  <1>2. singleton
    BY DEF MayChangeListeners
  <1>3. /\ listeners \in Seq(Node) /\ IsInjective(listeners)
        /\ \A t \in EventTypeList : /\ registered_callbacks[t] \in Seq(Node)
                                   /\ IsInjective(registered_callbacks[t])
    BY DEF TypeOK, ListsAgree
  <1>4. /\ listeners' \in Seq(Node)
        /\ Nodes(listeners') = Nodes(listeners) \ {n}
        /\ IsInjective(listeners')
    BY <1>1, <1>3, UnlinkProperties
  <1>5. ASSUME NEW t \in EventTypeList
        PROVE  /\ registered_callbacks'[t] = Unlink(registered_callbacks[t], n)
               /\ registered_callbacks'[t] \in Seq(Node)
               /\ Nodes(registered_callbacks'[t]) = Nodes(registered_callbacks[t]) \ {n}
               /\ IsInjective(registered_callbacks'[t])
    <2>1. registered_callbacks'[t] = Unlink(registered_callbacks[t], n)
      BY <1>1
    <2> QED BY <1>3, <2>1, UnlinkProperties
  <1>6. TypeOK'
    <2>1. callable' \in [Nodes(listeners') -> Model]
      BY <1>1, <1>4 DEF TypeOK
    <2>2. registered_callbacks' \in [EventTypeList -> Seq(Node)]
      BY <1>1, <1>5
    <2>3. callbacks' \in [EventTypeList -> Callback]
      BY <1>1, <1>2, <2>2, DispatchingCallbacksTransparent
    <2> QED BY <1>1, <1>4, <2>1, <2>2, <2>3 DEF TypeOK
  <1>7. SavedTable' /\ KokkosFrames'
    BY <1>1, <1>2 DEF SavedTable, KokkosFrames
  <1>8. Transparent'
    BY <1>1, <1>2, <1>6, DispatchingCallbacksTransparent DEF TypeOK
  <1>9. ListsAgree'
    <2> SUFFICES ASSUME NEW t \in EventTypeList
                 PROVE  /\ Nodes(registered_callbacks'[t]) = {m \in Nodes(listeners') : Handles(m, t)'}
                        /\ InOrderOf(registered_callbacks'[t], listeners')
      BY <1>4, <1>5 DEF ListsAgree
    <2>1. /\ Nodes(registered_callbacks[t]) = {m \in Nodes(listeners) : Handles(m, t)}
          /\ InOrderOf(registered_callbacks[t], listeners)
      BY DEF ListsAgree
    <2>2. \A m \in Nodes(listeners) \ {n} : Handles(m, t)' <=> Handles(m, t)
      BY <1>1 DEF Handles
    <2>3. Nodes(registered_callbacks'[t]) = {m \in Nodes(listeners') : Handles(m, t)'}
      BY <1>4, <1>5, <2>1, <2>2
    <2>4. InOrderOf(Unlink(registered_callbacks[t], n), Unlink(listeners, n))
      BY <1>3, <2>1, UnlinkBothInOrder
    <2> QED BY <1>1, <1>5, <2>3, <2>4
  <1>10. CursorsListed'
    <2> SUFFICES ASSUME NEW u \in Thread
                 PROVE  /\ frame'[u].pc # "idle" => singleton'
                        /\ frame'[u].pc = "context" => registered_callbacks'[frame'[u].type] # <<>>
                        /\ Walking(u)' /\ frame'[u].cursor # NoNode => frame'[u].cursor \in Nodes(Walked(u)')
      BY DEF CursorsListed
    <2>1. frame'[u] = frame[u]
      BY <1>1
    <2>2. frame[u].pc # "context"
      BY DEF MayChangeListeners, Walking
    <2>3. ASSUME Walking(u), frame[u].cursor # NoNode
          PROVE  frame[u].cursor \in Nodes(Walked(u)')
      <3>1. frame[u].cursor \in Nodes(Walked(u))
        BY <2>3 DEF CursorsListed
      <3>2. frame[u].cursor # n
        <4>1. u = th
          BY <2>3 DEF MayChangeListeners, Walking
        <4> QED BY <4>1
      <3>3. CASE frame[u].pc = "registered"
        BY <1>5, <2>1, <3>1, <3>2, <3>3 DEF Walked, KokkosFrames
      <3>4. CASE frame[u].pc = "listeners"
        BY <1>4, <2>1, <3>1, <3>2, <3>4 DEF Walked
      <3> QED BY <2>3, <3>3, <3>4 DEF Walking
    <2> QED BY <1>1, <1>2, <2>1, <2>2, <2>3 DEF Walking
  <1> QED BY <1>6, <1>7, <1>8, <1>9, <1>10

-----------------------------------------------------------------------------
(***************************************************************************)
(* Events: one frame changes, the lists and the table do not.              *)
(***************************************************************************)

\* What the frame of a thread owes to the invariant.
FrameOK(th) ==
  /\ frame[th] \in Frame
  /\ frame[th].pc \in {"context", "registered"} => frame[th].type \in EventTypeList
  /\ frame[th].pc = "context" => frame[th].cursor = NoNode
  /\ frame[th].pc # "idle" => singleton
  /\ frame[th].pc = "context" => registered_callbacks[frame[th].type] # <<>>
  /\ Walking(th) /\ frame[th].cursor # NoNode => frame[th].cursor \in Nodes(Walked(th))

\* A step that changes one frame only, and keeps it well-formed and on the
\* live models, keeps the invariant.
LEMMA FrameStep ==
  ASSUME IInv, UNCHANGED managerVars, NEW th \in Thread, NEW f,
         frame' = [frame EXCEPT ![th] = f], FrameOK(th)',
         next_event_id' \in Nat, next_section_id' \in Nat, tool_next_id' \in Nat,
         open' \in [Thread -> Seq(Open)]
  PROVE  IInv'
  <1> USE DEF IInv, managerVars, listVars
  <1>1. /\ DOMAIN frame = Thread
        /\ \A u \in Thread \ {th} : frame'[u] = frame[u]
        /\ frame'[th] = f
    BY DEF TypeOK
  <1>2. \A u \in Thread \ {th} : FrameOK(u)
    BY DEF FrameOK, TypeOK, KokkosFrames, CursorsListed
  <1>3. \A u \in Thread \ {th} : FrameOK(u)'
    BY <1>1, <1>2 DEF FrameOK, Walking, Walked
  <1>4. \A u \in Thread : FrameOK(u)'
    BY <1>3
  <1>5. frame' \in [Thread -> Frame]
    BY <1>4 DEF FrameOK, TypeOK
  <1>6. TypeOK'
    BY <1>5 DEF TypeOK
  <1>7. KokkosFrames' /\ CursorsListed'
    BY <1>4 DEF FrameOK, KokkosFrames, CursorsListed
  <1>8. SavedTable' /\ Transparent'
    BY DEF SavedTable, Transparent
  <1>9. ListsAgree'
    BY DEF ListsAgree, Handles
  <1> QED BY <1>6, <1>7, <1>8, <1>9

\* Entering the lambda of an event type: the table says there is a manager,
\* and that it has a listener for the type.
LEMMA EmitStep ==
  ASSUME IInv, NEW th \in Thread, NEW t \in EventTypeList, NEW id \in Nat, Emit(th, t, id),
         open' \in [Thread -> Seq(Open)], tool_next_id' \in Nat
  PROVE  IInv'
  <1> DEFINE f == [Idle EXCEPT !.pc = "context", !.type = t, !.id = id]
  <1> USE DEF IInv
  <1>1. UNCHANGED managerVars /\ next_event_id' \in Nat /\ next_section_id' \in Nat
    BY DEF Emit, managerVars, listVars, counterVars, kokkosVars, TypeOK
  <1>2. CASE callbacks[t] = "dispatching"
    <2>1. frame' = [frame EXCEPT ![th] = f]
      BY <1>2 DEF Emit
    <2>2. registered_callbacks[t] # <<>>
      BY <1>2 DEF Transparent, TypeOK
    <2>3. singleton
      BY <2>2 DEF SavedTable, TypeOK
    <2>4. frame'[th] = f
      BY <2>1 DEF TypeOK
    <2>5. f \in Frame /\ f.pc = "context" /\ f.type = t /\ f.cursor = NoNode
      BY DEF Frame, Idle, Owner, EventType
    <2> HIDE DEF f
    <2>6. FrameOK(th)'
      BY <1>1, <2>2, <2>3, <2>4, <2>5 DEF FrameOK, Walking, managerVars, listVars, counterVars, kokkosVars
    <2> QED BY <1>1, <2>1, <2>6, FrameStep
  <1>3. CASE callbacks[t] # "dispatching"
    <2>1. frame' = [frame EXCEPT ![th] = frame[th]]
      BY <1>3 DEF Emit, TypeOK
    <2>2. FrameOK(th)
      BY DEF FrameOK, TypeOK, KokkosFrames, CursorsListed
    <2>3. FrameOK(th)'
      BY <1>1, <2>1, <2>2 DEF FrameOK, Walking, Walked, managerVars, listVars, counterVars, kokkosVars, TypeOK
    <2> QED BY <1>1, <2>1, <2>3, FrameStep
  <1> QED BY <1>2, <1>3

\* Kokkos begins a kernel or creates a section.
LEMMA EmitOpeningStep ==
  ASSUME IInv, NEW th \in Thread, NEW t, EmitOpening(th, t)
  PROVE  IInv'
  <1> USE DEF IInv
  <1>1. t \in Opener /\ t \in EventTypeList /\ Emit(th, t, 0)
    BY OpenersAndClosers DEF EmitOpening
  <1>2. tool_next_id' \in Nat
    BY DEF EmitOpening, TypeOK
  <1>3. callbacks[t] \in {"null", "tool", "dispatching"}
    BY <1>1 DEF TypeOK, Callback
  <1>4. /\ [type |-> t, id |-> tool_next_id, owner |-> "tool"] \in Open
        /\ [type |-> t, id |-> 0, owner |-> "nobody"] \in Open
    BY <1>1 DEF Open, Owner, TypeOK
  <1>5. open' \in [Thread -> Seq(Open)]
    BY <1>3, <1>4 DEF EmitOpening, TypeOK
  <1> QED BY <1>1, <1>2, <1>5, EmitStep

\* Kokkos ends a kernel or destroys a section.
LEMMA EmitClosingStep ==
  ASSUME IInv, NEW th \in Thread, NEW i \in DOMAIN open[th], EmitClosing(th, i)
  PROVE  IInv'
  <1> USE DEF IInv
  <1>1. open[th] \in Seq(Open)
    BY DEF TypeOK
  <1>2. open[th][i] \in Open /\ RemoveAt(open[th], i) \in Seq(Open)
    BY <1>1, RemoveAtProperties
  <1>3. open[th][i].type \in Opener /\ open[th][i].id \in Nat
    BY <1>2 DEF Open
  <1>4. paired_event[open[th][i].type] \in EventTypeList
    BY <1>3, OpenersAndClosers
  <1>5. open' \in [Thread -> Seq(Open)] /\ tool_next_id' \in Nat
    BY <1>2 DEF EmitClosing, TypeOK
  <1> QED BY <1>3, <1>4, <1>5, EmitStep DEF EmitClosing

\* Kokkos starts or stops a section.
LEMMA EmitSectionStep ==
  ASSUME IInv, NEW th \in Thread, NEW t, NEW i, EmitSection(th, t, i)
  PROVE  IInv'
  <1> USE DEF IInv
  <1>1. t \in EventTypeList
    BY ManagerAssumption DEF EmitSection
  <1>2. open' \in [Thread -> Seq(Open)] /\ tool_next_id' \in Nat
    BY DEF EmitSection, TypeOK
  <1>3. open[th][i] \in Open /\ Emit(th, t, open[th][i].id)
    BY DEF EmitSection, Sections, TypeOK
  <1> QED BY <1>1, <1>2, <1>3, EmitStep DEF Open

\* Kokkos has an event without an id.
LEMMA EmitOtherStep ==
  ASSUME IInv, NEW th \in Thread, NEW t, EmitOther(th, t)
  PROVE  IInv'
  <1> USE DEF IInv
  <1>1. t \in EventTypeList
    BY ManagerAssumption DEF EmitOther
  <1>2. open' \in [Thread -> Seq(Open)] /\ tool_next_id' \in Nat
    BY DEF EmitOther, TypeOK
  <1> QED BY <1>1, <1>2, EmitStep DEF EmitOther

\* The steps of a dispatch: they keep the event type of the frame.
LEMMA DispatchStep ==
  ASSUME IInv, NEW th \in Thread, NEW t, dispatch(th, t)
  PROVE  IInv'
  <1> DEFINE f == [Idle EXCEPT !.pc = "listeners", !.type = t, !.id = next_event_id,
                               !.owner = "manager"]
  <1> USE DEF IInv
  <1>1. UNCHANGED managerVars /\ UNCHANGED <<next_section_id, tool_next_id, open>>
    BY DEF dispatch, managerVars, listVars, counterVars, kokkosVars
  <1>2. frame' = [frame EXCEPT ![th] = f] /\ next_event_id' \in Nat
    BY DEF dispatch, TypeOK
  <1>3. f \in Frame /\ f.pc = "listeners" /\ f.cursor = NoNode
    BY ManagerAssumption DEF dispatch, Frame, Idle, Owner, TypeOK
  <1>4. frame'[th] = f /\ singleton
    BY <1>2 DEF TypeOK, dispatch
  <1> HIDE DEF f
  <1>5. FrameOK(th)'
    BY <1>1, <1>3, <1>4 DEF FrameOK, Walking, managerVars, listVars, counterVars, kokkosVars
  <1> QED BY <1>1, <1>2, <1>5, FrameStep DEF TypeOK

\* dispatch_context_callback: with or without a callback of the tool the walk
\* starts on the list of the event type.
LEMMA ContextStep ==
  ASSUME IInv, NEW th \in Thread, dispatch_context_callback(th)
  PROVE  IInv'
  <1> USE DEF IInv
  <1>1. UNCHANGED managerVars /\ UNCHANGED open /\ frame[th].pc = "context"
    BY DEF dispatch_context_callback, managerVars, listVars, counterVars, kokkosVars
  <1>2. frame[th] \in Frame /\ frame[th].cursor \in Node \cup {NoNode}
    BY DEF TypeOK, Frame
  <1>3. /\ next_event_id' \in Nat /\ next_section_id' \in Nat /\ tool_next_id' \in Nat
        /\ \E id \in Nat, owner \in Owner :
             frame' = [frame EXCEPT ![th] = [frame[th] EXCEPT !.pc = "registered", !.id = id,
                                                              !.owner = owner]]
    <2>1. frame[th].id \in Nat /\ frame[th].owner \in Owner /\ {"manager", "tool"} \subseteq Owner
      BY <1>2 DEF Frame, Owner
    <2>2. [frame EXCEPT ![th].pc = "registered"] =
            [frame EXCEPT ![th] = [frame[th] EXCEPT !.pc = "registered", !.id = frame[th].id,
                                                    !.owner = frame[th].owner]]
      BY <1>2 DEF Frame, TypeOK
    <2> DEFINE G(id, owner) ==
          [frame EXCEPT ![th] = [frame[th] EXCEPT !.pc = "registered", !.id = id, !.owner = owner]]
    <2>3. /\ next_event_id' \in Nat /\ next_section_id' \in Nat /\ tool_next_id' \in Nat
          /\ \/ frame' = G(next_event_id, "manager")
             \/ frame' = G(next_section_id, "manager")
             \/ frame' = G(tool_next_id, "tool")
             \/ frame' = G(frame[th].id, frame[th].owner)
      <3> HIDE DEF IInv
      <3>1. next_event_id \in Nat /\ next_section_id \in Nat /\ tool_next_id \in Nat
        BY DEF IInv, TypeOK
      <3>2. CASE context_callbacks[frame[th].type] = "null"
        <4>1. IncrementIdIfNeeded(th) /\ UNCHANGED tool_next_id
          BY <3>2 DEF dispatch_context_callback
        <4>2. /\ next_event_id' \in {next_event_id, next_event_id + 1}
              /\ next_section_id' \in {next_section_id, next_section_id + 1}
              /\ \/ frame' = G(next_event_id, "manager")
                 \/ frame' = G(next_section_id, "manager")
                 \/ frame' = [frame EXCEPT ![th].pc = "registered"]
          BY <4>1 DEF IncrementIdIfNeeded
        <4> QED BY <2>2, <3>1, <4>1, <4>2
      <3>3. CASE context_callbacks[frame[th].type] # "null"
        <4>1. CallTool(th)
          BY <3>3 DEF dispatch_context_callback
        <4>2. CASE frame[th].type \in Opener
          BY <3>1, <4>1, <4>2 DEF CallTool
        <4>3. CASE frame[th].type \notin Opener
          BY <2>2, <3>1, <4>1, <4>3 DEF CallTool
        <4> QED BY <4>2, <4>3
      <3> QED BY <3>2, <3>3
    <2>4. next_event_id \in Nat /\ next_section_id \in Nat /\ tool_next_id \in Nat
      BY DEF TypeOK
    <2> QED BY <2>1, <2>3, <2>4
  <1>4. PICK id \in Nat, owner \in Owner :
          frame' = [frame EXCEPT ![th] = [frame[th] EXCEPT !.pc = "registered", !.id = id,
                                                           !.owner = owner]]
    BY <1>3
  <1> DEFINE f == [frame[th] EXCEPT !.pc = "registered", !.id = id, !.owner = owner]
  <1>5. /\ f \in Frame /\ f.pc = "registered"
        /\ f.type = frame[th].type /\ f.cursor = frame[th].cursor
    BY <1>2 DEF Frame
  <1>6. frame' = [frame EXCEPT ![th] = f] /\ frame'[th] = f
    BY <1>4 DEF TypeOK
  <1> HIDE DEF f
  <1>7. singleton /\ frame[th].type \in EventTypeList /\ frame[th].cursor = NoNode
    BY <1>1 DEF CursorsListed, KokkosFrames
  <1>8. FrameOK(th)'
    BY <1>1, <1>5, <1>6, <1>7 DEF FrameOK, Walking, managerVars, listVars, counterVars, kokkosVars
  <1> QED BY <1>1, <1>3, <1>6, <1>8, FrameStep DEF TypeOK

\* The walk moves on to a node of the list it walks.
LEMMA InvokeStep ==
  ASSUME IInv, NEW th \in Thread, InvokeListener(th)
  PROVE  IInv'
  <1> USE DEF IInv
  <1>1. /\ UNCHANGED managerVars /\ Walking(th)
        /\ UNCHANGED <<next_event_id, next_section_id, tool_next_id, open>>
    BY DEF InvokeListener, managerVars, listVars, counterVars, kokkosVars
  <1>2. PICK i \in Upcoming(th) : frame' = [frame EXCEPT ![th].cursor = Walked(th)[i]]
    BY DEF InvokeListener
  <1>3. singleton /\ (frame[th].pc = "registered" => frame[th].type \in EventTypeList)
    BY <1>1 DEF CursorsListed, KokkosFrames, Walking
  <1>4. Walked(th) \in Seq(Node)
    BY <1>3 DEF Walked, TypeOK
  <1>5. Walked(th)[i] \in Nodes(Walked(th)) /\ Nodes(Walked(th)) \subseteq Node
    <2>1. i \in DOMAIN Walked(th)
      BY <1>2 DEF Upcoming, Ahead
    <2> QED BY <1>4, <2>1, NodesProperties
  <1> DEFINE f == [frame[th] EXCEPT !.cursor = Walked(th)[i]]
  <1>6. /\ f \in Frame /\ f.pc = frame[th].pc
        /\ f.type = frame[th].type /\ f.cursor = Walked(th)[i]
    BY <1>5 DEF TypeOK, Frame
  <1>7. frame' = [frame EXCEPT ![th] = f] /\ frame'[th] = f
    BY <1>2 DEF TypeOK
  <1> HIDE DEF f
  <1>8. Walked(th)' = Walked(th)
    BY <1>1, <1>6, <1>7 DEF Walked, managerVars, listVars, counterVars, kokkosVars
  <1>9. FrameOK(th)'
    BY <1>1, <1>3, <1>5, <1>6, <1>7, <1>8 DEF FrameOK, Walking, managerVars, listVars, counterVars, kokkosVars
  <1> QED BY <1>1, <1>7, <1>9, FrameStep DEF TypeOK

\* The end of a dispatch.
LEMMA FinishStep ==
  ASSUME IInv, NEW th \in Thread, FinishDispatch(th)
  PROVE  IInv'
  <1> USE DEF IInv
  <1>1. /\ UNCHANGED managerVars /\ UNCHANGED <<next_event_id, next_section_id, tool_next_id>>
        /\ frame' = [frame EXCEPT ![th] = Idle]
    BY DEF FinishDispatch, managerVars, listVars, counterVars, kokkosVars
  <1>2. frame'[th] = Idle /\ Idle.pc = "idle" /\ Idle.cursor = NoNode
    BY <1>1 DEF TypeOK, Idle
  <1>3. FrameOK(th)'
    BY <1>2, IdleFrame DEF FrameOK, Walking
  <1>4. open' \in [Thread -> Seq(Open)]
    <2>1. frame[th].id \in Nat /\ frame[th].owner \in Owner
      BY DEF TypeOK, Frame
    <2>2. CASE frame[th].pc = "registered" /\ frame[th].type \in Opener
      <3>1. [type |-> frame[th].type, id |-> frame[th].id, owner |-> frame[th].owner] \in Open
        BY <2>1, <2>2 DEF Open
      <3> QED BY <2>2, <3>1 DEF FinishDispatch, WrittenBack, TypeOK
    <2>3. CASE ~(frame[th].pc = "registered" /\ frame[th].type \in Opener)
      BY <2>3 DEF FinishDispatch, TypeOK
    <2> QED BY <2>2, <2>3
  <1> QED BY <1>1, <1>3, <1>4, FrameStep DEF TypeOK

-----------------------------------------------------------------------------
(***************************************************************************)
(* The life of the Manager, and the tool under it.                         *)
(***************************************************************************)

\* A tool comes or goes while there is no manager.
LEMMA AttachToolStep ==
  ASSUME IInv, NEW t \in Attachable, NEW c \in {"null", "tool"}, AttachTool(t, c)
  PROVE  IInv'
  <1> USE DEF IInv
  <1>1. ~singleton /\ UNCHANGED <<singleton, context_callbacks, listeners, callable,
          registered_callbacks, next_event_id, next_section_id, tool_next_id, frame, open>>
    BY DEF AttachTool, listVars, counterVars, kokkosVars
  <1>2. /\ outside' = [outside EXCEPT ![t] = c]
        /\ callbacks' = [callbacks EXCEPT ![t] = c]
    BY DEF AttachTool
  <1>3. TypeOK'
    BY <1>1, <1>2 DEF TypeOK, Callback
  <1>4. SavedTable' /\ KokkosFrames'
    BY <1>1 DEF SavedTable, KokkosFrames
  <1>5. Transparent'
    BY <1>1, <1>2 DEF Transparent, SavedTable, TypeOK
  <1>6. ListsAgree' /\ CursorsListed'
    BY <1>1 DEF ListsAgree, CursorsListed, Handles, Walking, Walked
  <1> QED BY <1>3, <1>4, <1>5, <1>6

\* initialize() saves the table the tool has left.
LEMMA InitializeStep ==
  ASSUME IInv, initialize
  PROVE  IInv'
  <1> USE DEF IInv
  <1>1. /\ ~singleton /\ singleton' /\ singleton' \in BOOLEAN /\ context_callbacks' = callbacks
        /\ UNCHANGED <<callbacks, listeners, callable, registered_callbacks, next_event_id,
                       next_section_id, tool_next_id, frame, open, outside>>
    BY DEF initialize, listVars, counterVars, kokkosVars
  <1>2. TypeOK'
    BY <1>1 DEF TypeOK
  <1>3. callbacks = outside
    BY <1>1 DEF Transparent, SavedTable, TypeOK
  <1>4. SavedTable' /\ KokkosFrames' /\ Transparent'
    BY <1>1, <1>3 DEF SavedTable, KokkosFrames, Transparent
  <1>5. ListsAgree' /\ CursorsListed'
    BY <1>1 DEF ListsAgree, CursorsListed, Handles, Walking, Walked
  <1> QED BY <1>2, <1>4, <1>5

\* finalize() gives the saved table back and empties the lists.
LEMMA FinalizeStep ==
  ASSUME IInv, finalize
  PROVE  IInv'
  <1> USE DEF IInv
  <1>1. /\ singleton /\ \A th \in Thread : frame[th].pc = "idle"
        /\ singleton' = FALSE
        /\ callbacks' = context_callbacks
        /\ context_callbacks' = [t \in EventTypeList |-> "null"]
        /\ listeners' = <<>>
        /\ callable' = <<>>
        /\ registered_callbacks' = [t \in EventTypeList |-> <<>>]
        /\ next_event_id' = 0 /\ next_section_id' = 0
        /\ UNCHANGED <<tool_next_id, frame, outside>>
    BY DEF finalize
  <1>2. open' \in [Thread -> Seq(Open)]
    <2> SUFFICES ASSUME NEW th \in Thread
                 PROVE  [i \in DOMAIN open[th] |->
                          IF open[th][i].owner = "manager" THEN [open[th][i] EXCEPT !.owner = "former"]
                                                           ELSE open[th][i]] \in Seq(Open)
      BY DEF finalize
    <2>1. open[th] \in Seq(Open)
      BY DEF TypeOK
    <2>2. DOMAIN open[th] = 1 .. Len(open[th]) /\ Len(open[th]) \in Nat
      BY <2>1
    <2>3. \A i \in DOMAIN open[th] :
            (IF open[th][i].owner = "manager" THEN [open[th][i] EXCEPT !.owner = "former"]
                                              ELSE open[th][i]) \in Open
      <3> SUFFICES ASSUME NEW i \in DOMAIN open[th]
                   PROVE  /\ open[th][i] \in Open
                          /\ [open[th][i] EXCEPT !.owner = "former"] \in Open
        OBVIOUS
      <3>1. open[th][i] \in Open
        BY <2>1
      <3>2. \A o \in Open : [o EXCEPT !.owner = "former"] \in Open
        BY DEF Open, Owner
      <3> QED BY <3>1, <3>2
    <2> QED BY <2>2, <2>3, IsASeq
  <1>3. TypeOK'
    <2>1. Nodes(<<>>) = {} /\ <<>> \in [{} -> Model]
      BY DEF Nodes, Range
    <2>2. callable' \in [Nodes(listeners)' -> Model]
      BY <1>1, <2>1
    <2>3. callbacks' \in [EventTypeList -> Callback]
      BY <1>1 DEF TypeOK
    <2>4. context_callbacks' \in [EventTypeList -> Callback]
      BY <1>1 DEF Callback
    <2>5. /\ listeners' \in Seq(Node)
          /\ singleton' \in BOOLEAN
          /\ next_event_id' \in Nat /\ next_section_id' \in Nat
      <3>1. listeners' = <<>> /\ singleton' = FALSE /\ next_event_id' = 0 /\ next_section_id' = 0
        BY <1>1
      <3>2. singleton' \in BOOLEAN
        BY <3>1
      <3> QED BY <3>1, <3>2
    <2>7. registered_callbacks' \in [EventTypeList -> Seq(Node)]
      <3>1. <<>> \in Seq(Node)
        OBVIOUS
      <3> QED BY <1>1, <3>1
    <2>6. UNCHANGED <<tool_next_id, frame, outside>>
      BY <1>1
    <2> QED BY <1>2, <2>2, <2>3, <2>4, <2>5, <2>6, <2>7 DEF TypeOK
  <1>4. SavedTable' /\ KokkosFrames' /\ CursorsListed'
    BY <1>1 DEF SavedTable, KokkosFrames, CursorsListed, Walking
  <1>5. Transparent'
    BY <1>1 DEF Transparent, SavedTable
  <1>6. ListsAgree'
    <2>1. Nodes(<<>>) = {} /\ IsInjective(<<>>) /\ InOrderOf(<<>>, <<>>)
      BY DEF Nodes, Range, IsInjective, InOrderOf
    <2> QED BY <1>1, <2>1 DEF ListsAgree
  <1> QED BY <1>3, <1>4, <1>5, <1>6

\* The invariant is about the variables only.
LEMMA StutterStep ==
  ASSUME IInv, UNCHANGED vars
  PROVE  IInv'
  BY DEF IInv, vars, managerVars, listVars, counterVars, kokkosVars, TypeOK, SavedTable, KokkosFrames, Transparent, ListsAgree, CursorsListed,
         Handles, Walking, Walked

-----------------------------------------------------------------------------
\* Every step keeps the invariant.
THEOREM NextIInv == IInv /\ [Next]_vars => IInv'
  <1> SUFFICES ASSUME IInv, [Next]_vars PROVE IInv'
    OBVIOUS
  <1>1. ASSUME NEW t \in Attachable, NEW c \in {"null", "tool"}, AttachTool(t, c) PROVE IInv'
    BY <1>1, AttachToolStep
  <1>2. CASE initialize
    BY <1>2, InitializeStep
  <1>3. CASE finalize
    BY <1>3, FinalizeStep
  <1>4. ASSUME NEW th \in Thread, ChangeListeners(th) PROVE IInv'
    <2>1. ASSUME NEW c \in Callable, NEW shared \in BOOLEAN, register_listener(th, c, shared)
          PROVE  IInv'
      BY <2>1, RegisterStep
    <2>2. ASSUME NEW c \in Callable, unregister_pointer(th, c) PROVE IInv'
      <3>1. PICK i \in DOMAIN listeners :
                   MayUnregister(th, listeners[i]) /\ Unregister(listeners[i])
        BY <2>2 DEF unregister_pointer
      <3>2. listeners[i] \in Nodes(listeners)
        BY DEF Nodes, Range
      <3> QED BY <3>1, <3>2, UnregisterStep
    <2>3. ASSUME NEW n \in Node, unregister_iterator(th, n) PROVE IInv'
      BY <2>3, UnregisterStep DEF unregister_iterator
    <2> QED BY <1>4, <2>1, <2>2, <2>3 DEF ChangeListeners
  <1>5. ASSUME NEW th \in Thread, EmitEvent(th) PROVE IInv'
    BY <1>5, EmitOpeningStep, EmitOtherStep, EmitSectionStep, EmitClosingStep, DispatchStep
       DEF EmitEvent
  <1>6. ASSUME NEW th \in Thread, Advance(th) PROVE IInv'
    BY <1>6, ContextStep, InvokeStep, FinishStep DEF Advance
  <1>7. CASE UNCHANGED vars
    BY <1>7, StutterStep
  <1> QED BY <1>1, <1>2, <1>3, <1>4, <1>5, <1>6, <1>7 DEF Next

\* The invariant holds in every behaviour of the Manager.
THEOREM InvariantHolds == Spec => []IInv
  BY InitIInv, NextIInv, PTL DEF Spec

\* The variables keep their types (Manager.hpp:472-481).
THEOREM TypeCorrect == Spec => []TypeOK
  <1>1. IInv => TypeOK
    BY DEF IInv
  <1> QED BY <1>1, InvariantHolds, PTL

\* Kokkos's table always agrees with the listeners and, for the types nobody
\* listens to, with what Kokkos would have without the Manager
\* (set_dispatching_callbacks, reset_context_callbacks).
THEOREM TransparentHolds == Spec => []Transparent
  <1>1. IInv => Transparent
    BY DEF IInv
  <1> QED BY <1>1, InvariantHolds, PTL

\* The lists per event type hold the live models that handle the type, each
\* once and in order (register_listener_impl, unregister_listener).
THEOREM ListsAgreeHolds == Spec => []ListsAgree
  <1>1. IInv => ListsAgree
    BY DEF IInv
  <1> QED BY <1>1, InvariantHolds, PTL
=============================================================================
