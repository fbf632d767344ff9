------------------------------- MODULE Lists -------------------------------
(***************************************************************************)
(* std::list as the Manager uses it: nodes are linked at the end, unlinked *)
(* one at a time, and walked with an iterator that stays on its node while *)
(* other nodes come and go.  A list is the sequence of its nodes; a node   *)
(* is linked at most once.                                                 *)
(***************************************************************************)
EXTENDS SequencesExt

Nodes(l) == Range(l)

Position(l, n) == CHOOSE i \in DOMAIN l : l[i] = n

\* list::insert(end(), x) and list::push_back.
Link(l, n) == Append(l, n)

\* list::erase(iterator), and list::remove(pointer), which does nothing when
\* the pointer is not in the list (a null pointer, in the Manager).
Unlink(l, n) == IF n \in Nodes(l) THEN RemoveAt(l, Position(l, n)) ELSE l

\* The positions an iterator has still to visit: all of them before the walk
\* starts, afterwards those that follow the node it is on.
Ahead(l, started, n) ==
  {i \in DOMAIN l : started => \E j \in DOMAIN l : l[j] = n /\ j < i}

\* m holds some of the nodes of l, in the order they have in l.
InOrderOf(m, l) ==
  \A i, j \in DOMAIN m :
    i < j => \E k, h \in DOMAIN l : k < h /\ l[k] = m[i] /\ l[h] = m[j]
=============================================================================
