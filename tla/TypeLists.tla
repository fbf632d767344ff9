----------------------------- MODULE TypeLists -----------------------------
(***************************************************************************)
(* impl/type_list.hpp: the compile-time lists from which the Manager knows *)
(* where the list of an event type is.  A type list, or a pack of types,   *)
(* is the sequence of its types; positions count from 0.  A unary predicate *)
(* is the set of the types it is true of, a transformer is a function.     *)
(***************************************************************************)
EXTENDS SequencesExt, Integers

type_list_size(L) == Len(L)

type_list_contains(T, L) == \E i \in DOMAIN L : L[i] = T

\* The specialisation for 0, and the one that drops the head.
RECURSIVE type_list_at(_, _)
type_list_at(I, L) == IF I = 0 THEN Head(L) ELSE type_list_at(I - 1, Tail(L))

transform_type_list(Transformer, L) == [i \in DOMAIN L |-> Transformer[L[i]]]

\* The specialisation for a list that begins with T, and the one that does not.
RECURSIVE type_list_index(_, _)
type_list_index(T, L) == IF Head(L) = T THEN 0 ELSE 1 + type_list_index(T, Tail(L))

type_list_all(UnaryPred, L) == \A i \in DOMAIN L : L[i] \in UnaryPred

type_list_any(UnaryPred, L) == \E i \in DOMAIN L : L[i] \in UnaryPred

\* Kokkos::Impl::filter_type_list_t
filter_type_list(UnaryPred, L) ==
  LET Satisfied(T) == T \in UnaryPred IN SelectSeq(L, Satisfied)

\* A std::tuple is the function from its positions.
type_list_to_tuple(L) == [p \in 0 .. Len(L) - 1 |-> L[p + 1]]

\* The types T callable.operator()<T>() is called for, in turn.
for_each(L) == [i \in 1 .. type_list_size(L) |-> type_list_at(i - 1, L)]
=============================================================================
