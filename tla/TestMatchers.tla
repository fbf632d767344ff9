---------------------------- MODULE TestMatchers ----------------------------
(***************************************************************************)
(* callbacks/Helpers.hpp: the GoogleMock matchers with which tests look at *)
(* recorded events.  A matcher of an event is its type and, for some       *)
(* members, the set of values it accepts.                                  *)
(***************************************************************************)
EXTENDS Sequences, Integers

\* AllOf over matchers of members.
FieldsMatch(fields, value) == \A f \in DOMAIN fields : value[f] \in fields[f]

\* AnEvent<type>(matchers...) and AnEvent<type>WithName(matcher).
AnEvent(t, fields) == [type |-> t, fields |-> fields]

AnEventWithName(t, names) == AnEvent(t, [name |-> names])

\* VariantWith
Matches(matcher, event) == event.type = matcher.type /\ FieldsMatch(matcher.fields, event)

\* An allocation is matched by memory space, label and size, not by pointer.
PartialMatcherAlloc(descr) == [f \in {"kpsh", "name", "size"} |-> {descr[f]}]

PartialMatcherDeepCopy(event, value) ==
  \A f \in {"dst", "src"} : FieldsMatch(PartialMatcherAlloc(event[f]), value[f])

-----------------------------------------------------------------------------
\* ContainsInOrderMatcher::MatchAndExplainImpl<Idx>, from the first of the
\* elements that are left.
RECURSIVE MatchAndExplainImpl(_, _, _)
MatchAndExplainImpl(matchers, Idx, left) ==
  /\ left # <<>>
  /\ IF Matches(matchers[Idx + 1], Head(left))
     THEN Idx = Len(matchers) - 1 \/ MatchAndExplainImpl(matchers, Idx + 1, Tail(left))
     ELSE MatchAndExplainImpl(matchers, Idx, Tail(left))

\* Faulty variant: the next matcher begins at the element that has matched.
RECURSIVE MatchAndExplainAgain(_, _, _)
MatchAndExplainAgain(matchers, Idx, left) ==
  /\ left # <<>>
  /\ IF Matches(matchers[Idx + 1], Head(left))
     THEN Idx = Len(matchers) - 1 \/ MatchAndExplainAgain(matchers, Idx + 1, left)
     ELSE MatchAndExplainAgain(matchers, Idx, Tail(left))

ContainsInOrderAgain(matchers, arg) == matchers = <<>> \/ MatchAndExplainAgain(matchers, 0, arg)

\* ContainsInOrderMatcher::MatchAndExplain
ContainsInOrder(matchers, arg) == matchers = <<>> \/ MatchAndExplainImpl(matchers, 0, arg)

\* The answers ElementAtMatcher::MatchAndExplain may give: out of bounds, and
\* asked by a listener that takes no explanation, it goes on to read the
\* element that is not there.
ElementAt(index, matcher, arg, interested) ==
  CASE index < Len(arg)                -> {Matches(matcher, arg[index + 1])}
    [] index >= Len(arg) /\ interested  -> {FALSE}
    [] index >= Len(arg) /\ ~interested -> BOOLEAN
=============================================================================
