--------------------------- MODULE RegionMatcher ---------------------------
(***************************************************************************)
(* EventRegionMatcher: finds the end of the region it has selected by      *)
(* counting the pushes and pops in between, in a uint32_t.  A matcher is   *)
(* the record of its members; it answers TRUE either inside the region or, *)
(* with TrueOnBoundary, on the push and the pop of the region itself.      *)
(***************************************************************************)
EXTENDS Integers

CONSTANT invalid_nested_level   \* the largest uint32_t

ASSUME RegionMatcherAssumption == invalid_nested_level \in Nat \ {0}

Level == 0 .. invalid_nested_level

\* The level is 0 once a region has been left, and counts only inside one.
MatcherState ==
  [matching : {FALSE}, nested_level : {0, invalid_nested_level}]
    \cup [matching : {TRUE}, nested_level : Level \ {0}]

Initially == [matching |-> FALSE, nested_level |-> invalid_nested_level]

Incremented(level) == (level + 1) % (invalid_nested_level + 1)
Decremented(level) == (level + invalid_nested_level) % (invalid_nested_level + 1)

\* Faulty variant: a region nested in the selected one is not counted.
OnPushFlat(m, selected) ==
  IF ~m.matching /\ selected THEN [matching |-> TRUE, nested_level |-> 1] ELSE m

\* operator()(PushRegionEvent): what becomes of the matcher, and its answer.
OnPush(m, selected) ==
  IF m.matching THEN [m EXCEPT !.nested_level = Incremented(@)]
  ELSE IF selected THEN [matching |-> TRUE, nested_level |-> 1]
  ELSE m

PushMatches(m, selected, TrueOnBoundary) ==
  IF TrueOnBoundary THEN ~m.matching /\ selected ELSE m.matching

\* Faulty variant: the matcher does not see that it leaves the region.
OnPopStuck(m) ==
  IF m.matching THEN [m EXCEPT !.nested_level = Decremented(@)] ELSE m

\* operator()(PopRegionEvent).
OnPop(m) ==
  LET level == Decremented(m.nested_level)
  IN IF m.matching THEN [matching |-> level # 0, nested_level |-> level] ELSE m

PopMatches(m, TrueOnBoundary) ==
  m.matching /\ (TrueOnBoundary <=> Decremented(m.nested_level) = 0)
=============================================================================
