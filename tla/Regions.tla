------------------------------ MODULE Regions ------------------------------
(***************************************************************************)
(* A program that pushes and pops profiling regions, on one or several     *)
(* threads, as listeners to PushRegionEvent and PopRegionEvent see it: the *)
(* events come one at a time, a push carries the name of the region, a pop *)
(* carries nothing.                                                        *)
(***************************************************************************)
EXTENDS Integers, Sequences

CONSTANTS
  Thread,
  Name,      \* names of regions
  MaxDepth,  \* bound: regions a thread has open at once
  MaxClock   \* bound: pushes and pops

ASSUME RegionsAssumption == MaxDepth \in Nat /\ MaxClock \in Nat

VARIABLES
  clock,     \* the number of events so far
  regions,   \* the regions each thread has open, outermost first
  finished   \* the regions that have been popped

regionVars == <<clock, regions, finished>>

Region == [name : Name, pushed : Nat]
Finished == [name : Name, pushed : Nat, popped : Nat]

RegionsTypeOK ==
  /\ clock \in Nat
  /\ regions \in [Thread -> Seq(Region)]
  /\ finished \subseteq Finished

RegionsInit ==
  /\ clock = 0
  /\ regions = [th \in Thread |-> <<>>]
  /\ finished = {}

now == clock + 1

pushRegion(th, name) ==
  /\ clock < MaxClock
  /\ Len(regions[th]) < MaxDepth
  /\ clock' = now
  /\ regions' = [regions EXCEPT ![th] = Append(@, [name |-> name, pushed |-> now])]
  /\ UNCHANGED finished

popRegion(th) ==
  /\ clock < MaxClock
  /\ regions[th] # <<>>
  /\ clock' = now
  /\ LET last == regions[th][Len(regions[th])]
     IN finished' = finished \cup {[name |-> last.name, pushed |-> last.pushed, popped |-> now]}
  /\ regions' = [regions EXCEPT ![th] = SubSeq(@, 1, Len(@) - 1)]

\* Every region there has been, open or not.
Pushed ==
  {[name |-> r.name, pushed |-> r.pushed] : r \in finished}
    \cup UNION {{regions[th][i] : i \in DOMAIN regions[th]} : th \in Thread}
=============================================================================
