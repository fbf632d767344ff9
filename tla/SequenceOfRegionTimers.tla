----------------------- MODULE SequenceOfRegionTimers -----------------------
(***************************************************************************)
(* SequenceOfRegionTimerListener: one region matcher and one timer per     *)
(* region of a sequence; only the current ones are shown the pushes and    *)
(* the pops, until the current region has been timed and the next pair     *)
(* takes over.                                                             *)
(***************************************************************************)
EXTENDS Regions, RegionMatcher, SequencesExt

CONSTANTS
  Wanted,       \* for each region of the sequence, the names its matcher accepts
  Interleaved,  \* may one region of interest be pushed inside another?
  Interrupting  \* does the program reset in the middle of the current region?

ASSUME SequenceAssumption ==
  /\ Wanted \in Seq(SUBSET Name)
  /\ Interleaved \in BOOLEAN
  /\ Interrupting \in BOOLEAN
  /\ MaxDepth < invalid_nested_level

Index == DOMAIN Wanted

VARIABLES
  matchers,
  timers,
  current,   \* how many regions have been timed
  since      \* when the listener was registered, or last reset

sequenceVars == <<matchers, timers, current, since>>
vars == <<regionVars, sequenceVars>>

Timer == [tick : Nat, tock : Nat]

TypeOK ==
  /\ RegionsTypeOK
  /\ matchers \in [Index -> MatcherState]
  /\ timers \in [Index -> Timer]
  /\ current \in 0 .. Len(Wanted)
  /\ since \in Nat

-----------------------------------------------------------------------------
Init ==
  /\ RegionsInit
  /\ matchers = [i \in Index |-> Initially]
  /\ timers = [i \in Index |-> [tick |-> 0, tock |-> 0]]
  /\ current = 0
  /\ since = 0

all_matched == current = Len(Wanted)

\* std::vector counts from 0, sequences from 1.
Current == current + 1

OfInterest(name) == \E i \in Index : name \in Wanted[i]

\* Faulty variant: a region pushed inside another is not shown to the matcher.
PushOutermost(th, name) ==
  /\ OfInterest(name) /\ ~Interleaved
       => \A i \in DOMAIN regions[th] : ~OfInterest(regions[th][i].name)
  /\ pushRegion(th, name)
  /\ UNCHANGED <<current, since>>
  /\ \/ (all_matched \/ regions[th] # <<>>) /\ UNCHANGED <<matchers, timers>>
     \/ /\ ~all_matched
        /\ regions[th] = <<>>
        /\ LET selected == name \in Wanted[Current]
           IN /\ matchers' = [matchers EXCEPT ![Current] = OnPush(@, selected)]
              /\ timers' = IF PushMatches(matchers[Current], selected, TRUE)
                           THEN [timers EXCEPT ![Current].tick = now] ELSE timers

Push(th, name) ==
  /\ OfInterest(name) /\ ~Interleaved
       => \A i \in DOMAIN regions[th] : ~OfInterest(regions[th][i].name)
  /\ pushRegion(th, name)
  /\ UNCHANGED <<current, since>>
  /\ \/ all_matched /\ UNCHANGED <<matchers, timers>>
     \/ /\ ~all_matched
        /\ LET selected == name \in Wanted[Current]
           IN /\ matchers' = [matchers EXCEPT ![Current] = OnPush(@, selected)]
              /\ timers' = IF PushMatches(matchers[Current], selected, TRUE)
                           THEN [timers EXCEPT ![Current].tick = now] ELSE timers

\* Faulty variant: the next matcher takes over whatever the current one says
\* of the pop.
PopEager(th) ==
  /\ popRegion(th)
  /\ UNCHANGED since
  /\ \/ all_matched /\ UNCHANGED <<matchers, timers, current>>
     \/ /\ ~all_matched
        /\ matchers' = [matchers EXCEPT ![Current] = OnPop(@)]
        /\ current' = IF matchers[Current].matching THEN Current ELSE current
        /\ timers' = IF matchers[Current].matching
                     THEN [timers EXCEPT ![Current].tock = now] ELSE timers

Pop(th) ==
  /\ popRegion(th)
  /\ UNCHANGED since
  /\ \/ all_matched /\ UNCHANGED <<matchers, timers, current>>
     \/ /\ ~all_matched
        /\ matchers' = [matchers EXCEPT ![Current] = OnPop(@)]
        /\ IF PopMatches(matchers[Current], TRUE)
           THEN /\ timers' = [timers EXCEPT ![Current].tock = now]
                /\ current' = Current
           ELSE UNCHANGED <<timers, current>>

\* The program is inside the region that is being timed.
Timing == \E i \in Index : i = Current /\ matchers[i].matching

\* reset() only goes back to the first region: matchers and timers stay.  At
\* the first region it changes nothing.
Reset ==
  /\ Interrupting \/ ~Timing
  /\ current > 0
  /\ current' = 0
  /\ since' = clock
  /\ UNCHANGED <<regionVars, matchers, timers>>

Next ==
  \/ \E th \in Thread : Pop(th) \/ \E name \in Name : Push(th, name)
  \/ Reset

Spec == Init /\ [][Next]_vars
-----------------------------------------------------------------------------
(***************************************************************************)
(* Properties.                                                             *)
(***************************************************************************)

\* When matcher i began to wait for its region.
Waiting(i) == IF i = 1 THEN since ELSE timers[i - 1].tock

\* Timer i has timed one region that its matcher accepts, from its push to
\* its pop, after the region of the timer before it was popped.
Timed(i) ==
  /\ \E name \in Wanted[i] :
       [name |-> name, pushed |-> timers[i].tick, popped |-> timers[i].tock] \in finished
  /\ timers[i].tick > Waiting(i)

\* The timers that are done have timed the regions of the sequence in its
\* order and one after the other, whatever other regions the program pushes
\* around, between and inside them (both operator()).
TimesSequence == \A i \in 1 .. current : Timed(i)

\* No region of the sequence is missed: each timer has timed the first region
\* its matcher accepts after the timer before it was stopped, and while the
\* current one is not running there has been no such region (Push, Pop).
MissesNoRegion ==
  \A r \in Pushed : \A i \in Index :
    i <= Current /\ r.name \in Wanted[i] /\ r.pushed > Waiting(i) =>
      /\ i = Current => matchers[i].matching
      /\ Waiting(i) < timers[i].tick
      /\ timers[i].tick <= r.pushed

\* What SequenceOfRegionTimerListener.hpp:33 says of all_matched.
AllMatchedMeansTimed == all_matched => \A i \in Index : Timed(i)
=============================================================================
