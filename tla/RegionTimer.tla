---------------------------- MODULE RegionTimer ----------------------------
(***************************************************************************)
(* RegionTimerListener: a TimerListener whose matcher is an                *)
(* EventRegionMatcher that answers on the boundary of the region, so that  *)
(* the push that opens a wanted region starts the timer and the pop of the *)
(* same region stops it.                                                   *)
(***************************************************************************)
EXTENDS TimerListener, Regions, RegionMatcher

CONSTANTS
  Wanted   \* the names the inner matcher accepts

ASSUME RegionTimerAssumption ==
  /\ Wanted \subseteq Name
  /\ MaxDepth < invalid_nested_level

VARIABLES matcher, registered

vars == <<regionVars, listenerVars, matcher, registered>>

TypeOK ==
  /\ RegionsTypeOK
  /\ TimerListenerTypeOK
  /\ matcher \in MatcherState
  /\ registered \in BOOLEAN

-----------------------------------------------------------------------------
Init ==
  /\ RegionsInit
  /\ TimerListenerInit
  /\ matcher = Initially
  /\ registered = FALSE

\* The manager calls the listener if it is registered; a closed listener
\* does not ask its matcher.
Ignored == ~registered \/ closed

Push(th, name) ==
  /\ pushRegion(th, name)
  /\ \/ Ignored /\ UNCHANGED <<matcher, listenerVars>>
     \/ /\ ~Ignored
        /\ matcher' = OnPush(matcher, name \in Wanted)
        /\ Branch("PushRegionEvent", PushMatches(matcher, name \in Wanted, TRUE), now)
  /\ UNCHANGED registered

Pop(th) ==
  /\ popRegion(th)
  /\ \/ Ignored /\ UNCHANGED <<matcher, listenerVars>>
     \/ /\ ~Ignored
        /\ matcher' = OnPop(matcher)
        /\ Branch("PopRegionEvent", PopMatches(matcher, TRUE), now)
  /\ UNCHANGED registered

Register ==
  /\ ~registered
  /\ registered' = TRUE
  /\ since' = IF closed THEN since ELSE clock
  /\ UNCHANGED <<regionVars, flagVars, timerVars, began, ended, matcher>>

\* The program waits for the end of the region before it unregisters or
\* resets the listener.
Unregister ==
  /\ registered
  /\ ~connected
  /\ registered' = FALSE
  /\ UNCHANGED <<regionVars, listenerVars, matcher>>

\* Faulty variant: reset() forgets the end only.
ResetHalf ==
  /\ closed
  /\ matched_end' = FALSE
  /\ since' = clock
  /\ UNCHANGED <<regionVars, matched_begin, timerVars, began, ended, matcher, registered>>

\* A listener that has matched nothing is not changed by reset().
Reset ==
  /\ closed
  /\ reset(clock)
  /\ UNCHANGED <<regionVars, matcher, registered>>

Next ==
  \/ \E th \in Thread : Pop(th) \/ \E name \in Name : Push(th, name)
  \/ Register
  \/ Unregister
  \/ Reset

Spec == Init /\ [][Next]_vars
-----------------------------------------------------------------------------
(***************************************************************************)
(* Properties.                                                             *)
(***************************************************************************)

\* A closed listener has timed one region, of a wanted name, from its own
\* push to its own pop, however the regions before, around and inside it
\* are nested (EventRegionMatcher and TimerListener::operator()).
TimesOneRegion ==
  closed => \E name \in Wanted : [name |-> name, pushed |-> tick, popped |-> tock] \in finished

\* No wanted region that was pushed since the listener began to wait is
\* passed over: the timer was started since then, by the first one
\* (EventRegionMatcher, TimerListener::operator() and reset()).
SelectsFirst ==
  \A r \in Pushed :
    registered /\ r.name \in Wanted /\ r.pushed > since =>
      matched_begin /\ since < tick /\ tick <= r.pushed

\* What RegionTimerListener.hpp:19-22 offers: with any timer type it names
\* the region is timed, so a closed listener has a duration.
ClosedIsTimed == closed => is_valid
=============================================================================
