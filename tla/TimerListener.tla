--------------------------- MODULE TimerListener ---------------------------
(***************************************************************************)
(* What TimerListener.hpp keeps next to its matcher: whether it has        *)
(* matched a begin and an end event, and the two events of its timer       *)
(* (timer/Timer.hpp).  A time is whatever orders the recordings of the     *)
(* timer: the clock of the host, or positions in the queue of an           *)
(* execution space instance.                                               *)
(***************************************************************************)
EXTENDS Events

CONSTANT TimerType

ASSUME TimerTypeAssumption ==
  TimerType \in {"Timer<void>", "EnqueuedEventTimer", "EnqueuedEventWithLaunchTimer"}

VARIABLES
  matched_begin, matched_end,
  tick, tock,    \* when the timer was last started and stopped, 0 for never
  began, ended,  \* the types of the events that were matched last
  since          \* when the listener last began to wait: registered or reset

flagVars     == <<matched_begin, matched_end>>
timerVars    == <<tick, tock>>
listenerVars == <<flagVars, timerVars, began, ended, since>>

NoEvent == "no event"

TimerListenerTypeOK ==
  /\ matched_begin \in BOOLEAN
  /\ matched_end \in BOOLEAN
  /\ matched_end => matched_begin
  /\ tick \in Nat
  /\ tock \in Nat
  /\ began \in EventTypeList \cup {NoEvent}
  /\ ended \in EventTypeList \cup {NoEvent}
  /\ since \in Nat

connected == matched_begin /\ ~matched_end
closed    == matched_begin /\ matched_end
is_valid  == tick # 0 /\ tock # 0

\* timer.start() or timer.start(event) compiles for an event of type t.
Startable(t) == TimerType = "Timer<void>" \/ t \in EnqueuedEvent

TimerListenerInit ==
  /\ matched_begin = FALSE
  /\ matched_end = FALSE
  /\ tick = 0
  /\ tock = 0
  /\ began = NoEvent
  /\ ended = NoEvent
  /\ since = 0

\* Both record an event, over what was recorded before.
start(now) == tick' = now /\ UNCHANGED tock
stop(now)  == tock' = now /\ UNCHANGED tick

\* operator(), once the matcher has been asked about an event of type t.  A
\* timer that cannot be started with the event is not started.
MatchBegin(t, now) ==
  /\ ~matched_begin
  /\ matched_begin' = TRUE
  /\ began' = t
  /\ IF Startable(t) THEN start(now) ELSE UNCHANGED timerVars
  /\ UNCHANGED <<matched_end, ended, since>>

MatchEnd(t, now) ==
  /\ matched_begin
  /\ ~matched_end
  /\ matched_end' = TRUE
  /\ ended' = t
  /\ stop(now)
  /\ UNCHANGED <<matched_begin, began, since>>

Branch(t, matching, now) ==
  \/ matching /\ (MatchBegin(t, now) \/ MatchEnd(t, now))
  \/ (~matching \/ closed) /\ UNCHANGED listenerVars

\* Faulty variant: the end event is not forgotten.
resetBegin(last) ==
  /\ matched_begin' = FALSE
  /\ since' = last
  /\ UNCHANGED <<matched_end, timerVars, began, ended>>

\* reset(), when the last recorded time is `last`: the matcher and the timer
\* stay as they are.
reset(last) ==
  /\ matched_begin' = FALSE
  /\ matched_end' = FALSE
  /\ since' = last
  /\ UNCHANGED <<timerVars, began, ended>>

-----------------------------------------------------------------------------
\* What TimerListener.hpp:31-36 says: the listener starts its timer when it
\* receives a begin event and stops it when it receives the corresponding
\* end event (operator()).
SelectsPair(begin) ==
  /\ matched_begin => began = begin
  /\ matched_end => ended = paired_event[begin]
=============================================================================
