---------------------------- MODULE KernelTimer ----------------------------
(***************************************************************************)
(* BeginEndTimerListener for one type of kernel, with a timer that records *)
(* its events in the queue of an execution space instance.  Host threads   *)
(* launch kernels: Kokkos emits the begin event, then enqueues the kernel, *)
(* then emits the end event, and the manager runs the listener inside both *)
(* events.  The listener has no lock: its body is the check of closed(),   *)
(* the matcher and the branch, and those of two threads interleave.        *)
(*                                                                         *)
(* Device events are captured in the order of the queue, so the time of a  *)
(* recording is its position there (timer/Cuda/Event.hpp).                 *)
(***************************************************************************)
EXTENDS TimerListener, Integers

CONSTANTS
  Thread,
  Queue,            \* execution space instances, each with a device id of its own
  exec,             \* the one the listener was made for
  Name,             \* names of kernels
  Wanted,           \* the names the matcher accepts
  BeginEventType,
  invalid_event_id, \* the largest uint64_t
  MaxKernels,       \* bound: kernels the program launches
  Overlapping       \* may two threads launch matching kernels at once?

ASSUME KernelTimerAssumption ==
  /\ exec \in Queue
  /\ Wanted \subseteq Name
  /\ BeginEventType \in BeginEvent
  /\ TimerType # "Timer<void>"
  /\ MaxKernels \in Nat
  /\ invalid_event_id \in Nat
  /\ MaxKernels <= invalid_event_id
  /\ Overlapping \in BOOLEAN

VARIABLES
  call,           \* what each thread is doing
  launched,       \* how many kernels the program has begun
  next_event_id,  \* of the manager
  enqueued,       \* what exec has been given: numbers of kernels, 0 for a recording
  matcher_end,    \* the id of the EventIdMatcher
  timer_launch,   \* how much had been enqueued when it was started and stopped
  timed           \* the number of the kernel the timer was last started for

matcherVars == <<matcher_end, timer_launch, timed>>
vars == <<listenerVars, call, launched, next_event_id, enqueued, matcherVars>>

EndEventType == paired_event[BeginEventType]

Kernel == [number : Nat, id : Nat, queue : Queue, name : Name]

\* A thread is on the host, or has called the listener with an event of its
\* kernel: it is about to check closed(), has asked the matcher, or is done.
Host == [pc |-> "host"]
Call == [pc : {"called", "matched", "returned"}, event : {BeginEventType, EndEventType},
         kernel : Kernel, matching : BOOLEAN]

TypeOK ==
  /\ TimerListenerTypeOK
  /\ call \in [Thread -> Call \cup {Host}]
  /\ launched \in Nat
  /\ next_event_id \in Nat
  /\ enqueued \in Seq(Nat)
  /\ matcher_end \in Nat
  /\ timer_launch \in [start : Nat, stop : Nat]
  /\ timed \in Nat

-----------------------------------------------------------------------------
Init ==
  /\ TimerListenerInit
  /\ call = [th \in Thread |-> Host]
  /\ launched = 0
  /\ next_event_id = 0
  /\ enqueued = <<>>
  /\ matcher_end = invalid_event_id
  /\ timer_launch = [start |-> 0, stop |-> 0]
  /\ timed = 0

\* The conjunction of the queue matcher and the name matcher.
Selects(queue, name) == queue = exec /\ name \in Wanted

\* The thread is between the begin and the end event of a selected kernel.
InSelected(th) ==
  call[th] # Host /\ Selects(call[th].kernel.queue, call[th].kernel.name)

\* Kokkos begins a kernel: the manager numbers it and calls the listener.
BeginKernel(th, queue, name) ==
  /\ call[th] = Host
  /\ launched < MaxKernels
  /\ Selects(queue, name) /\ ~Overlapping => \A other \in Thread : ~InSelected(other)
  /\ call' = [call EXCEPT ![th] =
                [pc |-> "called", event |-> BeginEventType, matching |-> FALSE,
                 kernel |-> [number |-> launched + 1, id |-> next_event_id,
                             queue |-> queue, name |-> name]]]
  /\ launched' = launched + 1
  /\ next_event_id' = next_event_id + 1
  /\ UNCHANGED <<listenerVars, enqueued, matcherVars>>

\* if(closed()) return;
ReturnEarly(th) ==
  /\ call[th].pc = "called"
  /\ closed
  /\ call' = [call EXCEPT ![th].pc = "returned"]
  /\ UNCHANGED <<listenerVars, launched, next_event_id, enqueued, matcherVars>>

Matching(th) ==
  LET k == call[th].kernel
  IN IF call[th].event = BeginEventType THEN Selects(k.queue, k.name) ELSE k.id = matcher_end

\* Faulty variant: the id of the begin event is not kept.
AskMatcherForgetful(th) ==
  /\ call[th].pc = "called"
  /\ ~closed
  /\ call' = [call EXCEPT ![th] = [@ EXCEPT !.pc = "matched", !.matching = Matching(th)]]
  /\ UNCHANGED <<listenerVars, launched, next_event_id, enqueued, matcherVars>>

\* matcher(event): EventBeginEndIdMatcher keeps the id of a begin event that
\* is selected, and matches the end event with that id.
AskMatcher(th) ==
  /\ call[th].pc = "called"
  /\ ~closed
  /\ call' = [call EXCEPT ![th] = [@ EXCEPT !.pc = "matched", !.matching = Matching(th)]]
  /\ matcher_end' = IF call[th].event = BeginEventType /\ Matching(th)
                    THEN call[th].kernel.id ELSE matcher_end
  /\ UNCHANGED <<listenerVars, launched, next_event_id, enqueued, timer_launch, timed>>

WithLaunch == TimerType = "EnqueuedEventWithLaunchTimer"

\* An event is recorded on exec: it is enqueued behind what was before.
record == enqueued' = Append(enqueued, 0)

\* timer.start(event), if it compiles: timer_launch starts after the recording.
StartTimer(th) ==
  IF Startable(call[th].event)
  THEN /\ record
       /\ timer_launch' = IF WithLaunch THEN [timer_launch EXCEPT !.start = Len(enqueued')]
                                        ELSE timer_launch
       /\ timed' = call[th].kernel.number
  ELSE UNCHANGED <<enqueued, timer_launch, timed>>

\* Faulty variant: timer_launch stops after the recording.
StopTimerLate(th) ==
  /\ record
  /\ timer_launch' = IF WithLaunch THEN [timer_launch EXCEPT !.stop = Len(enqueued')] ELSE timer_launch
  /\ UNCHANGED timed

\* timer.stop(event): timer_launch stops before the recording.
StopTimer(th) ==
  /\ record
  /\ timer_launch' = IF WithLaunch THEN [timer_launch EXCEPT !.stop = Len(enqueued)] ELSE timer_launch
  /\ UNCHANGED timed

\* The branch on the answer of the matcher; the flags are read only now.
Decide(th) ==
  /\ call[th].pc = "matched"
  /\ call' = [call EXCEPT ![th].pc = "returned"]
  /\ Branch(call[th].event, call[th].matching, Len(enqueued) + 1)
  /\ \/ call[th].matching /\ ~matched_begin /\ StartTimer(th)
     \/ call[th].matching /\ connected /\ StopTimer(th)
     \/ (~call[th].matching \/ closed) /\ UNCHANGED <<enqueued, timer_launch, timed>>
  /\ UNCHANGED <<launched, next_event_id, matcher_end>>

\* Kokkos enqueues the kernel, and then emits its end event.
LaunchKernel(th) ==
  /\ call[th].pc = "returned"
  /\ call[th].event = BeginEventType
  /\ enqueued' = IF call[th].kernel.queue = exec THEN Append(enqueued, call[th].kernel.number)
                                                 ELSE enqueued
  /\ call' = [call EXCEPT ![th] = [@ EXCEPT !.pc = "called", !.event = EndEventType,
                                            !.matching = FALSE]]
  /\ UNCHANGED <<listenerVars, launched, next_event_id, matcherVars>>

Return(th) ==
  /\ call[th].pc = "returned"
  /\ call[th].event = EndEventType
  /\ call' = [call EXCEPT ![th] = Host]
  /\ UNCHANGED <<listenerVars, launched, next_event_id, enqueued, matcherVars>>

-----------------------------------------------------------------------------
\* The program has read the duration and wants another one.
Reset ==
  /\ closed
  /\ reset(Len(enqueued))
  /\ UNCHANGED <<call, launched, next_event_id, enqueued, matcherVars>>

\* The listener is unregistered, the manager finalized; a new one numbers
\* kernels from 0 and gets the same listener.  A listener that has kept an id
\* of the former manager would find it again in another kernel.
Reinitialize ==
  /\ matcher_end = invalid_event_id
  /\ next_event_id # 0
  /\ \A th \in Thread : call[th] = Host
  /\ next_event_id' = 0
  /\ UNCHANGED <<listenerVars, call, launched, enqueued, matcherVars>>

Advance(th) ==
  \/ ReturnEarly(th) \/ AskMatcher(th) \/ Decide(th) \/ LaunchKernel(th) \/ Return(th)

Next ==
  \/ \E th \in Thread : Advance(th) \/ \E queue \in Queue, name \in Name : BeginKernel(th, queue, name)
  \/ Reset
  \/ Reinitialize

Spec == Init /\ [][Next]_vars

\* A thread that has begun a kernel goes on.
FairSpec == Spec /\ \A th \in Thread : WF_vars(Advance(th))
-----------------------------------------------------------------------------
(***************************************************************************)
(* Properties.                                                             *)
(***************************************************************************)

\* In the queue, the kernel whose begin event was matched lies between the
\* two recordings of the timer, both made since the listener was last reset:
\* its duration includes the execution of that kernel.  The launch timer, if
\* there is one, measures the launch and neither recording
\* (EnqueuedEventTimer, EnqueuedEventWithLaunchTimer, TimerListener).
TimesTheKernel ==
  closed =>
    /\ since < tick
    /\ \E i \in tick + 1 .. tock - 1 :
         /\ enqueued[i] = timed
         /\ WithLaunch => /\ timer_launch.start \in tick .. i - 1
                          /\ timer_launch.stop \in i .. tock - 1

\* A selected kernel that begins while the listener is waiting is timed: its
\* end event is found and closes the listener, which does not stay connected
\* for ever (EventBeginEndIdMatcher, TimerListener::operator()).
SelectedIsTimed ==
  \A th \in Thread :
    (InSelected(th) /\ call[th].pc = "called" /\ call[th].event = BeginEventType /\ ~matched_begin)
      ~> closed

\* TimerListener.hpp:31-36 for kernels.
SelectsBeginAndEnd == SelectsPair(BeginEventType)
=============================================================================
