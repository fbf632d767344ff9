------------------------- MODULE KernelTimerProofs -------------------------
(***************************************************************************)
(* A BeginEndTimerListener times the kernel whose begin event it matched,  *)
(* for every number of threads, queues and kernels, if matching kernels do *)
(* not overlap.                                                            *)
(***************************************************************************)
EXTENDS KernelTimer, SequenceTheorems, TLAPS

(***************************************************************************)
(* The inductive invariant.                                                *)
(***************************************************************************)
Calling(th) == call[th] # Host

\* The kernel whose id the matcher has is the one of the thread.
HasTheId(th) == Calling(th) /\ call[th].kernel.id = matcher_end

\* Ids are those the manager has given, of different kernels different ones.
IdsOK ==
  /\ next_event_id <= launched
  /\ launched <= MaxKernels
  /\ matcher_end = invalid_event_id \/ matcher_end < next_event_id
  /\ \A th \in Thread : Calling(th) => call[th].kernel.id < next_event_id
  /\ \A th, u \in Thread :
       Calling(th) /\ Calling(u) /\ call[th].kernel.id = call[u].kernel.id => th = u

\* One kernel of those the matcher accepts at a time.
OneSelected == \A th, u \in Thread : InSelected(th) /\ InSelected(u) => th = u

\* Recordings are in the queue.
InTheQueue == since <= Len(enqueued) /\ tick <= Len(enqueued) /\ tock <= Len(enqueued)

\* The thread is within the kernel the timer runs for: it is still to be
\* enqueued, or behind the recording of its begin and its end is to be matched.
Timing(th) ==
  /\ HasTheId(th) /\ InSelected(th)
  /\ call[th].kernel.number = timed
  /\ since < tick
  /\ WithLaunch => timer_launch.start = tick
  /\ \/ call[th].event = BeginEventType /\ call[th].pc = "returned"
     \/ /\ call[th].event = EndEventType
        /\ call[th].pc = "called" \/ (call[th].pc = "matched" /\ call[th].matching)
        /\ \E i \in tick + 1 .. Len(enqueued) : enqueued[i] = timed

\* The thread has asked the matcher about a begin event that is selected.
Starting(th) ==
  /\ call[th].event = BeginEventType /\ call[th].pc = "matched" /\ call[th].matching
  /\ InSelected(th) /\ ~matched_begin

\* A matched event is of the kernel the matcher has the id of, and the timer
\* runs only for it.
MatchedOK ==
  /\ connected => \E th \in Thread : Timing(th)
  /\ \A th \in Thread : HasTheId(th) =>
       \/ Starting(th)
       \/ connected /\ Timing(th)
       \/ call[th].event = EndEventType /\ call[th].pc = "returned"
  /\ \A th \in Thread : call[th].pc = "matched" /\ call[th].matching => HasTheId(th)

KTInv ==
  /\ TypeOK
  /\ IdsOK
  /\ OneSelected
  /\ InTheQueue
  /\ MatchedOK
  /\ SelectsBeginAndEnd
  /\ TimesTheKernel

-----------------------------------------------------------------------------
(***************************************************************************)
(* What the calls of the listener are.                                     *)
(***************************************************************************)
Stage == {"called", "matched", "returned"}
Given == {BeginEventType, EndEventType}

LEMMA EventTypes ==
  /\ BeginEventType \in EventTypeList /\ EndEventType \in EventTypeList
  /\ BeginEventType # EndEventType
  /\ Startable(BeginEventType)
  BY EventTables, KernelTimerAssumption DEF EndEventType, BeginEvent, EndEvent, Startable

LEMMA CallFields ==
  ASSUME NEW c \in Call
  PROVE  /\ c # Host /\ c.pc \in Stage /\ c.event \in Given /\ c.matching \in BOOLEAN
         /\ c.kernel \in Kernel
         /\ c.kernel.number \in Nat /\ c.kernel.id \in Nat
  <1>1. c.pc \in Stage /\ c.event \in Given /\ c.matching \in BOOLEAN /\ c.kernel \in Kernel
    BY DEF Call, Stage, Given
  <1>2. c # Host
    BY <1>1 DEF Host, Stage
  <1> QED BY <1>1, <1>2 DEF Kernel

\* A thread that is not on the host has called the listener.
LEMMA CallingCalls ==
  ASSUME TypeOK, NEW th \in Thread
  PROVE  /\ Calling(th) <=> call[th] \in Call
         /\ call[th].pc \in Stage => call[th] \in Call
  <1>1. call[th] \in Call \cup {Host}
    BY DEF TypeOK
  <1>2. Host.pc \notin Stage
    BY DEF Host, Stage
  <1> QED BY <1>1, <1>2, CallFields DEF Calling

-----------------------------------------------------------------------------
(***************************************************************************)
(* Types.                                                                  *)
(***************************************************************************)
LEMMA InitTypeOK == Init => TypeOK
  <1> SUFFICES ASSUME Init PROVE TypeOK
    OBVIOUS
  <1> USE DEF Init, TimerListenerInit
  <1>1. TimerListenerTypeOK
    BY DEF TimerListenerTypeOK
  <1>2. call \in [Thread -> Call \cup {Host}] /\ enqueued \in Seq(Nat)
    OBVIOUS
  <1>3. timer_launch \in [start : Nat, stop : Nat] /\ matcher_end \in Nat
    BY KernelTimerAssumption
  <1> QED BY <1>1, <1>2, <1>3 DEF TypeOK

LEMMA DecideTypeOK ==
  ASSUME TypeOK, NEW th \in Thread, Decide(th)
  PROVE  TypeOK'
  <1> DEFINE n == Len(enqueued)
  <1>1. /\ TimerListenerTypeOK /\ call \in [Thread -> Call \cup {Host}]
        /\ launched \in Nat /\ next_event_id \in Nat /\ matcher_end \in Nat
        /\ timer_launch \in [start : Nat, stop : Nat] /\ timed \in Nat
        /\ enqueued \in Seq(Nat) /\ n \in Nat /\ n + 1 \in Nat
    BY DEF TypeOK
  <1>2. /\ call[th].pc = "matched" /\ call' = [call EXCEPT ![th].pc = "returned"]
        /\ UNCHANGED <<launched, next_event_id, matcher_end>>
        /\ Branch(call[th].event, call[th].matching, n + 1)
        /\ \/ StartTimer(th) \/ StopTimer(th)
           \/ UNCHANGED <<enqueued, timer_launch, timed>>
    BY DEF Decide
  <1>3. call[th] \in Call /\ call[th].event \in EventTypeList /\ call[th].kernel.number \in Nat
    BY <1>2, CallingCalls, CallFields, EventTypes DEF Stage, Given
  <1>4. call' \in [Thread -> Call \cup {Host}]
    <2>1. PICK c \in Call : c = call[th]
      BY <1>3
    <2>2. [c EXCEPT !.pc = "returned"] \in Call
      BY DEF Call
    <2> QED BY <1>1, <1>2, <2>1, <2>2
  <1>5. TimerListenerTypeOK'
    <2>1. CASE MatchBegin(call[th].event, n + 1)
      BY <1>1, <1>3, <2>1 DEF MatchBegin, start, timerVars, TimerListenerTypeOK
    <2>2. CASE MatchEnd(call[th].event, n + 1)
      BY <1>1, <1>3, <2>2 DEF MatchEnd, stop, TimerListenerTypeOK
    <2>3. CASE UNCHANGED listenerVars
      BY <1>1, <2>3 DEF listenerVars, flagVars, timerVars, TimerListenerTypeOK
    <2> QED BY <1>2, <2>1, <2>2, <2>3 DEF Branch
  <1>6. Append(enqueued, 0) \in Seq(Nat) /\ Len(Append(enqueued, 0)) = n + 1
    BY <1>1, AppendProperties
  <1> HIDE DEF n
  <1>7. enqueued' \in Seq(Nat) /\ timer_launch' \in [start : Nat, stop : Nat] /\ timed' \in Nat
    <2>1. CASE StartTimer(th)
      BY <1>1, <1>3, <1>6, <2>1 DEF StartTimer, record
    <2>2. CASE StopTimer(th)
      BY <1>1, <1>6, <2>2 DEF StopTimer, record, n
    <2> QED BY <1>1, <1>2, <2>1, <2>2
  <1> QED BY <1>1, <1>2, <1>4, <1>5, <1>7 DEF TypeOK

\* The types do not depend on which kernels overlap.
LEMMA NextTypeOK == TypeOK /\ [Next]_vars => TypeOK'
  <1> SUFFICES ASSUME TypeOK, [Next]_vars PROVE TypeOK'
    OBVIOUS
  <1>1. /\ TimerListenerTypeOK /\ call \in [Thread -> Call \cup {Host}]
        /\ launched \in Nat /\ next_event_id \in Nat /\ matcher_end \in Nat
        /\ timer_launch \in [start : Nat, stop : Nat] /\ timed \in Nat
        /\ enqueued \in Seq(Nat) /\ Len(enqueued) \in Nat
    BY DEF TypeOK
  <1>2. ASSUME UNCHANGED listenerVars PROVE TimerListenerTypeOK'
    BY <1>1, <1>2 DEF listenerVars, flagVars, timerVars, TimerListenerTypeOK
  <1>3. ASSUME NEW th \in Thread, NEW queue \in Queue, NEW name \in Name, BeginKernel(th, queue, name)
        PROVE  TypeOK'
    <2> DEFINE k == [number |-> launched + 1, id |-> next_event_id, queue |-> queue, name |-> name]
               d == [pc |-> "called", event |-> BeginEventType, matching |-> FALSE, kernel |-> k]
    <2>1. k \in Kernel
      BY <1>1 DEF Kernel
    <2>2. d \in Call
      BY <2>1 DEF Call
    <2>3. call' = [call EXCEPT ![th] = d] /\ launched' = launched + 1
          /\ next_event_id' = next_event_id + 1
          /\ UNCHANGED <<listenerVars, enqueued, matcher_end, timer_launch, timed>>
      BY <1>3 DEF BeginKernel, matcherVars
    <2> HIDE DEF d, k
    <2> QED BY <1>1, <1>2, <2>2, <2>3 DEF TypeOK
  <1>4. ASSUME NEW th \in Thread, ReturnEarly(th) PROVE TypeOK'
    <2>1. /\ call[th].pc = "called" /\ call' = [call EXCEPT ![th].pc = "returned"]
          /\ UNCHANGED <<listenerVars, launched, next_event_id, enqueued, matcher_end, timer_launch, timed>>
      BY <1>4 DEF ReturnEarly, matcherVars
    <2>2. PICK c \in Call : c = call[th]
      BY <2>1, CallingCalls DEF Stage
    <2>3. [c EXCEPT !.pc = "returned"] \in Call
      BY DEF Call
    <2> QED BY <1>1, <1>2, <2>1, <2>2, <2>3 DEF TypeOK
  <1>5. ASSUME NEW th \in Thread, AskMatcher(th) PROVE TypeOK'
    <2> DEFINE b == Matching(th)
    <2>1. /\ call[th].pc = "called"
          /\ call' = [call EXCEPT ![th] = [@ EXCEPT !.pc = "matched", !.matching = b]]
          /\ matcher_end' \in {matcher_end, call[th].kernel.id}
          /\ UNCHANGED <<listenerVars, launched, next_event_id, enqueued, timer_launch, timed>>
      BY <1>5 DEF AskMatcher
    <2>2. PICK c \in Call : c = call[th]
      BY <2>1, CallingCalls DEF Stage
    <2>3. b \in BOOLEAN
      BY DEF Matching, Selects
    <2> HIDE DEF b
    <2>4. [c EXCEPT !.pc = "matched", !.matching = b] \in Call /\ matcher_end' \in Nat
      BY <1>1, <2>1, <2>2, <2>3, CallFields DEF Call
    <2> QED BY <1>1, <1>2, <2>1, <2>2, <2>4 DEF TypeOK
  <1>6. ASSUME NEW th \in Thread, LaunchKernel(th) PROVE TypeOK'
    <2>1. /\ call[th].pc = "returned"
          /\ call' = [call EXCEPT ![th] = [@ EXCEPT !.pc = "called", !.event = EndEventType,
                                                    !.matching = FALSE]]
          /\ enqueued' = IF call[th].kernel.queue = exec THEN Append(enqueued, call[th].kernel.number)
                                                         ELSE enqueued
          /\ UNCHANGED <<listenerVars, launched, next_event_id, matcher_end, timer_launch, timed>>
      BY <1>6 DEF LaunchKernel, matcherVars
    <2>2. PICK c \in Call : c = call[th]
      BY <2>1, CallingCalls DEF Stage
    <2>3. [c EXCEPT !.pc = "called", !.event = EndEventType, !.matching = FALSE] \in Call
      BY DEF Call
    <2>4. enqueued' \in Seq(Nat)
      <3>1. Append(enqueued, c.kernel.number) \in Seq(Nat)
        BY <1>1, CallFields, AppendProperties
      <3> QED BY <1>1, <2>1, <2>2, <3>1
    <2> QED BY <1>1, <1>2, <2>1, <2>2, <2>3, <2>4 DEF TypeOK
  <1>7. ASSUME NEW th \in Thread, Return(th) PROVE TypeOK'
    <2>1. /\ call' = [call EXCEPT ![th] = Host]
          /\ UNCHANGED <<listenerVars, launched, next_event_id, enqueued, matcher_end, timer_launch, timed>>
      BY <1>7 DEF Return, matcherVars
    <2> QED BY <1>1, <1>2, <2>1 DEF TypeOK
  <1>8. CASE Reset
    <2>1. /\ matched_begin' = FALSE /\ matched_end' = FALSE /\ since' = Len(enqueued)
          /\ UNCHANGED <<tick, tock, began, ended>>
          /\ UNCHANGED <<call, launched, next_event_id, enqueued, matcher_end, timer_launch, timed>>
      BY <1>8 DEF Reset, reset, timerVars, matcherVars
    <2> QED BY <1>1, <2>1 DEF TypeOK, TimerListenerTypeOK
  <1>9. CASE Reinitialize
    <2>1. /\ next_event_id' = 0
          /\ UNCHANGED <<listenerVars, call, launched, enqueued, matcher_end, timer_launch, timed>>
      BY <1>9 DEF Reinitialize, matcherVars
    <2> QED BY <1>1, <1>2, <2>1 DEF TypeOK
  <1>10. CASE UNCHANGED vars
    BY <1>1, <1>2, <1>10 DEF vars, matcherVars, TypeOK
  <1> QED BY <1>3, <1>4, <1>5, <1>6, <1>7, <1>8, <1>9, <1>10, DecideTypeOK DEF Next, Advance

-----------------------------------------------------------------------------
(***************************************************************************)
(* Every step keeps the invariant.                                         *)
(***************************************************************************)
\* The thread goes on with the same kernel.
LEMMA KernelKept ==
  ASSUME KTInv, NEW th \in Thread, Calling(th), NEW d \in Call, d.kernel = call[th].kernel,
         call' = [call EXCEPT ![th] = d], UNCHANGED <<launched, next_event_id>>,
         matcher_end' \in {matcher_end, call[th].kernel.id}
  PROVE  /\ IdsOK' /\ OneSelected'
         /\ call'[th] = d /\ \A u \in Thread \ {th} : call'[u] = call[u]
         /\ Calling(th)' /\ (InSelected(th)' <=> InSelected(th))
         /\ \A u \in Thread \ {th} : /\ Calling(u)' <=> Calling(u)
                                     /\ InSelected(u)' <=> InSelected(u)
  <1>1. call \in [Thread -> Call \cup {Host}] /\ launched \in Nat /\ next_event_id \in Nat
        /\ matcher_end \in Nat
    BY DEF KTInv, TypeOK
  <1>2. /\ call' \in [Thread -> Call \cup {Host}]
        /\ call'[th] = d /\ \A u \in Thread \ {th} : call'[u] = call[u]
    BY <1>1
  <1>3. call[th] \in Call /\ call[th].kernel.id \in Nat
    BY CallingCalls, CallFields DEF KTInv
  <1>4. d # Host
    BY CallFields
  <1>5. /\ Calling(th)' /\ (InSelected(th)' <=> InSelected(th))
        /\ \A u \in Thread \ {th} : (Calling(u)' <=> Calling(u)) /\ (InSelected(u)' <=> InSelected(u))
    BY <1>2, <1>4 DEF Calling, InSelected
  <1>6. \A u \in Thread : Calling(u)' => Calling(u) /\ call'[u].kernel = call[u].kernel
    BY <1>2, <1>5
  <1>7. OneSelected'
    BY <1>5 DEF KTInv, OneSelected
  <1>8. IdsOK'
    BY <1>6 DEF KTInv, IdsOK
  <1> QED BY <1>1, <1>2, <1>3, <1>5, <1>7, <1>8

LEMMA InitKTInv == Init => KTInv
  <1> SUFFICES ASSUME Init PROVE KTInv
    OBVIOUS
  <1> USE DEF Init, TimerListenerInit
  <1>1. \A th \in Thread : ~Calling(th) /\ call[th].pc = "host"
    BY DEF Calling, Host
  <1>2. TypeOK
    BY InitTypeOK
  <1>3. IdsOK
    BY <1>1, KernelTimerAssumption DEF IdsOK
  <1>4. OneSelected /\ InTheQueue
    BY DEF OneSelected, InSelected, InTheQueue
  <1>5. MatchedOK /\ SelectsBeginAndEnd /\ TimesTheKernel
    BY <1>1 DEF MatchedOK, HasTheId, connected, SelectsBeginAndEnd, SelectsPair, TimesTheKernel, closed
  <1> QED BY <1>2, <1>3, <1>4, <1>5 DEF KTInv

\* The program launches a kernel: the id is a new one.
LEMMA BeginKernelStep ==
  ASSUME ~Overlapping, KTInv, TypeOK', NEW th \in Thread,
         NEW queue \in Queue, NEW name \in Name, BeginKernel(th, queue, name)
  PROVE  KTInv'
  <1> DEFINE k == [number |-> launched + 1, id |-> next_event_id, queue |-> queue, name |-> name]
             d == [pc |-> "called", event |-> BeginEventType, matching |-> FALSE, kernel |-> k]
  <1> USE DEF KTInv
  <1>1. /\ call[th] = Host /\ launched < MaxKernels
        /\ Selects(queue, name) => \A other \in Thread : ~InSelected(other)
        /\ call' = [call EXCEPT ![th] = d]
        /\ launched' = launched + 1 /\ next_event_id' = next_event_id + 1
        /\ UNCHANGED <<matched_begin, matched_end, tick, tock, began, ended, since>>
        /\ UNCHANGED <<enqueued, matcher_end, timer_launch, timed>>
    BY DEF BeginKernel, listenerVars, flagVars, timerVars, matcherVars
  <1>2. /\ call \in [Thread -> Call \cup {Host}] /\ launched \in Nat /\ next_event_id \in Nat
        /\ matcher_end \in Nat /\ MaxKernels \in Nat /\ invalid_event_id \in Nat
        /\ MaxKernels <= invalid_event_id
    BY KernelTimerAssumption DEF TypeOK
  <1>3. k \in Kernel /\ k.id = next_event_id /\ k.queue = queue /\ k.name = name
    BY <1>2 DEF Kernel
  <1> HIDE DEF k
  <1>4. d \in Call /\ d.kernel = k /\ d.pc = "called" /\ d # Host
    <2>1. d \in Call /\ d.kernel = k /\ d.pc = "called"
      BY <1>3 DEF Call
    <2> HIDE DEF d
    <2> QED BY <2>1, CallFields
  <1> HIDE DEF d
  <1>5. /\ call' \in [Thread -> Call \cup {Host}] /\ call'[th] = d
        /\ \A u \in Thread \ {th} : call'[u] = call[u]
    BY <1>1, <1>2, <1>4
  <1>7. Calling(th)' /\ ~Calling(th) /\ ~InSelected(th)
    BY <1>1, <1>4, <1>5 DEF Calling, InSelected
  <1>8. \A u \in Thread \ {th} : /\ Calling(u)' <=> Calling(u)
                                 /\ InSelected(u)' <=> InSelected(u)
                                 /\ HasTheId(u)' <=> HasTheId(u)
    BY <1>1, <1>5 DEF Calling, InSelected, HasTheId
  <1>9. IdsOK'
    <2>1. launched' <= MaxKernels /\ next_event_id' <= launched'
      BY <1>1, <1>2 DEF IdsOK
    <2>2. matcher_end' = invalid_event_id \/ matcher_end' < next_event_id'
      BY <1>1, <1>2 DEF IdsOK
    <2>3. \A u \in Thread \ {th} :
            Calling(u)' => call'[u].kernel.id < next_event_id /\ call'[u].kernel.id \in Nat
      BY <1>5, <1>8, CallingCalls, CallFields DEF IdsOK
    <2>4. \A u \in Thread : Calling(u)' => call'[u].kernel.id < next_event_id'
      BY <1>1, <1>2, <1>3, <1>4, <1>5, <2>3
    <2>5. ASSUME NEW u \in Thread, NEW v \in Thread, Calling(u)', Calling(v)',
                 call'[u].kernel.id = call'[v].kernel.id
          PROVE  u = v
      <3>1. CASE u # th /\ v # th
        BY <1>5, <1>8, <2>5, <3>1 DEF IdsOK
      <3>2. CASE u = th /\ v # th
        BY <1>2, <1>3, <1>4, <1>5, <2>3, <2>5, <3>2
      <3>3. CASE u # th /\ v = th
        BY <1>2, <1>3, <1>4, <1>5, <2>3, <2>5, <3>3
      <3> QED BY <3>1, <3>2, <3>3
    <2> QED BY <2>1, <2>2, <2>4, <2>5 DEF IdsOK
  <1>10. OneSelected'
    <2>1. InSelected(th)' => Selects(queue, name)
      BY <1>3, <1>4, <1>5 DEF InSelected
    <2> QED BY <1>1, <1>8, <2>1 DEF OneSelected
  <1>11. InTheQueue' /\ TimesTheKernel' /\ SelectsBeginAndEnd'
    BY <1>1 DEF InTheQueue, TimesTheKernel, closed, SelectsBeginAndEnd, SelectsPair
  <1>12. MatchedOK'
    <2>1. ~HasTheId(th)'
      BY <1>1, <1>2, <1>3, <1>4, <1>5 DEF HasTheId, IdsOK
    <2>2. connected' = connected
      BY <1>1 DEF connected
    <2>3. \A u \in Thread \ {th} : (Timing(u)' <=> Timing(u)) /\ (Starting(u)' <=> Starting(u))
      BY <1>1, <1>5, <1>8 DEF Timing, Starting
    <2>4. ~Timing(th) /\ ~HasTheId(th)
      BY <1>7 DEF Timing, HasTheId
    <2>5. connected' => \E u \in Thread : Timing(u)'
      BY <2>2, <2>3, <2>4 DEF MatchedOK
    <2>6. ASSUME NEW u \in Thread \ {th}
          PROVE  /\ HasTheId(u)' => \/ Starting(u)' \/ (connected' /\ Timing(u)')
                                    \/ call'[u].event = EndEventType /\ call'[u].pc = "returned"
                 /\ call'[u].pc = "matched" /\ call'[u].matching => HasTheId(u)'
      BY <1>5, <1>8, <2>2, <2>3 DEF MatchedOK
    <2>7. call'[th].pc # "matched"
      BY <1>4, <1>5
    <2> QED BY <2>1, <2>5, <2>6, <2>7 DEF MatchedOK
  <1> QED BY <1>9, <1>10, <1>11, <1>12

\* A closed listener returns early.
LEMMA ReturnEarlyStep ==
  ASSUME KTInv, TypeOK', NEW th \in Thread, ReturnEarly(th)
  PROVE  KTInv'
  <1> DEFINE d == [call[th] EXCEPT !.pc = "returned"]
  <1> USE DEF KTInv
  <1>1. /\ call[th].pc = "called" /\ closed
        /\ call' = [call EXCEPT ![th] = d]
        /\ UNCHANGED <<matched_begin, matched_end, tick, tock, began, ended, since>>
        /\ UNCHANGED <<launched, next_event_id, enqueued, matcher_end, timer_launch, timed>>
    BY DEF ReturnEarly, listenerVars, flagVars, timerVars, matcherVars
  <1>2. call[th] \in Call /\ Calling(th)
    BY <1>1, CallingCalls DEF Stage
  <1>3. d \in Call /\ d.pc = "returned" /\ d.kernel = call[th].kernel
    <2>1. PICK c \in Call : c = call[th]
      BY <1>2
    <2>2. [c EXCEPT !.pc = "returned"] \in Call
      BY DEF Call
    <2> QED BY <2>1, <2>2 DEF Call
  <1> HIDE DEF d
  <1>4. /\ IdsOK' /\ OneSelected'
        /\ call'[th] = d /\ \A u \in Thread \ {th} : call'[u] = call[u]
        /\ \A u \in Thread \ {th} : /\ Calling(u)' <=> Calling(u)
                                    /\ InSelected(u)' <=> InSelected(u)
    BY <1>1, <1>2, <1>3, KernelKept
  <1>6. InTheQueue' /\ TimesTheKernel' /\ SelectsBeginAndEnd'
    BY <1>1 DEF InTheQueue, TimesTheKernel, closed, SelectsBeginAndEnd, SelectsPair
  <1>7. ~connected /\ ~connected' /\ matched_begin
    BY <1>1 DEF connected, closed
  <1>8. MatchedOK'
    <2>1. ~HasTheId(th)
      BY <1>1, <1>7 DEF MatchedOK, Starting
    <2>2. ~HasTheId(th)'
      BY <1>1, <1>2, <1>3, <1>4, <2>1 DEF HasTheId
    <2>3. ASSUME NEW u \in Thread \ {th}
          PROVE  /\ HasTheId(u)' => call'[u].event = EndEventType /\ call'[u].pc = "returned"
                 /\ call'[u].pc = "matched" /\ call'[u].matching => HasTheId(u)'
      BY <1>1, <1>4, <1>7 DEF MatchedOK, HasTheId, Starting
    <2> QED BY <1>3, <1>4, <1>7, <2>2, <2>3 DEF MatchedOK
  <1> QED BY <1>4, <1>6, <1>8

\* A begin event that is selected gives the matcher its id; an end event
\* matches if it has that id.
LEMMA AskMatcherStep ==
  ASSUME KTInv, TypeOK', NEW th \in Thread, AskMatcher(th)
  PROVE  KTInv'
  <1> DEFINE b == Matching(th)
             d == [call[th] EXCEPT !.pc = "matched", !.matching = b]
  <1> USE DEF KTInv
  <1>1. /\ call[th].pc = "called" /\ ~closed
        /\ call' = [call EXCEPT ![th] = d]
        /\ matcher_end' = IF call[th].event = BeginEventType /\ b
                          THEN call[th].kernel.id ELSE matcher_end
        /\ UNCHANGED <<matched_begin, matched_end, tick, tock, began, ended, since>>
        /\ UNCHANGED <<launched, next_event_id, enqueued, timer_launch, timed>>
    BY DEF AskMatcher, listenerVars, flagVars, timerVars, matcherVars
  <1>2. call[th] \in Call /\ Calling(th) /\ call[th].event \in Given
    BY <1>1, CallingCalls, CallFields DEF Stage
  <1>3. /\ b \in BOOLEAN
        /\ call[th].event = BeginEventType => (b <=> InSelected(th))
        /\ call[th].event # BeginEventType => (b <=> HasTheId(th))
    BY <1>2 DEF Matching, Selects, InSelected, HasTheId, Calling
  <1> HIDE DEF b
  <1>4. /\ d \in Call /\ d.pc = "matched" /\ d.event = call[th].event /\ d.matching = b
        /\ d.kernel = call[th].kernel
    <2>1. PICK c \in Call : c = call[th]
      BY <1>2
    <2> QED BY <1>3, <2>1 DEF Call
  <1> HIDE DEF d
  <1>5. /\ IdsOK' /\ OneSelected'
        /\ call'[th] = d /\ \A u \in Thread \ {th} : call'[u] = call[u]
        /\ Calling(th)' /\ (InSelected(th)' <=> InSelected(th))
        /\ \A u \in Thread \ {th} : /\ Calling(u)' <=> Calling(u)
                                    /\ InSelected(u)' <=> InSelected(u)
    BY <1>1, <1>2, <1>4, KernelKept
  <1>7. InTheQueue' /\ TimesTheKernel' /\ SelectsBeginAndEnd'
    BY <1>1 DEF InTheQueue, TimesTheKernel, closed, SelectsBeginAndEnd, SelectsPair
  <1>8. connected' = connected
    BY <1>1 DEF connected
  <1>9. CASE call[th].event = BeginEventType /\ InSelected(th)
    <2>1. /\ matcher_end' = call[th].kernel.id /\ b
          /\ \A u \in Thread : Timing(u) => u = th
      BY <1>1, <1>3, <1>9 DEF Timing, OneSelected
    <2>2. ~Timing(th)
      BY <1>1, <1>9, EventTypes DEF Timing
    <2>3. ~connected /\ ~connected' /\ ~matched_begin
      BY <1>1, <1>8, <2>1, <2>2 DEF MatchedOK, connected, closed, TypeOK, TimerListenerTypeOK
    <2>4. HasTheId(th)' /\ Starting(th)'
      BY <1>1, <1>4, <1>5, <1>9, <2>1, <2>3 DEF HasTheId, Starting
    <2>5. ASSUME NEW u \in Thread \ {th} PROVE ~HasTheId(u)'
      BY <1>2, <1>5, <2>1 DEF HasTheId, IdsOK
    <2>6. ASSUME NEW u \in Thread \ {th}, call[u].pc = "matched", call[u].matching PROVE FALSE
      <3>1. HasTheId(u) /\ (Starting(u) \/ Timing(u) \/ call[u].pc = "returned")
        BY <2>6 DEF MatchedOK
      <3>2. InSelected(u)
        BY <2>6, <3>1 DEF Starting, Timing
      <3> QED BY <1>9, <3>2 DEF OneSelected
    <2>7. MatchedOK'
      BY <1>5, <2>3, <2>4, <2>5, <2>6 DEF MatchedOK
    <2> QED BY <1>5, <1>7, <2>7
  <1>10. CASE ~(call[th].event = BeginEventType /\ InSelected(th))
    <2>1. matcher_end' = matcher_end
      BY <1>1, <1>3, <1>10
    <2>2. (HasTheId(th)' <=> HasTheId(th)) /\ \A u \in Thread \ {th} : HasTheId(u)' <=> HasTheId(u)
      BY <1>2, <1>4, <1>5, <2>1 DEF HasTheId
    <2>3. \A u \in Thread \ {th} : (Timing(u)' <=> Timing(u)) /\ (Starting(u)' <=> Starting(u))
      BY <1>1, <1>5, <2>1, <2>2 DEF Timing, Starting
    <2>4. b <=> HasTheId(th)
      <3>1. CASE call[th].event # BeginEventType
        BY <1>3, <3>1
      <3>2. CASE call[th].event = BeginEventType
        <4>1. ~b
          BY <1>3, <1>10, <3>2
        <4>2. ~HasTheId(th)
          BY <1>1, <3>2, EventTypes DEF MatchedOK, Starting, Timing
        <4> QED BY <4>1, <4>2
      <3> QED BY <3>1, <3>2
    <2>5. HasTheId(th) => connected /\ Timing(th) /\ call[th].event = EndEventType
      BY <1>1 DEF MatchedOK, Starting, Timing
    <2>6. Timing(th) => Timing(th)'
      <3> SUFFICES ASSUME Timing(th) PROVE Timing(th)'
        OBVIOUS
      <3>1. b /\ HasTheId(th)'
        BY <2>2, <2>4 DEF Timing
      <3>2. call[th].event = EndEventType
        BY <1>1 DEF Timing
      <3> QED BY <1>1, <1>4, <1>5, <2>1, <3>1, <3>2 DEF Timing
    <2>7. MatchedOK'
      <3>1. connected' => \E u \in Thread : Timing(u)'
        BY <1>8, <2>3, <2>6 DEF MatchedOK
      <3>2. HasTheId(th)' => connected' /\ Timing(th)'
        BY <1>8, <2>2, <2>5, <2>6
      <3>3. call'[th].matching => HasTheId(th)'
        BY <1>4, <1>5, <2>2, <2>4
      <3>4. ASSUME NEW u \in Thread \ {th}
            PROVE  /\ HasTheId(u)' => \/ Starting(u)' \/ (connected' /\ Timing(u)')
                                      \/ call'[u].event = EndEventType /\ call'[u].pc = "returned"
                   /\ call'[u].pc = "matched" /\ call'[u].matching => HasTheId(u)'
        BY <1>5, <1>8, <2>2, <2>3 DEF MatchedOK
      <3> QED BY <3>1, <3>2, <3>3, <3>4 DEF MatchedOK
    <2> QED BY <1>5, <1>7, <2>7
  <1> QED BY <1>9, <1>10

\* A matched begin event starts the timer, a matched end event stops it.
LEMMA DecideStep ==
  ASSUME KTInv, TypeOK', NEW th \in Thread, Decide(th)
  PROVE  KTInv'
  <1> DEFINE d == [call[th] EXCEPT !.pc = "returned"]
             n == Len(enqueued)
  <1> USE DEF KTInv
  <1>1. /\ call[th].pc = "matched"
        /\ call' = [call EXCEPT ![th] = d]
        /\ Branch(call[th].event, call[th].matching, n + 1)
        /\ \/ call[th].matching /\ ~matched_begin /\ StartTimer(th)
           \/ call[th].matching /\ connected /\ StopTimer(th)
           \/ (~call[th].matching \/ closed) /\ UNCHANGED <<enqueued, timer_launch, timed>>
        /\ UNCHANGED <<launched, next_event_id, matcher_end>>
    BY DEF Decide
  <1>2. call[th] \in Call /\ Calling(th) /\ call[th].matching \in BOOLEAN
    BY <1>1, CallingCalls, CallFields DEF Stage
  <1>3. /\ d \in Call /\ d.pc = "returned" /\ d.event = call[th].event /\ d.kernel = call[th].kernel
    <2>1. PICK c \in Call : c = call[th]
      BY <1>2
    <2>2. [c EXCEPT !.pc = "returned"] \in Call
      BY DEF Call
    <2> QED BY <2>1, <2>2 DEF Call
  <1> HIDE DEF d
  <1>4. /\ IdsOK' /\ OneSelected'
        /\ call'[th] = d /\ \A u \in Thread \ {th} : call'[u] = call[u]
        /\ Calling(th)' /\ (InSelected(th)' <=> InSelected(th))
        /\ \A u \in Thread \ {th} : /\ Calling(u)' <=> Calling(u)
                                    /\ InSelected(u)' <=> InSelected(u)
    BY <1>1, <1>2, <1>3, KernelKept
  <1>5. (HasTheId(th)' <=> HasTheId(th)) /\ \A u \in Thread \ {th} : HasTheId(u)' <=> HasTheId(u)
    BY <1>1, <1>2, <1>3, <1>4 DEF HasTheId
  <1>6. /\ enqueued \in Seq(Nat) /\ n \in Nat /\ DOMAIN enqueued = 1 .. n
        /\ since \in Nat /\ tick \in Nat /\ tock \in Nat /\ since <= n /\ tick <= n
        /\ tock <= n /\ matched_begin \in BOOLEAN /\ matched_end \in BOOLEAN /\ (matched_end => matched_begin)
        /\ timer_launch \in [start : Nat, stop : Nat] /\ timed \in Nat
        /\ began \in EventTypeList \cup {NoEvent} /\ ended \in EventTypeList \cup {NoEvent}
    <2>1. TypeOK /\ InTheQueue
      OBVIOUS
    <2> HIDE DEF KTInv, d
    <2>2. enqueued \in Seq(Nat) /\ n \in Nat /\ DOMAIN enqueued = 1 .. n
      BY <2>1 DEF TypeOK
    <2> QED BY <2>1, <2>2 DEF TypeOK, TimerListenerTypeOK, InTheQueue
  <1>7. Append(enqueued, 0) \in Seq(Nat) /\ Len(Append(enqueued, 0)) = n + 1
        /\ \A i \in 1 .. n : Append(enqueued, 0)[i] = enqueued[i]
    BY <1>6, AppendProperties
  <1> HIDE DEF n
  <1>8. CASE /\ ~call[th].matching \/ closed
             /\ UNCHANGED <<enqueued, timer_launch, timed>>
    <2>1. UNCHANGED <<matched_begin, matched_end, tick, tock, began, ended, since>>
      BY <1>1, <1>8 DEF Branch, MatchBegin, MatchEnd, closed, listenerVars, flagVars, timerVars
    <2>3. InTheQueue' /\ TimesTheKernel' /\ SelectsBeginAndEnd' /\ connected' = connected
      BY <1>8, <2>1 DEF InTheQueue, TimesTheKernel, closed, connected, SelectsBeginAndEnd, SelectsPair
    <2>4. \A u \in Thread \ {th} : (Timing(u)' <=> Timing(u)) /\ (Starting(u)' <=> Starting(u))
      BY <1>1, <1>4, <1>5, <1>8, <2>1 DEF Timing, Starting
    <2>5. ~HasTheId(th)
      <3>1. CASE ~call[th].matching
        BY <1>1, <3>1 DEF MatchedOK, Starting, Timing
      <3>2. CASE closed
        BY <1>1, <3>2 DEF MatchedOK, Starting, connected, closed
      <3> QED BY <1>8, <3>1, <3>2
    <2>6. MatchedOK'
      <3>1. ~Timing(th)
        BY <2>5 DEF Timing
      <3>2. connected' => \E u \in Thread : Timing(u)'
        BY <2>3, <2>4, <3>1 DEF MatchedOK
      <3>3. ASSUME NEW u \in Thread \ {th}
            PROVE  /\ HasTheId(u)' => \/ Starting(u)' \/ (connected' /\ Timing(u)')
                                      \/ call'[u].event = EndEventType /\ call'[u].pc = "returned"
                   /\ call'[u].pc = "matched" /\ call'[u].matching => HasTheId(u)'
        BY <1>4, <1>5, <2>3, <2>4 DEF MatchedOK
      <3> QED BY <1>3, <1>4, <1>5, <2>5, <3>2, <3>3 DEF MatchedOK
    <2> QED BY <1>4, <2>3, <2>6
  <1>9. ASSUME call[th].matching, ~closed
        PROVE  /\ HasTheId(th) /\ InSelected(th)
               /\ \A u \in Thread \ {th} :
                    ~HasTheId(u) /\ (call[u].pc = "matched" => ~call[u].matching)
    <2>1. HasTheId(th) /\ InSelected(th)
      BY <1>1, <1>9 DEF MatchedOK, Starting, Timing
    <2>2. \A u \in Thread \ {th} : ~HasTheId(u)
      BY <2>1 DEF HasTheId, IdsOK
    <2> QED BY <2>1, <2>2 DEF MatchedOK
  <1>10. CASE call[th].matching /\ ~matched_begin /\ StartTimer(th)
    <2>1. ~closed /\ ~connected
      BY <1>10 DEF closed, connected
    <2>2. Starting(th) /\ call[th].event = BeginEventType
      BY <1>1, <1>9, <1>10, <2>1 DEF MatchedOK, Starting
    <2>3. /\ enqueued' = Append(enqueued, 0)
          /\ timer_launch' = IF WithLaunch THEN [timer_launch EXCEPT !.start = Len(enqueued')]
                                           ELSE timer_launch
          /\ timed' = call[th].kernel.number
      BY <1>10, <2>2, EventTypes DEF StartTimer, record
    <2>4. /\ matched_begin' = TRUE /\ began' = BeginEventType /\ tick' = n + 1
          /\ UNCHANGED <<matched_end, tock, ended, since>>
      BY <1>1, <1>10, <2>1, <2>2, EventTypes DEF Branch, MatchBegin, MatchEnd, start
    <2>5. ~matched_end /\ connected' /\ ~closed'
      BY <1>6, <1>10, <2>4 DEF connected, closed
    <2>6. timer_launch' \in [start : Nat, stop : Nat] /\ (WithLaunch => timer_launch'.start = n + 1)
      <3>1. Len(enqueued') = n + 1 /\ n + 1 \in Nat
        BY <1>6, <1>7, <2>3
      <3> QED BY <1>6, <2>3, <3>1
    <2>8. SelectsBeginAndEnd'
      BY <2>4, <2>5 DEF SelectsBeginAndEnd, SelectsPair
    <2>9. InTheQueue' /\ TimesTheKernel'
      BY <1>6, <1>7, <2>3, <2>4, <2>5 DEF InTheQueue, TimesTheKernel
    <2>10. Timing(th)'
      <3>1. since' < tick'
        BY <1>6, <2>4
      <3>2. HasTheId(th)' /\ InSelected(th)' /\ call'[th].kernel.number = timed'
            /\ call'[th].event = BeginEventType /\ call'[th].pc = "returned"
        BY <1>3, <1>4, <1>5, <1>9, <1>10, <2>1, <2>2, <2>3
      <3> QED BY <2>4, <2>6, <3>1, <3>2 DEF Timing
    <2>11. MatchedOK'
      <3>1. call'[th].pc # "matched"
        BY <1>3, <1>4
      <3>2. \A u \in Thread \ {th} :
              ~HasTheId(u)' /\ (call'[u].pc = "matched" => ~call'[u].matching)
        BY <1>4, <1>5, <1>9, <1>10, <2>1
      <3> QED BY <2>5, <2>10, <3>1, <3>2 DEF MatchedOK
    <2> QED BY <1>4, <2>8, <2>9, <2>11
  <1>11. CASE call[th].matching /\ connected /\ StopTimer(th)
    <2>1. ~closed /\ matched_begin
      BY <1>11 DEF closed, connected
    <2>2. Timing(th) /\ call[th].event = EndEventType
      BY <1>1, <1>9, <1>11, <2>1 DEF MatchedOK, Starting, Timing
    <2>3. /\ enqueued' = Append(enqueued, 0)
          /\ timer_launch' = IF WithLaunch THEN [timer_launch EXCEPT !.stop = n] ELSE timer_launch
          /\ timed' = timed
      BY <1>11 DEF StopTimer, record, n
    <2>4. /\ matched_end' = TRUE /\ ended' = EndEventType /\ tock' = n + 1
          /\ UNCHANGED <<matched_begin, tick, began, since>>
      BY <1>1, <1>11, <2>1, <2>2 DEF Branch, MatchBegin, MatchEnd, stop
    <2>5. ~connected' /\ closed'
      BY <2>1, <2>4 DEF connected, closed
    <2>6. /\ timer_launch' \in [start : Nat, stop : Nat]
          /\ WithLaunch => timer_launch'.start = timer_launch.start /\ timer_launch'.stop = n
      BY <1>6, <2>3
    <2>7. SelectsBeginAndEnd'
      BY <2>1, <2>4 DEF SelectsBeginAndEnd, SelectsPair, EndEventType
    <2>8. InTheQueue'
      BY <1>6, <1>7, <2>3, <2>4 DEF InTheQueue
    <2>9. TimesTheKernel'
      <3>1. PICK i \in tick + 1 .. n : enqueued[i] = timed
        BY <2>2, EventTypes DEF Timing, n
      <3>2. since < tick /\ (WithLaunch => timer_launch.start = tick)
        BY <2>2 DEF Timing
      <3>3. i \in tick' + 1 .. tock' - 1 /\ enqueued'[i] = timed'
        <4>1. i \in 1 .. n /\ tick' + 1 = tick + 1 /\ tock' - 1 = n
          BY <1>6, <2>4, <3>1
        <4> QED BY <1>7, <2>3, <3>1, <4>1
      <3>4. WithLaunch => /\ timer_launch'.start \in tick' .. i - 1
                          /\ timer_launch'.stop \in i .. tock' - 1
        BY <1>6, <2>4, <2>6, <3>1, <3>2
      <3> QED BY <2>4, <3>2, <3>3, <3>4 DEF TimesTheKernel
    <2>10. MatchedOK'
      <3>1. call'[th].event = EndEventType /\ call'[th].pc = "returned"
        BY <1>3, <1>4, <2>2
      <3>2. \A u \in Thread \ {th} :
              ~HasTheId(u)' /\ (call'[u].pc = "matched" => ~call'[u].matching)
        BY <1>4, <1>5, <1>9, <1>11, <2>1
      <3> QED BY <2>5, <3>1, <3>2 DEF MatchedOK
    <2> QED BY <1>4, <2>7, <2>8, <2>9, <2>10
  <1> QED BY <1>1, <1>8, <1>10, <1>11

\* The kernel is enqueued behind the recording of its begin.
LEMMA LaunchKernelStep ==
  ASSUME KTInv, TypeOK', NEW th \in Thread, LaunchKernel(th)
  PROVE  KTInv'
  <1> DEFINE d == [call[th] EXCEPT !.pc = "called", !.event = EndEventType, !.matching = FALSE]
             n == Len(enqueued)
             k == call[th].kernel
  <1> USE DEF KTInv
  <1>1. /\ call[th].pc = "returned" /\ call[th].event = BeginEventType
        /\ call' = [call EXCEPT ![th] = d]
        /\ enqueued' = IF k.queue = exec THEN Append(enqueued, k.number) ELSE enqueued
        /\ UNCHANGED <<matched_begin, matched_end, tick, tock, began, ended, since>>
        /\ UNCHANGED <<launched, next_event_id, matcher_end, timer_launch, timed>>
    BY DEF LaunchKernel, listenerVars, flagVars, timerVars, matcherVars
  <1>2. call[th] \in Call /\ Calling(th) /\ k.number \in Nat
    BY <1>1, CallingCalls, CallFields DEF Stage
  <1>3. /\ d \in Call /\ d.pc = "called" /\ d.event = EndEventType /\ d.kernel = k
    <2>1. PICK c \in Call : c = call[th]
      BY <1>2
    <2>2. [c EXCEPT !.pc = "called", !.event = EndEventType, !.matching = FALSE] \in Call
      BY DEF Call
    <2> QED BY <2>1, <2>2 DEF Call
  <1> HIDE DEF d
  <1>4. /\ IdsOK' /\ OneSelected'
        /\ call'[th] = d /\ \A u \in Thread \ {th} : call'[u] = call[u]
        /\ Calling(th)' /\ (InSelected(th)' <=> InSelected(th))
        /\ \A u \in Thread \ {th} : /\ Calling(u)' <=> Calling(u)
                                    /\ InSelected(u)' <=> InSelected(u)
    BY <1>1, <1>2, <1>3, KernelKept
  <1>5. (HasTheId(th)' <=> HasTheId(th)) /\ \A u \in Thread \ {th} : HasTheId(u)' <=> HasTheId(u)
    BY <1>1, <1>2, <1>3, <1>4 DEF HasTheId
  <1>6. enqueued \in Seq(Nat) /\ n \in Nat /\ since \in Nat /\ tick \in Nat /\ since <= n /\ tick <= n
        /\ tock \in Nat /\ tock <= n
    BY DEF TypeOK, TimerListenerTypeOK, InTheQueue
  <1>7. /\ Append(enqueued, k.number) \in Seq(Nat) /\ Len(Append(enqueued, k.number)) = n + 1
        /\ \A i \in 1 .. n : Append(enqueued, k.number)[i] = enqueued[i]
        /\ Append(enqueued, k.number)[n + 1] = k.number
    BY <1>2, <1>6, AppendProperties
  <1> HIDE DEF n
  <1>8. /\ enqueued' \in Seq(Nat) /\ Len(enqueued') \in Nat /\ Len(enqueued') >= n
        /\ \A i \in 1 .. n : enqueued'[i] = enqueued[i]
    BY <1>1, <1>6, <1>7 DEF n
  <1>9. SelectsBeginAndEnd'
    BY <1>1 DEF SelectsBeginAndEnd, SelectsPair
  <1>10. InTheQueue' /\ closed' = closed /\ connected' = connected
    BY <1>1, <1>6, <1>8 DEF InTheQueue, closed, connected
  <1>11. MatchedOK'
    <2>1. Timing(th) => Timing(th)'
      <3> SUFFICES ASSUME Timing(th) PROVE Timing(th)'
        OBVIOUS
      <3>1. k.queue = exec /\ k.number = timed
        BY DEF Timing, InSelected, Selects
      <3>2. n + 1 \in tick' + 1 .. Len(enqueued') /\ enqueued'[n + 1] = timed'
        BY <1>1, <1>6, <1>7, <3>1
      <3>3. /\ HasTheId(th)' /\ InSelected(th)' /\ call'[th].kernel.number = timed'
            /\ call'[th].event = EndEventType /\ call'[th].pc = "called"
            /\ since' < tick' /\ (WithLaunch => timer_launch'.start = tick')
        BY <1>1, <1>3, <1>4, <1>5, <3>1 DEF Timing
      <3> QED BY <3>2, <3>3 DEF Timing
    <2>2. \A u \in Thread \ {th} : ~Timing(u) \/ Timing(u)'
      <3> SUFFICES ASSUME NEW u \in Thread \ {th}, Timing(u) PROVE Timing(u)'
        OBVIOUS
      <3>1. CASE call[u].event = BeginEventType /\ call[u].pc = "returned"
        BY <1>1, <1>4, <1>5, <3>1 DEF Timing
      <3>2. CASE \E i \in tick + 1 .. n : enqueued[i] = timed
        <4>1. PICK i \in tick + 1 .. n : enqueued[i] = timed
          BY <3>2
        <4>2. i \in tick' + 1 .. Len(enqueued') /\ enqueued'[i] = timed'
          BY <1>1, <1>6, <1>8, <4>1
        <4> QED BY <1>1, <1>4, <1>5, <4>2 DEF Timing
      <3> QED BY <3>1, <3>2 DEF Timing, n
    <2>3. connected' => \E u \in Thread : Timing(u)'
      BY <1>10, <2>1, <2>2 DEF MatchedOK
    <2>4. HasTheId(th)' => connected' /\ Timing(th)'
      BY <1>1, <1>5, <1>10, <2>1, EventTypes DEF MatchedOK, Starting
    <2>5. call'[th].pc # "matched"
      BY <1>3, <1>4
    <2>6. ASSUME NEW u \in Thread \ {th}
          PROVE  /\ HasTheId(u)' => \/ Starting(u)' \/ (connected' /\ Timing(u)')
                                    \/ call'[u].event = EndEventType /\ call'[u].pc = "returned"
                 /\ call'[u].pc = "matched" /\ call'[u].matching => HasTheId(u)'
      <3>1. Starting(u)' <=> Starting(u)
        BY <1>1, <1>4 DEF Starting
      <3> QED BY <1>4, <1>5, <1>10, <2>2, <3>1 DEF MatchedOK
    <2> QED BY <2>3, <2>4, <2>5, <2>6 DEF MatchedOK
  <1>12. TimesTheKernel'
    <2> SUFFICES ASSUME closed
                 PROVE  /\ since < tick
                        /\ \E i \in tick + 1 .. tock - 1 :
                             /\ enqueued'[i] = timed
                             /\ WithLaunch => /\ timer_launch.start \in tick .. i - 1
                                              /\ timer_launch.stop \in i .. tock - 1
      BY <1>1, <1>10 DEF TimesTheKernel
    <2>1. PICK i \in tick + 1 .. tock - 1 :
            /\ enqueued[i] = timed
            /\ WithLaunch => /\ timer_launch.start \in tick .. i - 1
                             /\ timer_launch.stop \in i .. tock - 1
      BY DEF TimesTheKernel
    <2>2. i \in 1 .. n
      BY <1>6, <2>1
    <2> QED BY <1>8, <2>1, <2>2 DEF TimesTheKernel
  <1> QED BY <1>4, <1>9, <1>10, <1>11, <1>12

\* The thread is done with its kernel, which is not the one being timed.
LEMMA ReturnStep ==
  ASSUME KTInv, TypeOK', NEW th \in Thread, Return(th)
  PROVE  KTInv'
  <1> USE DEF KTInv
  <1>1. /\ call[th].pc = "returned" /\ call[th].event = EndEventType
        /\ call' = [call EXCEPT ![th] = Host]
        /\ UNCHANGED <<matched_begin, matched_end, tick, tock, began, ended, since>>
        /\ UNCHANGED <<launched, next_event_id, enqueued, matcher_end, timer_launch, timed>>
    BY DEF Return, listenerVars, flagVars, timerVars, matcherVars
  <1>2. /\ call' \in [Thread -> Call \cup {Host}]
        /\ call'[th] = Host /\ \A u \in Thread \ {th} : call'[u] = call[u]
    BY <1>1 DEF TypeOK
  <1>3. ~Calling(th)' /\ ~InSelected(th)' /\ ~HasTheId(th)' /\ call'[th].pc # "matched"
    BY <1>2 DEF Calling, InSelected, HasTheId, Host
  <1>4. \A u \in Thread \ {th} :
          /\ Calling(u)' <=> Calling(u)
          /\ InSelected(u)' <=> InSelected(u)
          /\ HasTheId(u)' <=> HasTheId(u)
    BY <1>1, <1>2 DEF Calling, InSelected, HasTheId
  <1>6. IdsOK'
    BY <1>1, <1>2, <1>3, <1>4 DEF IdsOK
  <1>7. OneSelected' /\ InTheQueue' /\ TimesTheKernel' /\ SelectsBeginAndEnd'
    BY <1>1, <1>3, <1>4
       DEF OneSelected, InTheQueue, TimesTheKernel, closed, SelectsBeginAndEnd, SelectsPair
  <1>8. MatchedOK'
    <2>1. ~Timing(th)
      BY <1>1, EventTypes DEF Timing
    <2>2. \A u \in Thread \ {th} : (Timing(u)' <=> Timing(u)) /\ (Starting(u)' <=> Starting(u))
      BY <1>1, <1>2, <1>4 DEF Timing, Starting
    <2>3. connected' = connected
      BY <1>1 DEF connected
    <2>4. connected' => \E u \in Thread : Timing(u)'
      BY <2>1, <2>2, <2>3 DEF MatchedOK
    <2>5. ASSUME NEW u \in Thread \ {th}
          PROVE  /\ HasTheId(u)' => \/ Starting(u)' \/ (connected' /\ Timing(u)')
                                    \/ call'[u].event = EndEventType /\ call'[u].pc = "returned"
                 /\ call'[u].pc = "matched" /\ call'[u].matching => HasTheId(u)'
      BY <1>2, <1>4, <2>2, <2>3 DEF MatchedOK
    <2> QED BY <1>3, <2>4, <2>5 DEF MatchedOK
  <1> QED BY <1>6, <1>7, <1>8

LEMMA ResetStep ==
  ASSUME KTInv, TypeOK', Reset
  PROVE  KTInv'
  <1> USE DEF KTInv
  <1>1. /\ closed /\ matched_begin' = FALSE /\ matched_end' = FALSE /\ since' = Len(enqueued)
        /\ UNCHANGED <<tick, tock, began, ended>>
        /\ UNCHANGED <<call, launched, next_event_id, enqueued, matcher_end, timer_launch, timed>>
    BY DEF Reset, reset, timerVars, matcherVars
  <1>2. ~connected /\ ~connected' /\ ~closed' /\ Len(enqueued) \in Nat
    BY <1>1 DEF connected, closed, TypeOK
  <1>4. IdsOK' /\ OneSelected'
    BY <1>1 DEF IdsOK, Calling, OneSelected, InSelected
  <1>5. InTheQueue'
    BY <1>1, <1>2 DEF InTheQueue
  <1>6. TimesTheKernel' /\ SelectsBeginAndEnd'
    BY <1>1, <1>2 DEF TimesTheKernel, SelectsBeginAndEnd, SelectsPair
  <1>7. MatchedOK'
    <2>1. \A u \in Thread : HasTheId(u)' <=> HasTheId(u)
      BY <1>1 DEF HasTheId, Calling
    <2>2. \A u \in Thread : ~Starting(u)
      BY <1>1 DEF Starting, closed
    <2> QED BY <1>1, <1>2, <2>1, <2>2 DEF MatchedOK
  <1> QED BY <1>4, <1>5, <1>6, <1>7

\* The matcher has no id that the new manager could give again.
LEMMA ReinitializeStep ==
  ASSUME KTInv, TypeOK', Reinitialize
  PROVE  KTInv'
  <1> USE DEF KTInv
  <1>1. /\ matcher_end = invalid_event_id /\ next_event_id' = 0 /\ \A th \in Thread : call[th] = Host
        /\ UNCHANGED <<matched_begin, matched_end, tick, tock, began, ended, since>>
        /\ UNCHANGED <<call, launched, enqueued, matcher_end, timer_launch, timed>>
    BY DEF Reinitialize, listenerVars, flagVars, timerVars, matcherVars
  <1>3. launched \in Nat
    BY DEF TypeOK
  <1>4. IdsOK' /\ OneSelected'
    BY <1>1, <1>3 DEF IdsOK, Calling, OneSelected, InSelected
  <1>5. InTheQueue' /\ TimesTheKernel' /\ SelectsBeginAndEnd'
    BY <1>1 DEF InTheQueue, TimesTheKernel, closed, SelectsBeginAndEnd, SelectsPair
  <1>6. MatchedOK'
    <2>1. \A u \in Thread : ~HasTheId(u) /\ ~HasTheId(u)' /\ call'[u].pc # "matched"
      BY <1>1 DEF HasTheId, Calling, Host
    <2>2. ~connected /\ ~connected'
      BY <1>1, <2>1 DEF MatchedOK, Timing, connected
    <2> QED BY <2>1, <2>2 DEF MatchedOK
  <1> QED BY <1>4, <1>5, <1>6

LEMMA NextKTInv ==
  ASSUME ~Overlapping
  PROVE  KTInv /\ [Next]_vars => KTInv'
  <1> SUFFICES ASSUME KTInv, [Next]_vars PROVE KTInv'
    OBVIOUS
  <1>0. TypeOK'
    BY NextTypeOK DEF KTInv
  <1>1. ASSUME NEW th \in Thread, Advance(th) PROVE KTInv'
    BY <1>0, <1>1, ReturnEarlyStep, AskMatcherStep, DecideStep, LaunchKernelStep, ReturnStep DEF Advance
  <1>2. ASSUME NEW th \in Thread, NEW queue \in Queue, NEW name \in Name, BeginKernel(th, queue, name)
        PROVE  KTInv'
    BY <1>0, <1>2, BeginKernelStep
  <1>3. CASE Reset
    BY <1>0, <1>3, ResetStep
  <1>4. CASE Reinitialize
    BY <1>0, <1>4, ReinitializeStep
  <1>5. CASE UNCHANGED vars
    <2> USE <1>5 DEF vars, listenerVars, flagVars, timerVars, matcherVars, KTInv
    <2>2. IdsOK' /\ OneSelected'
      BY DEF IdsOK, Calling, OneSelected, InSelected
    <2>3. InTheQueue' /\ TimesTheKernel' /\ SelectsBeginAndEnd'
      BY DEF InTheQueue, TimesTheKernel, closed, SelectsBeginAndEnd, SelectsPair
    <2>4. MatchedOK'
      BY DEF MatchedOK, HasTheId, Calling, Timing, Starting, InSelected, connected
    <2> QED BY <1>0, <2>2, <2>3, <2>4
  <1> QED BY <1>1, <1>2, <1>3, <1>4, <1>5 DEF Next

\* Whatever the threads do, kernels that overlap included, the members stay of
\* their types (TimerListener, EventBeginEndIdMatcher).
THEOREM TypeOKHolds == Spec => []TypeOK
  BY InitTypeOK, NextTypeOK, PTL DEF Spec

\* The duration of a closed listener is that of the kernel whose begin event
\* it matched: the kernel lies between the two recordings, for any number of
\* other kernels, queues and threads and however their calls of the listener
\* interleave (TimerListener::operator(), EventBeginEndIdMatcher,
\* EnqueuedEventTimer, EnqueuedEventWithLaunchTimer).
THEOREM TimesTheKernelHolds ==
  ASSUME ~Overlapping
  PROVE  Spec => []TimesTheKernel
  <1>1. KTInv => TimesTheKernel
    BY DEF KTInv
  <1> QED BY <1>1, InitKTInv, NextKTInv, PTL DEF Spec

\* The listener starts its timer for a begin event and stops it for an end
\* event, as TimerListener.hpp:31-36 says, for a program that has one kernel
\* the matcher accepts in flight at a time, with any number of other kernels
\* around it (EventBeginEndIdMatcher, TimerListener::operator()).
THEOREM SelectsBeginAndEndHolds ==
  ASSUME ~Overlapping
  PROVE  Spec => []SelectsBeginAndEnd
  <1>1. KTInv => SelectsBeginAndEnd
    BY DEF KTInv
  <1> QED BY <1>1, InitKTInv, NextKTInv, PTL DEF Spec
=============================================================================
