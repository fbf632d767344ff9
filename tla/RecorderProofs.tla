--------------------------- MODULE RecorderProofs ---------------------------
(***************************************************************************)
(* A program with recorders is a program of the Manager, and its recorders *)
(* record what they promise, for every set of threads and recorders.       *)
(***************************************************************************)
EXTENDS Recorder, ManagerProofs, FiniteSetTheorems

\* What a thread of the program makes Kokkos emit: an event and its name.
LEMMA EmittedProperties ==
  ASSUME NEW th \in Thread, NEW e \in EmittedBy[th]
  PROVE  e[1] \in Emitted /\ e[1] \in EventType /\ e[2] \in Name \cup {NoName}
  <1>1. e \in Emitted \X (Name \cup {NoName})
    BY RecorderAssumption
  <1>2. Emitted \subseteq EventType
    BY ManagerAssumption DEF EventType
  <1> QED BY <1>1, <1>2

\* Every event is emitted with some id.
LEMMA EmitAboutEmits ==
  ASSUME NEW th, NEW t, NEW i, EmitAbout(th, t, i)
  PROVE  \E id : Emit(th, t, id)
  <1>1. CASE EmitOpening(th, t)
    BY <1>1 DEF EmitOpening
  <1>2. CASE EmitOther(th, t)
    BY <1>2 DEF EmitOther
  <1>3. CASE EmitSection(th, t, i)
    BY <1>3 DEF EmitSection
  <1>4. CASE t = paired_event[open[th][i].type] /\ EmitClosing(th, i)
    BY <1>4 DEF EmitClosing
  <1> QED BY <1>1, <1>2, <1>3, <1>4 DEF EmitAbout

\* Every step of record(), of a recorder's operator() and of the threads that
\* emit is one of the Manager, or leaves it alone.
LEMMA RecorderStep == IInv /\ [RecorderNext]_rvars => [Next]_vars
  <1> SUFFICES ASSUME IInv, [RecorderNext]_rvars PROVE [Next]_vars
    OBVIOUS
  <1>1. CASE Lifecycle
    BY <1>1 DEF Lifecycle, Next
  <1>2. ASSUME NEW r \in Callable, RecordBegin(r) PROVE Next
    <2>1. register_listener(Main, r, TRUE) /\ Main \in Thread
      BY <1>2, RecorderAssumption DEF RecordBegin
    <2> QED BY <2>1 DEF Next, ChangeListeners
  <1>3. CASE RecordReturn
    <2>1. unregister_pointer(Main, Last(running)) /\ Main \in Thread
      BY <1>3, RecorderAssumption DEF RecordReturn
    <2>2. \E c \in Callable : unregister_pointer(Main, c)
      <3>1. PICK i \in DOMAIN listeners :
              callable[listeners[i]] = [of |-> Last(running), shared |-> TRUE]
        BY <2>1 DEF unregister_pointer
      <3>2. callable[listeners[i]] \in Model
        BY DEF IInv, TypeOK, Nodes, Range
      <3>3. [of |-> Last(running), shared |-> TRUE].of \in Callable
        BY <3>1, <3>2 DEF Model
      <3> QED BY <2>1, <3>3
    <2> QED BY <2>1, <2>2 DEF Next, ChangeListeners
  <1>4. CASE RecordThrow
    BY <1>4 DEF RecordThrow
  <1>5. ASSUME NEW th \in Thread, EmitRecorded(th) \/ EmitUnheard(th) PROVE Next
    <2>1. PICK e \in EmittedBy[th], i \in 0 .. Len(open[th]) : EmitAbout(th, e[1], i)
      BY <1>5 DEF EmitRecorded, EmitUnheard
    <2>2. e[1] \in Emitted
      BY EmittedProperties
    <2>3. EmitEvent(th)
      BY <2>1, <2>2 DEF EmitAbout, EmitEvent, EmitSection, Sections
    <2> QED BY <2>3 DEF Next
  <1>6. ASSUME NEW th \in Thread, Record(th) PROVE [Next]_vars
    <2>1. CASE CallContext(th) \/ Enter(th) \/ Leave(th)
      BY <2>1 DEF CallContext, Enter, Leave, Next, Advance
    <2>2. CASE AskMatcher(th) \/ Lock(th) \/ PushBack(th)
      BY <2>2 DEF AskMatcher, Lock, PushBack
    <2> QED BY <1>6, <2>1, <2>2 DEF Record
  <1>7. CASE UNCHANGED rvars
    BY <1>7 DEF rvars
  <1> QED BY <1>1, <1>2, <1>3, <1>4, <1>5, <1>6, <1>7 DEF RecorderNext

\* A program with recorders implements the Manager's specification, so all
\* that is proved of the Manager holds of it (RecorderListener.hpp uses the
\* Manager through its public members only).
THEOREM RecorderImplementsManager == RecorderSpec => Spec
  <1>1. RecorderInit => Init /\ IInv
    BY InitIInv DEF RecorderInit
  <1>2. IInv /\ [RecorderNext]_rvars => IInv'
    BY RecorderStep, NextIInv
  <1> QED BY <1>1, <1>2, RecorderStep, PTL DEF RecorderSpec, Spec
-----------------------------------------------------------------------------
(***************************************************************************)
(* What the recorders record.                                              *)
(***************************************************************************)
RecorderShape ==
  /\ recorded_events \in [Callable -> Seq(Nat)]
  /\ mtx \in [Callable -> Thread \cup {NoThread}]
  /\ body \in [Thread -> {"returned", "entered", "matched", "locked"}]
  /\ size \in [Thread -> Nat]
  /\ running \in Seq(Callable)
  /\ history \in Seq(Emission)
  /\ current \in [Thread -> Nat]
  /\ since \in [Callable -> Nat]

\* A thread is in operator() only within the walk of a dispatch, and the event
\* it dispatches is the last of its own.  The thread that holds the mutex has
\* read the end of what is recorded.
ThreadOK(th) ==
  /\ frame[th].pc # "listeners"
  /\ frame[th].pc = "idle" <=> current[th] = 0
  /\ body[th] # "returned" => Walking(th) /\ frame[th].cursor # NoNode
  /\ current[th] # 0 =>
       /\ current[th] \in DOMAIN history
       /\ history[current[th]].thread = th
       /\ history[current[th]].type = frame[th].type
       /\ \A s \in DOMAIN history : history[s].thread = th => s <= current[th]
  /\ body[th] = "locked" => /\ mtx[Listening(th)] = th
                            /\ size[th] = Len(recorded_events[Listening(th)])

\* A mutex is held from within push_back only.
MutexHeld ==
  \A r \in Callable : mtx[r] # NoThread => body[mtx[r]] = "locked" /\ Listening(mtx[r]) = r

\* A recorder is registered once, and while record() has it; one that does
\* not exist has recorded nothing.
Recorders ==
  /\ \A n, m \in Nodes(listeners) : callable[n].of = callable[m].of => n = m
  /\ Range(running) \subseteq {callable[n].of : n \in Nodes(listeners)}
  /\ IsInjective(running)
  /\ \A r \in Callable \ Live : recorded_events[r] = <<>>

\* RecordsEveryEvent for one recorder; what it has recorded has been through
\* its operator(), and what is being dispatched was emitted after it was made.
RecordingOK(r) ==
  /\ IsInjective(recorded_events[r])
  /\ Range(recorded_events[r]) \subseteq Due(r)
  /\ \A i, j \in DOMAIN recorded_events[r] :
       i < j /\ history[recorded_events[r][i]].thread = history[recorded_events[r][j]].thread
         => recorded_events[r][i] < recorded_events[r][j]
  /\ MatcherOf[r] = "any" => \A s \in Due(r) : s \in Range(recorded_events[r]) \/ UnderWay(s, r)
  /\ \A s \in Range(recorded_events[r]) : ~UnderWay(s, r)
  /\ since[r] <= Len(history)
  /\ \A th \in Thread : current[th] # 0 => since[r] < current[th]

RIInv ==
  /\ IInv
  /\ RecorderShape
  /\ \A th \in Thread : ThreadOK(th)
  /\ MutexHeld
  /\ Recorders
  /\ \A r \in Live : RecordingOK(r)

\* The walk of the thread has not yet been through the recorder's operator().
Pending(th, r) ==
  \/ ~Walking(th)
  \/ frame[th].cursor = NoNode
  \/ Listening(th) = r /\ body[th] # "returned"
  \/ \E i \in Upcoming(th) : callable[Walked(th)[i]].of = r

LEMMA UnderWayIsPending ==
  ASSUME NEW s, NEW r
  PROVE  UnderWay(s, r) <=> current[history[s].thread] = s /\ Pending(history[s].thread, r)
  BY DEF UnderWay, Pending, InFlight

\* The recorders that exist are those the Manager has.
LEMMA LiveIsRegistered ==
  ASSUME IInv, Recorders
  PROVE  Live = {callable[n].of : n \in Nodes(listeners)} /\ Live \subseteq Callable
  <1>1. Live = {callable[n].of : n \in Nodes(listeners)}
    BY DEF Recorders, Live
  <1>2. \A n \in Nodes(listeners) : callable[n] \in Model
    BY DEF IInv, TypeOK
  <1> QED BY <1>1, <1>2 DEF Model

\* What there is in the history, by position.
LEMMA HistoryProperties ==
  ASSUME RecorderShape
  PROVE  /\ DOMAIN history = 1 .. Len(history) /\ Len(history) \in Nat
         /\ \A s \in DOMAIN history : s \in Nat /\ s # 0 /\ history[s] \in Emission
         /\ \A s \in DOMAIN history : history[s].thread \in Thread
         /\ \A r \in Callable : Due(r) \subseteq DOMAIN history
  <1>1. DOMAIN history = 1 .. Len(history) /\ Len(history) \in Nat
    BY DEF RecorderShape
  <1>2. \A s \in DOMAIN history : s \in Nat /\ s # 0 /\ history[s] \in Emission
    BY DEF RecorderShape
  <1>3. \A s \in DOMAIN history : history[s].thread \in Thread
    BY <1>2 DEF Emission
  <1>4. \A r \in Callable : since[r] \in Nat
    BY DEF RecorderShape
  <1>5. \A r \in Callable : Due(r) \subseteq DOMAIN history
    BY <1>1, <1>4 DEF Due
  <1> QED BY <1>1, <1>2, <1>3, <1>5

-----------------------------------------------------------------------------
(***************************************************************************)
(* The lists change when every thread is out of the Manager.               *)
(***************************************************************************)
\* No event is under way when all threads are idle.
LEMMA NothingUnderWay ==
  ASSUME RecorderShape, \A th \in Thread : current[th] = 0,
         NEW r, NEW s \in DOMAIN history
  PROVE  ~UnderWay(s, r)
  BY HistoryProperties, UnderWayIsPending

\* A step at rest: a recorder it keeps is left alone, a recorder it makes has
\* nothing to record yet.
LEMMA AtRestStep ==
  ASSUME RIInv, IInv', RecorderShape', Recorders',
         \A th \in Thread : frame[th].pc = "idle",
         UNCHANGED <<frame, body, size, current, mtx>>,
         \A r \in Live' :
           \/ recorded_events'[r] = <<>> /\ since'[r] = Len(history')
           \/ /\ r \in Live
              /\ recorded_events'[r] = recorded_events[r]
              /\ since'[r] = since[r]
              /\ history' = history
  PROVE  RIInv'
  <1>1. \A th \in Thread : current[th] = 0 /\ ~Walking(th) /\ body[th] = "returned"
    BY DEF RIInv, ThreadOK, Walking
  <1>2. \A r \in Callable : mtx[r] = NoThread
    BY <1>1 DEF RIInv, MutexHeld, RecorderShape
  <1>3. \A th \in Thread : ThreadOK(th)'
    BY <1>1 DEF RIInv, ThreadOK
  <1>4. MutexHeld'
    BY <1>2 DEF MutexHeld
  <1>5. ASSUME NEW r \in Live' PROVE RecordingOK(r)'
    <2>1. CASE recorded_events'[r] = <<>> /\ since'[r] = Len(history')
      <3>1. Len(history') \in Nat
        BY DEF RecorderShape
      <3>2. Due(r)' = {}
        BY <2>1, <3>1 DEF Due
      <3>3. \A th \in Thread : current'[th] = 0
        BY <1>1
      <3> QED BY <2>1, <3>1, <3>2, <3>3 DEF RecordingOK, IsInjective, Range
    <2>2. CASE /\ r \in Live
               /\ recorded_events'[r] = recorded_events[r]
               /\ since'[r] = since[r]
               /\ history' = history
      <3>1. RecordingOK(r) /\ r \in Callable
        BY <2>2, LiveIsRegistered DEF RIInv
      <3>2. Due(r)' = Due(r)
        BY <2>2 DEF Due
      <3>3. Due(r) \subseteq DOMAIN history
        BY <3>1, HistoryProperties DEF RIInv
      <3>4. \A s \in Due(r) : ~UnderWay(s, r) /\ ~UnderWay(s, r)'
        <4>1. \A s \in Due(r) : ~UnderWay(s, r)
          BY <1>1, <3>3, NothingUnderWay DEF RIInv
        <4>2. \A s \in Due(r) : ~UnderWay(s, r)'
          <5> SUFFICES ASSUME NEW s \in Due(r) PROVE ~(current'[history'[s].thread] = s)
            BY DEF UnderWay, InFlight
          <5>1. s # 0 /\ history[s].thread \in Thread
            BY <3>3, HistoryProperties DEF RIInv
          <5> QED BY <1>1, <2>2, <5>1
        <4> QED BY <4>1, <4>2
      <3>5. \A th \in Thread : current'[th] = 0
        BY <1>1
      <3> QED BY <2>2, <3>1, <3>2, <3>4, <3>5 DEF RecordingOK
    <2> QED BY <2>1, <2>2
  <1> QED BY <1>3, <1>4, <1>5 DEF RIInv

\* The Manager comes up, or goes down when there is no record() under way.
LEMMA LifecycleStep ==
  ASSUME RIInv, IInv', Lifecycle
  PROVE  RIInv'
  <1> USE DEF RIInv
  <1>1. CASE initialize /\ UNCHANGED <<recorderVars, history, since, section>>
    <2>1. /\ \A th \in Thread : frame[th].pc = "idle"
          /\ UNCHANGED <<frame, body, size, current, mtx, listeners, callable, running,
                         recorded_events, since, history>>
      BY <1>1 DEF initialize, Lifecycle, recorderVars, listVars, IInv, CursorsListed
    <2>2. RecorderShape' /\ Recorders' /\ Live' = Live
      BY <2>1 DEF RecorderShape, Recorders, Live
    <2> QED BY <2>1, <2>2, AtRestStep
  <1>2. CASE /\ running = <<>>
             /\ finalize
             /\ recorded_events' = NothingRecorded
             /\ history' = <<>>
             /\ since' = [r \in Callable |-> 0]
             /\ UNCHANGED mtx
    <2>1. /\ \A th \in Thread : frame[th].pc = "idle"
          /\ UNCHANGED <<frame, body, size, current, mtx, running>>
          /\ listeners' = <<>> /\ running' = <<>>
      BY <1>2 DEF finalize, Lifecycle
    <2>2. Nodes(listeners') = {} /\ Range(running') = {} /\ IsInjective(running')
      BY <2>1 DEF Nodes, Range, IsInjective
    <2>3. Recorders' /\ Live' = {}
      BY <1>2, <2>2 DEF Recorders, Live, NothingRecorded
    <2>4. RecorderShape'
      BY <1>2, <2>1 DEF RecorderShape, NothingRecorded
    <2> QED BY <2>1, <2>3, <2>4, AtRestStep
  <1> QED BY <1>1, <1>2 DEF Lifecycle

\* record() makes a recorder.
LEMMA RecordBeginLists ==
  ASSUME RIInv, IInv', NEW r \in Callable, RecordBegin(r)
  PROVE  /\ Recorders' /\ running' \in Seq(Callable)
         /\ r \notin Live /\ Live' = Live \cup {r}
  <1> USE DEF RIInv
  <1>1. /\ r \notin Live
        /\ running' = Append(running, r)
        /\ UNCHANGED recorded_events
    BY DEF RecordBegin, recorderVars
  <1>2. PICK n \in Node \ Nodes(listeners) :
          /\ listeners' = Link(listeners, n)
          /\ callable' = [m \in Nodes(listeners) \cup {n} |->
                            IF m = n THEN [of |-> r, shared |-> TRUE] ELSE callable[m]]
    BY DEF RecordBegin, register_listener, SetLists
  <1>3. Nodes(listeners') = Nodes(listeners) \cup {n}
    <2>1. listeners \in Seq(Node) /\ n \in Node
      BY DEF IInv, TypeOK
    <2>2. Nodes(Link(listeners, n)) = Nodes(listeners) \cup {n}
      BY <2>1, LinkProperties
    <2> QED BY <1>2, <2>2
  <1>4. callable'[n].of = r /\ \A m \in Nodes(listeners) : callable'[m] = callable[m]
    BY <1>2
  <1>5. running' \in Seq(Callable) /\ Range(running') = Range(running) \cup {r} /\ IsInjective(running')
    <2>1. running \in Seq(Callable) /\ r \notin Range(running) /\ IsInjective(running)
      BY <1>1 DEF RecorderShape, Live, Recorders
    <2>2. Range(Append(running, r)) = Range(running) \cup {r} /\ IsInjective(Append(running, r))
      BY <2>1, PushBackInjective
    <2> QED BY <1>1, <2>1, <2>2
  <1>6. Live' = Live \cup {r}
    BY <1>3, <1>4, <1>5 DEF Live
  <1>7. Recorders'
    <2>1. \A m \in Nodes(listeners) : callable[m].of # r
      BY <1>1 DEF Live
    <2>2. \A m, k \in Nodes(listeners') : callable'[m].of = callable'[k].of => m = k
      BY <1>3, <1>4, <2>1 DEF Recorders
    <2>3. Range(running') \subseteq {callable'[m].of : m \in Nodes(listeners')}
      BY <1>3, <1>4, <1>5 DEF Recorders
    <2>4. \A c \in Callable \ Live' : recorded_events'[c] = <<>>
      BY <1>1, <1>6 DEF Recorders
    <2> QED BY <1>5, <2>2, <2>3, <2>4 DEF Recorders
  <1> QED BY <1>1, <1>5, <1>6, <1>7

\* It has nothing recorded and nothing due.
LEMMA RecordBeginStep ==
  ASSUME RIInv, IInv', NEW r \in Callable, RecordBegin(r)
  PROVE  RIInv'
  <1> USE DEF RIInv
  <1>1. /\ \A th \in Thread : frame[th].pc = "idle"
        /\ since' = [since EXCEPT ![r] = Len(history)]
        /\ UNCHANGED <<frame, body, size, current, mtx, recorded_events, history>>
    BY DEF RecordBegin, register_listener, MayChangeListeners, SetLists, recorderVars, Idle
  <1>2. /\ Recorders' /\ running' \in Seq(Callable)
        /\ r \notin Live /\ Live' = Live \cup {r}
    BY RecordBeginLists
  <1>3. RecorderShape' /\ Len(history) \in Nat
    BY <1>1, <1>2 DEF RecorderShape
  <1>4. recorded_events'[r] = <<>> /\ since'[r] = Len(history')
    BY <1>1, <1>2 DEF Recorders, RecorderShape
  <1>5. \A c \in Live : since'[c] = since[c]
    BY <1>1, <1>2 DEF RecorderShape
  <1> QED BY <1>1, <1>2, <1>3, <1>4, <1>5, AtRestStep

\* record() destroys the recorder, with its events.
LEMMA RecordReturnLists ==
  ASSUME RIInv, IInv', RecordReturn
  PROVE  /\ Recorders' /\ running' \in Seq(Callable)
         /\ Last(running) \in Live /\ Last(running) \in Callable
         /\ Live' = Live \ {Last(running)}
  <1> USE DEF RIInv
  <1> DEFINE r == Last(running)
  <1>1. /\ running # <<>>
        /\ running' = Front(running)
        /\ recorded_events' = [recorded_events EXCEPT ![r] = <<>>]
    BY DEF RecordReturn
  <1>2. PICK n \in Nodes(listeners) :
          /\ callable[n].of = r
          /\ listeners' = Unlink(listeners, n)
          /\ callable' = [m \in Nodes(listeners) \ {n} |-> callable[m]]
    <2>1. PICK i \in DOMAIN listeners :
            callable[listeners[i]] = [of |-> r, shared |-> TRUE] /\ Unregister(listeners[i])
      BY DEF RecordReturn, unregister_pointer
    <2>2. listeners[i] \in Nodes(listeners)
      BY DEF Nodes, Range
    <2> QED BY <2>1, <2>2 DEF Unregister, SetLists, ModelsWithout
  <1>3. Nodes(listeners') = Nodes(listeners) \ {n}
    <2>1. listeners \in Seq(Node) /\ IsInjective(listeners)
      BY DEF IInv, TypeOK, ListsAgree
    <2> QED BY <1>2, <2>1, UnlinkProperties
  <1>4. /\ running \in Seq(Callable) /\ running' \in Seq(Callable)
        /\ Range(running') = Range(running) \ {r} /\ r \in Range(running)
        /\ IsInjective(running')
    <2>1. running \in Seq(Callable) /\ Len(running) \in Nat \ {0} /\ DOMAIN running = 1 .. Len(running)
      BY <1>1 DEF RecorderShape
    <2>2. /\ running' \in Seq(Callable)
          /\ DOMAIN running' = 1 .. Len(running) - 1
          /\ \A i \in 1 .. Len(running) - 1 : running'[i] = running[i]
      BY <1>1, <2>1 DEF Front
    <2>3. r = running[Len(running)]
      BY DEF Last
    <2>4. \A i, j \in 1 .. Len(running) : running[i] = running[j] => i = j
      BY <2>1 DEF Recorders, IsInjective
    <2> HIDE DEF r
    <2>5. IsInjective(running')
      BY <2>1, <2>2, <2>4 DEF IsInjective
    <2>6. \A c : c \in Range(running') <=> c \in Range(running) /\ c # r
      <3>1. \A c : c \in Range(running) <=> \E i \in 1 .. Len(running) : running[i] = c
        BY <2>1 DEF Range
      <3>2. \A c : c \in Range(running') <=> \E i \in 1 .. Len(running) - 1 : running[i] = c
        BY <2>2 DEF Range
      <3>3. \A i \in 1 .. Len(running) : i \in 1 .. Len(running) - 1 \/ i = Len(running)
        <4>1. \A k \in Nat : \A i \in 1 .. k : i \in 1 .. k - 1 \/ i = k
          OBVIOUS
        <4> QED BY <2>1, <4>1
      <3>4. \A i \in 1 .. Len(running) - 1 : i \in 1 .. Len(running) /\ running[i] # r
        BY <2>1, <2>3, <2>4
      <3> QED BY <2>3, <3>1, <3>2, <3>3, <3>4
    <2>7. r \in Range(running)
      BY <2>1, <2>3 DEF Range
    <2> QED BY <2>1, <2>2, <2>5, <2>6, <2>7
  <1> HIDE DEF r
  <1>5. r \in Callable /\ r \in Live
    BY <1>4, LiveIsRegistered DEF Live
  <1>6. \A m \in Nodes(listeners') : callable'[m] = callable[m] /\ callable'[m].of # r
    BY <1>2, <1>3 DEF Recorders
  <1>7. Live' = Live \ {r}
    <2>1. {callable'[m].of : m \in Nodes(listeners')} = {callable[m].of : m \in Nodes(listeners)} \ {r}
      BY <1>2, <1>3, <1>6
    <2> QED BY <1>4, <2>1 DEF Live
  <1>8. Recorders'
    <2>1. \A m, k \in Nodes(listeners') : callable'[m].of = callable'[k].of => m = k
      BY <1>3, <1>6 DEF Recorders
    <2>2. Range(running') \subseteq {callable'[m].of : m \in Nodes(listeners')}
      BY <1>2, <1>3, <1>4, <1>6 DEF Recorders
    <2>3. \A c \in Callable \ Live' : recorded_events'[c] = <<>>
      BY <1>1, <1>5, <1>7 DEF Recorders, RecorderShape
    <2> QED BY <1>4, <2>1, <2>2, <2>3 DEF Recorders
  <1> QED BY <1>4, <1>5, <1>7, <1>8 DEF r

\* The recorders that are left have what they had.
LEMMA RecordReturnStep ==
  ASSUME RIInv, IInv', RecordReturn
  PROVE  RIInv'
  <1> USE DEF RIInv
  <1> DEFINE r == Last(running)
  <1>1. /\ \A th \in Thread : frame[th].pc = "idle"
        /\ recorded_events' = [recorded_events EXCEPT ![r] = <<>>]
        /\ since' = [since EXCEPT ![r] = 0]
        /\ history' = IF Live = {r} THEN <<>> ELSE history
        /\ UNCHANGED <<frame, body, size, current, mtx>>
    BY DEF RecordReturn, unregister_pointer, MayUnregister, MayChangeListeners, Unregister, SetLists, Idle
  <1>2. /\ Recorders' /\ running' \in Seq(Callable)
        /\ r \in Live /\ r \in Callable
        /\ Live' = Live \ {r}
    BY RecordReturnLists
  <1> HIDE DEF r
  <1>3. RecorderShape'
    BY <1>1, <1>2 DEF RecorderShape
  <1>4. \A c \in Live' : /\ c \in Live
                         /\ recorded_events'[c] = recorded_events[c]
                         /\ since'[c] = since[c]
                         /\ history' = history
    BY <1>1, <1>2, LiveIsRegistered DEF RecorderShape
  <1> QED BY <1>1, <1>2, <1>3, <1>4, AtRestStep

\* The callable throws: the recorder stays, in the Manager's hands.
LEMMA RecordThrowLive ==
  ASSUME RIInv, RecordThrow
  PROVE  running' \in Seq(Callable) /\ IsInjective(running') /\ Live' = Live
  <1> USE DEF RIInv
  <1>1. running # <<>> /\ running' = Front(running)
    BY DEF RecordThrow
  <1>2. UNCHANGED <<listeners, callable>>
    BY DEF RecordThrow, vars, managerVars, listVars
  <1>3. running' \in Seq(Callable) /\ Range(running') \subseteq Range(running) /\ IsInjective(running')
    <2>1. running \in Seq(Callable) /\ Len(running) \in Nat \ {0} /\ DOMAIN running = 1 .. Len(running)
      BY <1>1 DEF RecorderShape
    <2>2. /\ running' \in Seq(Callable)
          /\ DOMAIN running' = 1 .. Len(running) - 1
          /\ \A i \in 1 .. Len(running) - 1 : running'[i] = running[i]
      BY <1>1, <2>1 DEF Front
    <2>3. \A i \in DOMAIN running' : i \in DOMAIN running /\ running'[i] = running[i]
      BY <2>1, <2>2
    <2> QED BY <2>2, <2>3 DEF Recorders, IsInjective, Range
  <1>4. Live' = Live
    BY <1>2, <1>3, LiveIsRegistered DEF Live, Recorders
  <1> QED BY <1>3, <1>4

\* Steps that leave alone what the invariant speaks of, but for the pointers
\* record() holds: nobody's events change.
LEMMA UntouchedStep ==
  ASSUME RIInv, IInv', running' \in Seq(Callable), IsInjective(running'), Live' = Live,
         UNCHANGED <<frame, listeners, callable, registered_callbacks, recorded_events, mtx, body,
                     size, history, current, since>>
  PROVE  RIInv'
  <1> USE DEF RIInv
  <1>1. Range(running') \subseteq Live
    BY DEF Live
  <1>2. RecorderShape' /\ Recorders'
    BY <1>1, LiveIsRegistered DEF RecorderShape, Recorders
  <1>3. (\A th \in Thread : ThreadOK(th)') /\ MutexHeld'
    BY DEF ThreadOK, MutexHeld, Listening, Walking
  <1>4. \A r \in Live' : RecordingOK(r)'
    <2> SUFFICES ASSUME NEW r \in Live PROVE RecordingOK(r)'
      OBVIOUS
    <2>1. Due(r)' = Due(r)
      BY DEF Due
    <2>2. ASSUME NEW s PROVE UnderWay(s, r)' <=> UnderWay(s, r)
      <3>1. ASSUME NEW th PROVE Upcoming(th)' = Upcoming(th) /\ Walked(th)' = Walked(th)
        BY DEF Walked, Upcoming, Handles
      <3>2. ASSUME NEW th PROVE Walking(th)' = Walking(th) /\ Listening(th)' = Listening(th)
        BY DEF Walking, Listening
      <3>3. InFlight(s)' <=> InFlight(s)
        BY DEF InFlight
      <3> QED BY <3>1, <3>2, <3>3 DEF UnderWay
    <2> QED BY <2>1, <2>2 DEF RecordingOK
  <1> QED BY <1>2, <1>3, <1>4

LEMMA RecordThrowStep ==
  ASSUME RIInv, IInv', RecordThrow
  PROVE  RIInv'
  <1>1. UNCHANGED <<vars, recorderVars, body, size, historyVars>>
    BY DEF RecordThrow
  <1>2. UNCHANGED <<frame, listeners, callable, registered_callbacks, recorded_events, mtx, body,
                   size, history, current, since>>
    BY <1>1 DEF vars, managerVars, listVars, recorderVars, historyVars
  <1>3. running' \in Seq(Callable) /\ IsInjective(running') /\ Live' = Live
    BY RecordThrowLive
  <1> QED BY <1>2, <1>3, UntouchedStep

\* An event without a callback of the Manager enters nothing.
LEMMA EmitUnheardStep ==
  ASSUME RIInv, IInv', NEW th \in Thread, EmitUnheard(th)
  PROVE  RIInv'
  <1>1. PICK e \in EmittedBy[th], i \in 0 .. Len(open[th]) :
          /\ callbacks[e[1]] # "dispatching"
          /\ EmitAbout(th, e[1], i)
          /\ UNCHANGED <<recorderVars, body, size, running, history, current, since>>
    BY DEF EmitUnheard
  <1>2. PICK id : Emit(th, e[1], id)
    BY <1>1, EmitAboutEmits
  <1>3. UNCHANGED <<frame, listeners, callable, registered_callbacks, recorded_events, mtx, body,
                   size, running, history, current, since>>
    BY <1>1, <1>2 DEF Emit, managerVars, listVars, recorderVars
  <1>4. running' \in Seq(Callable) /\ IsInjective(running') /\ Live' = Live
    BY <1>3 DEF RIInv, RecorderShape, Recorders, Live
  <1> QED BY <1>3, <1>4, UntouchedStep

-----------------------------------------------------------------------------
(***************************************************************************)
(* One thread goes through the Manager, the others stay where they are.    *)
(***************************************************************************)
\* What a step of the thread leaves as it is.
OthersStay(th) ==
  /\ UNCHANGED <<managerVars, running, since>>
  /\ \A u \in Thread \ {th} : /\ frame'[u] = frame[u] /\ body'[u] = body[u]
                              /\ current'[u] = current[u] /\ size'[u] = size[u]

\* Where another thread is in its walk does not change.
LEMMA OthersPending ==
  ASSUME NEW th \in Thread, OthersStay(th), NEW u \in Thread \ {th}, NEW r
  PROVE  Pending(u, r)' <=> Pending(u, r)
  <1>1. frame'[u] = frame[u] /\ body'[u] = body[u]
    BY DEF OthersStay
  <1>2. UNCHANGED <<listeners, callable, registered_callbacks>>
    BY DEF OthersStay, managerVars, listVars
  <1>3. Walking(u)' = Walking(u) /\ Listening(u)' = Listening(u) /\ Walked(u)' = Walked(u)
    BY <1>1, <1>2 DEF Walking, Listening, Walked
  <1>4. Upcoming(u)' = Upcoming(u)
    BY <1>1, <1>2, <1>3 DEF Upcoming, Handles
  <1> QED BY <1>1, <1>2, <1>3, <1>4 DEF Pending

\* Nor does what another thread has under way.
LEMMA OthersUnderWay ==
  ASSUME RIInv, NEW th \in Thread, OthersStay(th), NEW r,
         NEW s \in DOMAIN history, history[s].thread # th, history'[s].thread = history[s].thread
  PROVE  UnderWay(s, r)' <=> UnderWay(s, r)
  <1>1. PICK u \in Thread \ {th} : history[s].thread = u /\ history'[s].thread = u
    BY HistoryProperties DEF RIInv
  <1>2. current'[u] = current[u]
    BY DEF OthersStay
  <1>3. Pending(u, r)' <=> Pending(u, r)
    BY OthersPending
  <1>4. UnderWay(s, r) <=> current[u] = s /\ Pending(u, r)
    BY <1>1, UnderWayIsPending
  <1>5. UnderWay(s, r)' <=> current'[u] = s /\ Pending(u, r)'
    BY <1>1 DEF UnderWay, Pending, InFlight
  <1> QED BY <1>2, <1>3, <1>4, <1>5

\* A recording that is not touched stays right if the thread's own event stays
\* under way when it is not recorded, and done when it is.
LEMMA RecordingKept ==
  ASSUME RIInv, NEW th \in Thread, OthersStay(th), NEW r \in Live,
         history' = history, recorded_events'[r] = recorded_events[r],
         current'[th] \in {current[th], 0},
         \A s \in DOMAIN history : history[s].thread = th =>
           /\ UnderWay(s, r)' /\ s \in Range(recorded_events[r]) => UnderWay(s, r)
           /\ MatcherOf[r] = "any" /\ s \in Due(r) /\ UnderWay(s, r) =>
                s \in Range(recorded_events[r]) \/ UnderWay(s, r)'
  PROVE  RecordingOK(r)'
  <1>1. r \in Callable /\ RecordingOK(r)
    BY LiveIsRegistered DEF RIInv
  <1>2. Due(r)' = Due(r) /\ Due(r) \subseteq DOMAIN history
    BY <1>1, HistoryProperties DEF Due, OthersStay, RIInv
  <1>3. ASSUME NEW s \in DOMAIN history, history[s].thread # th
        PROVE  UnderWay(s, r)' <=> UnderWay(s, r)
    BY <1>3, OthersUnderWay
  <1>4. \A s \in Due(r) : s \in Range(recorded_events[r]) => ~UnderWay(s, r)'
    BY <1>1, <1>2, <1>3 DEF RecordingOK
  <1>5. MatcherOf[r] = "any" => \A s \in Due(r) : s \in Range(recorded_events[r]) \/ UnderWay(s, r)'
    BY <1>1, <1>2, <1>3 DEF RecordingOK
  <1>6. since' = since /\ \A u \in Thread : current'[u] # 0 => current'[u] = current[u]
    BY DEF OthersStay
  <1> QED BY <1>1, <1>2, <1>4, <1>5, <1>6 DEF RecordingOK

\* What is left to show of a step of one thread: that it leaves its own frame,
\* the mutexes it may touch and the recordings right.
LEMMA OneThreadStep ==
  ASSUME RIInv, IInv', RecorderShape', NEW th \in Thread, OthersStay(th),
         DOMAIN history \subseteq DOMAIN history',
         \A s \in DOMAIN history :
           history'[s].thread = history[s].thread /\ history'[s].type = history[s].type,
         \A s \in DOMAIN history' \ DOMAIN history : history'[s].thread = th,
         \A r \in Callable : mtx'[r] = mtx[r] \/ {mtx[r], mtx'[r]} = {th, NoThread},
         \A r \in Callable : mtx'[r] = th => body'[th] = "locked" /\ Listening(th)' = r,
         \A r \in Callable : recorded_events'[r] = recorded_events[r] \/ (mtx[r] = th /\ r \in Live),
         ThreadOK(th)',
         \A r \in Live : RecordingOK(r)'
  PROVE  RIInv'
  <1> USE DEF RIInv
  <1>1. UNCHANGED <<listeners, callable, registered_callbacks, running, since>>
    BY DEF OthersStay, managerVars, listVars
  <1>2. Live' = Live
    BY <1>1 DEF Live
  <1>3. Recorders'
    BY <1>1, <1>2 DEF Recorders
  <1>4. ASSUME NEW u \in Thread \ {th} PROVE ThreadOK(u)'
    <2>1. /\ frame'[u] = frame[u] /\ body'[u] = body[u]
          /\ current'[u] = current[u] /\ size'[u] = size[u]
      BY DEF OthersStay
    <2>2. ThreadOK(u)
      OBVIOUS
    <2>3. Listening(u)' = Listening(u) /\ Walking(u)' = Walking(u)
      BY <1>1, <2>1 DEF Listening, Walking
    <2>4. ASSUME current[u] # 0
          PROVE  /\ current[u] \in DOMAIN history'
                 /\ history'[current[u]].thread = u
                 /\ history'[current[u]].type = frame[u].type
                 /\ \A s \in DOMAIN history' : history'[s].thread = u => s <= current[u]
      BY <2>2, <2>4 DEF ThreadOK
    <2>5. ASSUME body[u] = "locked"
          PROVE  mtx'[Listening(u)] = u /\ size[u] = Len(recorded_events'[Listening(u)])
      <3>1. /\ mtx[Listening(u)] = u /\ size[u] = Len(recorded_events[Listening(u)])
            /\ Walking(u) /\ frame[u].cursor # NoNode
        BY <2>2, <2>5 DEF ThreadOK
      <3>2. Listening(u) \in Callable
        <4>1. frame[u].cursor \in Nodes(registered_callbacks[frame[u].type])
          BY <2>2, <3>1 DEF IInv, CursorsListed, Walked, ThreadOK, Walking
        <4>2. frame[u].cursor \in Nodes(listeners)
          BY <2>2, <3>1, <4>1 DEF IInv, ListsAgree, KokkosFrames, ThreadOK, Walking
        <4> QED BY <4>2 DEF IInv, TypeOK, Listening, Model
      <3>3. u # th /\ u # NoThread
        BY RecorderAssumption
      <3> QED BY <3>1, <3>2, <3>3
    <2> QED BY <2>1, <2>2, <2>3, <2>4, <2>5 DEF ThreadOK
  <1>5. MutexHeld'
    <2> SUFFICES ASSUME NEW r \in Callable, mtx'[r] # NoThread
                 PROVE  body'[mtx'[r]] = "locked" /\ callable'[frame'[mtx'[r]].cursor].of = r
      BY DEF MutexHeld, Listening
    <2>1. CASE mtx'[r] = th
      BY <2>1 DEF Listening
    <2>2. CASE mtx'[r] # th
      <3>1. mtx'[r] = mtx[r] /\ mtx[r] \in Thread \ {th}
        <4>1. mtx'[r] = mtx[r] \/ {mtx[r], mtx'[r]} = {th, NoThread}
          OBVIOUS
        <4>2. mtx'[r] = mtx[r]
          BY <2>2, <4>1
        <4>3. mtx[r] \in Thread \cup {NoThread}
          BY DEF RecorderShape
        <4> HIDE DEF RIInv
        <4> QED BY <2>2, <4>2, <4>3
      <3>2. body[mtx[r]] = "locked" /\ Listening(mtx[r]) = r
        BY <3>1 DEF MutexHeld
      <3>3. frame'[mtx[r]] = frame[mtx[r]] /\ body'[mtx[r]] = body[mtx[r]]
        BY <3>1 DEF OthersStay
      <3> QED BY <1>1, <3>1, <3>2, <3>3 DEF Listening
    <2> QED BY <2>1, <2>2
  <1> QED BY <1>2, <1>3, <1>4, <1>5

\* The list a dispatch walks holds every recorder of the event type, once.
LEMMA WalkProperties ==
  ASSUME RIInv, NEW th \in Thread, frame[th].pc = "registered"
  PROVE  /\ Walked(th) = registered_callbacks[frame[th].type]
         /\ frame[th].type \in EventTypeList
         /\ Walked(th) \in Seq(Node) /\ IsInjective(Walked(th))
         /\ \A i \in DOMAIN Walked(th) : Handles(Walked(th)[i], frame[th].type)
         /\ \A i \in DOMAIN Walked(th) : callable[Walked(th)[i]].of \in Live
         /\ \A i, j \in DOMAIN Walked(th) :
              callable[Walked(th)[i]].of = callable[Walked(th)[j]].of => i = j
         /\ \A r \in Live : frame[th].type \in HandledBy[r] =>
              \E i \in DOMAIN Walked(th) : callable[Walked(th)[i]].of = r
         /\ Upcoming(th) = Ahead(Walked(th), frame[th].cursor # NoNode, frame[th].cursor)
         /\ Walking(th)
  <1> USE DEF RIInv, IInv
  <1> DEFINE t == frame[th].type
             l == registered_callbacks[t]
  <1>1. Walked(th) = l /\ Walking(th)
    BY DEF Walked, Walking
  <1>2. t \in EventTypeList
    BY DEF KokkosFrames
  <1>3. l \in Seq(Node) /\ IsInjective(l) /\ Nodes(l) = {n \in Nodes(listeners) : Handles(n, t)}
    BY <1>2 DEF TypeOK, ListsAgree
  <1>4. \A n : n \in Nodes(l) <=> \E i \in DOMAIN l : l[i] = n
    BY DEF Nodes, Range
  <1>5. Live = {callable[n].of : n \in Nodes(listeners)}
    BY LiveIsRegistered
  <1>6. \A i \in DOMAIN l : l[i] \in Nodes(listeners) /\ Handles(l[i], t)
    BY <1>3, <1>4
  <1>7. \A i \in DOMAIN l : callable[l[i]].of \in Live
    BY <1>5, <1>6
  <1>8. \A i, j \in DOMAIN l : callable[l[i]].of = callable[l[j]].of => i = j
    BY <1>3, <1>6 DEF Recorders, IsInjective
  <1>9. \A r \in Live : t \in HandledBy[r] => \E i \in DOMAIN l : callable[l[i]].of = r
    BY <1>3, <1>4, <1>5 DEF Handles
  <1>10. Upcoming(th) = Ahead(Walked(th), frame[th].cursor # NoNode, frame[th].cursor)
    <2>1. Ahead(Walked(th), frame[th].cursor # NoNode, frame[th].cursor) \subseteq DOMAIN Walked(th)
      BY DEF Ahead
    <2> QED BY <1>1, <1>6, <2>1 DEF Upcoming
  <1> QED BY <1>1, <1>2, <1>3, <1>6, <1>7, <1>8, <1>9, <1>10

\* A thread in operator() dispatches an event that the recorder handles, and
\* will not come to that recorder again.
LEMMA ListeningProperties ==
  ASSUME RIInv, NEW th \in Thread, body[th] # "returned"
  PROVE  /\ frame[th].pc = "registered" /\ frame[th].cursor # NoNode
         /\ Listening(th) \in Live /\ Listening(th) \in Callable
         /\ frame[th].type \in HandledBy[Listening(th)]
         /\ \A k \in Upcoming(th) : callable[Walked(th)[k]].of # Listening(th)
         /\ current[th] # 0
  <1>1. /\ frame[th].pc = "registered" /\ frame[th].cursor # NoNode /\ Walking(th)
        /\ current[th] # 0
    BY DEF RIInv, ThreadOK, Walking
  <1>2. PICK i \in DOMAIN Walked(th) : frame[th].cursor = Walked(th)[i]
    BY <1>1 DEF RIInv, IInv, CursorsListed, Nodes, Range
  <1>3. callable[Walked(th)[i]].of \in Live /\ Handles(Walked(th)[i], frame[th].type)
    BY <1>1, WalkProperties
  <1>4. Live \subseteq Callable
    BY LiveIsRegistered DEF RIInv
  <1>5. ASSUME NEW k \in Upcoming(th), callable[Walked(th)[k]].of = Listening(th) PROVE FALSE
    <2>1. /\ Upcoming(th) = Ahead(Walked(th), frame[th].cursor # NoNode, frame[th].cursor)
          /\ Walked(th) \in Seq(Node)
          /\ \A j, h \in DOMAIN Walked(th) :
               callable[Walked(th)[j]].of = callable[Walked(th)[h]].of => j = h
      BY <1>1, WalkProperties
    <2>2. PICK j \in DOMAIN Walked(th) : Walked(th)[j] = frame[th].cursor /\ j < k /\ k \in DOMAIN Walked(th)
      BY <1>1, <2>1 DEF Ahead
    <2>3. k = j
      BY <1>5, <2>1, <2>2 DEF Listening
    <2>4. j \in Nat
      BY <2>1
    <2> QED BY <2>2, <2>3, <2>4
  <1> QED BY <1>1, <1>2, <1>3, <1>4, <1>5 DEF Listening, Handles

\* A thread that is not in push_back holds no mutex.
LEMMA HoldsNoMutex ==
  ASSUME RIInv, NEW th \in Thread, body[th] # "locked"
  PROVE  \A r \in Callable : mtx[r] # th
  <1>1. th # NoThread
    BY RecorderAssumption
  <1>2. ASSUME NEW r \in Callable, mtx[r] = th PROVE FALSE
    <2>1. body[mtx[r]] = "locked"
      BY <1>1, <1>2 DEF RIInv, MutexHeld
    <2> QED BY <1>2, <2>1
  <1> QED BY <1>2

\* A step of one thread that records nothing and takes no mutex.
LEMMA QuietStep ==
  ASSUME RIInv, IInv', RecorderShape', NEW th \in Thread, OthersStay(th),
         history' = history, recorded_events' = recorded_events, mtx' = mtx,
         body[th] # "locked",
         ThreadOK(th)',
         \A r \in Live : RecordingOK(r)'
  PROVE  RIInv'
  <1>1. /\ DOMAIN history \subseteq DOMAIN history'
        /\ \A s \in DOMAIN history :
             history'[s].thread = history[s].thread /\ history'[s].type = history[s].type
        /\ \A s \in DOMAIN history' \ DOMAIN history : history'[s].thread = th
    OBVIOUS
  <1>2. \A r \in Callable : mtx'[r] = mtx[r] \/ {mtx[r], mtx'[r]} = {th, NoThread}
    OBVIOUS
  <1>3. \A r \in Callable : mtx'[r] = th => body'[th] = "locked" /\ Listening(th)' = r
    BY HoldsNoMutex
  <1>4. \A r \in Callable : recorded_events'[r] = recorded_events[r] \/ (mtx[r] = th /\ r \in Live)
    OBVIOUS
  <1> QED BY <1>1, <1>2, <1>3, <1>4, OneThreadStep

\* The context callback is called: no listener has been yet.
LEMMA CallContextStep ==
  ASSUME RIInv, IInv', NEW th \in Thread, CallContext(th)
  PROVE  RIInv'
  <1>1. /\ UNCHANGED <<recorded_events, mtx, body, size, running, history, current, since, managerVars>>
        /\ frame[th].pc = "context" /\ frame[th].cursor = NoNode
    BY DEF CallContext, dispatch_context_callback, recorderVars, historyVars, RIInv, IInv, KokkosFrames
  <1>2. /\ \A u \in Thread \ {th} : frame'[u] = frame[u]
        /\ frame'[th].pc = "registered" /\ frame'[th].cursor = frame[th].cursor
        /\ frame'[th].type = frame[th].type
    <2>1. frame[th] \in Frame /\ DOMAIN frame = Thread
      BY DEF RIInv, IInv, TypeOK
    <2>2. \/ \E id, owner : frame' = [frame EXCEPT ![th] =
                 [frame[th] EXCEPT !.pc = "registered", !.id = id, !.owner = owner]]
          \/ frame' = [frame EXCEPT ![th] = [frame[th] EXCEPT !.pc = "registered"]]
      BY DEF CallContext, dispatch_context_callback, IncrementIdIfNeeded, CallTool
    <2> QED BY <2>1, <2>2 DEF Frame
  <1>3. OthersStay(th)
    BY <1>1, <1>2 DEF OthersStay
  <1>4. RecorderShape'
    BY <1>1 DEF RIInv, RecorderShape
  <1>5. body[th] = "returned" /\ ~Walking(th)
    BY <1>1 DEF RIInv, ThreadOK, Walking
  <1>6. ThreadOK(th)'
    BY <1>1, <1>2, <1>5 DEF RIInv, ThreadOK
  <1>7. ASSUME NEW r \in Live PROVE RecordingOK(r)'
    <2>1. Pending(th, r) /\ Pending(th, r)'
      BY <1>1, <1>2, <1>5 DEF Pending
    <2>2. \A s \in DOMAIN history : history[s].thread = th => (UnderWay(s, r)' <=> UnderWay(s, r))
      BY <1>1, <2>1, UnderWayIsPending DEF UnderWay, Pending, InFlight
    <2> QED BY <1>1, <1>3, <2>2, RecordingKept
  <1> QED BY <1>1, <1>3, <1>4, <1>5, <1>6, <1>7, QuietStep

\* The walk goes on to the first recorder it has not been through: the event
\* is still to come to the same recorders.
LEMMA EnterPending ==
  ASSUME RIInv, NEW th \in Thread, Enter(th), NEW r \in Live
  PROVE  /\ Pending(th, r)' => Pending(th, r)
         /\ frame[th].type \in HandledBy[r] /\ Pending(th, r) => Pending(th, r)'
  <1>1. UNCHANGED managerVars /\ body[th] = "returned" /\ body' = [body EXCEPT ![th] = "entered"]
        /\ Walking(th)
    BY DEF Enter, InvokeListener
  <1>2. PICK i \in Upcoming(th) :
          /\ \A j \in Upcoming(th) : i <= j
          /\ frame' = [frame EXCEPT ![th].cursor = Walked(th)[i]]
    BY DEF Enter, InvokeListener
  <1>3. /\ frame'[th].pc = frame[th].pc /\ frame'[th].cursor = Walked(th)[i]
        /\ frame'[th].type = frame[th].type
        /\ body'[th] = "entered"
    BY <1>1, <1>2 DEF RIInv, IInv, TypeOK, Frame, RecorderShape
  <1>4. frame[th].pc = "registered"
    BY <1>1 DEF RIInv, ThreadOK, Walking
  <1> DEFINE l == Walked(th)
  <1>5. l' = l /\ l \in Seq(Node) /\ IsInjective(l) /\ DOMAIN l = 1 .. Len(l)
    BY <1>1, <1>3, <1>4, WalkProperties DEF Walked, managerVars, listVars
  <1>6. Upcoming(th) = {k \in DOMAIN l : frame[th].cursor # NoNode =>
                          \E j \in DOMAIN l : l[j] = frame[th].cursor /\ j < k}
    BY <1>4, WalkProperties DEF Ahead
  <1>7. l[i] \in Node /\ l[i] # NoNode /\ i \in DOMAIN l
    BY <1>2, <1>5, <1>6, ManagerAssumption
  <1>8. Upcoming(th)' = {k \in DOMAIN l : i < k}
    <2>1. Upcoming(th)' = {k \in DOMAIN l : \E j \in DOMAIN l : l[j] = l[i] /\ j < k}
      BY <1>1, <1>3, <1>4, <1>5, <1>7 DEF Upcoming, Ahead
    <2>2. \A j \in DOMAIN l : l[j] = l[i] => j = i
      BY <1>5, <1>7 DEF IsInjective
    <2> QED BY <1>7, <2>1, <2>2
  <1>9. Upcoming(th) = {k \in DOMAIN l : i <= k}
    <2>1. \A k \in DOMAIN l : i <= k => k \in Upcoming(th)
      BY <1>2, <1>5, <1>6, <1>7
    <2> QED BY <1>2, <1>6, <2>1
  <1>10. callable' = callable
    BY <1>1 DEF managerVars, listVars
  <1>11. Pending(th, r)' <=> \E k \in Upcoming(th) : callable[l[k]].of = r
    <2>1. Pending(th, r)' <=> \/ callable[l[i]].of = r
                              \/ \E k \in DOMAIN l : i < k /\ callable[l[k]].of = r
      BY <1>3, <1>4, <1>5, <1>7, <1>8, <1>10 DEF Pending, Walking, Listening
    <2> QED BY <1>5, <1>7, <1>9, <2>1
  <1>12. Pending(th, r)' => Pending(th, r)
    BY <1>11 DEF Pending
  <1>13. frame[th].type \in HandledBy[r] /\ Pending(th, r) => Pending(th, r)'
    <2>1. CASE frame[th].cursor = NoNode
      BY <1>4, <1>6, <1>11, <2>1, WalkProperties
    <2>2. CASE frame[th].cursor # NoNode
      BY <1>1, <1>11, <2>2 DEF Pending
    <2> QED BY <2>1, <2>2
  <1> QED BY <1>12, <1>13

\* The walk enters the body of the first recorder it has not been through.
LEMMA EnterStep ==
  ASSUME RIInv, IInv', NEW th \in Thread, Enter(th)
  PROVE  RIInv'
  <1>1. /\ UNCHANGED <<recorded_events, mtx, size, running, history, current, since, managerVars>>
        /\ body[th] = "returned" /\ body' = [body EXCEPT ![th] = "entered"]
        /\ Walking(th)
    BY DEF Enter, InvokeListener, recorderVars, historyVars
  <1>2. PICK i \in Upcoming(th) :
          /\ \A j \in Upcoming(th) : i <= j
          /\ frame' = [frame EXCEPT ![th].cursor = Walked(th)[i]]
    BY DEF Enter, InvokeListener
  <1>3. /\ \A u \in Thread \ {th} : frame'[u] = frame[u] /\ body'[u] = body[u]
        /\ frame'[th].pc = frame[th].pc /\ frame'[th].cursor = Walked(th)[i]
        /\ frame'[th].type = frame[th].type
        /\ body'[th] = "entered"
    BY <1>1, <1>2 DEF RIInv, IInv, TypeOK, Frame, RecorderShape
  <1>4. frame[th].pc = "registered"
    BY <1>1 DEF RIInv, ThreadOK, Walking
  <1>5. OthersStay(th) /\ RecorderShape'
    BY <1>1, <1>3 DEF OthersStay, RIInv, RecorderShape
  <1>6. Walked(th)[i] \in Node /\ Walked(th)[i] # NoNode
    BY <1>2, <1>4, WalkProperties, ManagerAssumption DEF Upcoming, Ahead
  <1>7. ThreadOK(th)'
    BY <1>1, <1>3, <1>4, <1>6 DEF RIInv, ThreadOK, Walking
  <1>8. ASSUME NEW r \in Live PROVE RecordingOK(r)'
    <2>1. \A s \in Due(r) : history[s].thread = th /\ UnderWay(s, r) => UnderWay(s, r)'
      <3> SUFFICES ASSUME NEW s \in Due(r), history[s].thread = th, UnderWay(s, r)
                   PROVE  UnderWay(s, r)'
        OBVIOUS
      <3>1. current[th] = s /\ Pending(th, r)
        BY UnderWayIsPending
      <3>2. frame[th].type \in HandledBy[r]
        <4>1. s # 0
          BY LiveIsRegistered, HistoryProperties DEF RIInv
        <4> QED BY <3>1, <4>1 DEF RIInv, ThreadOK, Due
      <3> QED BY <1>1, EnterPending, <3>1, <3>2 DEF UnderWay, Pending, InFlight
    <2>2. \A s : history[s].thread = th /\ UnderWay(s, r)' => UnderWay(s, r)
      BY <1>1, EnterPending, UnderWayIsPending DEF UnderWay, Pending, InFlight
    <2> QED BY <1>1, <1>5, <2>1, <2>2, RecordingKept
  <1> QED BY <1>1, <1>5, <1>7, <1>8, QuietStep

\* A step within operator(), before the event is recorded: the recorder has
\* the event before it as well as after it.
LEMMA InBodyKeepsRecordings ==
  ASSUME RIInv, NEW th \in Thread, OthersStay(th),
         UNCHANGED <<frame, recorded_events, history, current>>,
         body[th] # "returned",
         body'[th] # "returned" \/ MatcherOf[Listening(th)] # "any"
  PROVE  \A r \in Live : RecordingOK(r)'
  <1> SUFFICES ASSUME NEW r \in Live PROVE RecordingOK(r)'
    OBVIOUS
  <1>1. UNCHANGED <<listeners, callable, registered_callbacks>>
    BY DEF OthersStay, managerVars, listVars
  <1>2. /\ Walking(th)' = Walking(th) /\ Listening(th)' = Listening(th)
        /\ Walked(th)' = Walked(th) /\ Upcoming(th)' = Upcoming(th)
    BY <1>1 DEF Walking, Listening, Walked, Upcoming, Handles
  <1>3. Pending(th, r)' => Pending(th, r)
    BY <1>1, <1>2 DEF Pending
  <1>4. MatcherOf[r] = "any" /\ Pending(th, r) => Pending(th, r)'
    BY <1>1, <1>2 DEF Pending
  <1>5. \A s \in DOMAIN history : history[s].thread = th =>
          /\ UnderWay(s, r)' => UnderWay(s, r)
          /\ MatcherOf[r] = "any" /\ UnderWay(s, r) => UnderWay(s, r)'
    BY <1>3, <1>4, UnderWayIsPending DEF UnderWay, Pending, InFlight
  <1> QED BY <1>5, RecordingKept

\* The matcher is asked; that of every event says yes.
LEMMA AskMatcherStep ==
  ASSUME RIInv, IInv', NEW th \in Thread, AskMatcher(th)
  PROVE  RIInv'
  <1>1. /\ UNCHANGED <<vars, recorded_events, mtx, size, running, history, current, since>>
        /\ body[th] = "entered"
        /\ \/ body' = body
           \/ body' = [body EXCEPT ![th] = "matched"]
           \/ body' = [body EXCEPT ![th] = "returned"] /\ MatcherOf[Listening(th)] # "any"
    BY DEF AskMatcher, Accepts
  <1>2. UNCHANGED <<managerVars, frame>>
    BY <1>1 DEF vars
  <1>3. /\ body' \in [Thread -> {"returned", "entered", "matched", "locked"}]
        /\ \A u \in Thread \ {th} : body'[u] = body[u]
        /\ \/ body'[th] = "entered"
           \/ body'[th] = "matched"
           \/ body'[th] = "returned" /\ MatcherOf[Listening(th)] # "any"
    <2>1. body \in [Thread -> {"returned", "entered", "matched", "locked"}]
      BY DEF RIInv, RecorderShape
    <2> QED BY <1>1, <2>1
  <1>4. OthersStay(th) /\ RecorderShape'
    BY <1>1, <1>2, <1>3 DEF OthersStay, RIInv, RecorderShape
  <1>5. ThreadOK(th)'
    <2>1. Walking(th)' = Walking(th) /\ Walking(th) /\ frame[th].cursor # NoNode
      BY <1>1, <1>2 DEF Walking, RIInv, ThreadOK
    <2>2. body'[th] # "locked"
      BY <1>3
    <2>3. ThreadOK(th)
      BY DEF RIInv
    <2> QED BY <1>1, <1>2, <2>1, <2>2, <2>3 DEF ThreadOK
  <1>6. \A r \in Live : RecordingOK(r)'
    BY <1>1, <1>2, <1>3, <1>4, InBodyKeepsRecordings
  <1> QED BY <1>1, <1>4, <1>5, <1>6, QuietStep

\* The mutex is taken, and the end of the deque read.
LEMMA LockStep ==
  ASSUME RIInv, IInv', NEW th \in Thread, Lock(th)
  PROVE  RIInv'
  <1> DEFINE c == Listening(th)
  <1>1. /\ UNCHANGED <<vars, recorded_events, running, history, current, since>>
        /\ body[th] = "matched" /\ mtx[c] = NoThread
        /\ mtx' = [mtx EXCEPT ![c] = th]
        /\ body' = [body EXCEPT ![th] = "locked"]
        /\ size' = [size EXCEPT ![th] = Len(recorded_events[c])]
    BY DEF Lock, historyVars
  <1>2. UNCHANGED <<managerVars, frame, callable>>
    BY <1>1 DEF vars, managerVars, listVars
  <1>3. c \in Callable /\ c' = c
    BY <1>1, <1>2, ListeningProperties DEF Listening
  <1> HIDE DEF c
  <1>4. Len(recorded_events[c]) \in Nat
    BY <1>3 DEF RIInv, RecorderShape
  <1>5. /\ body'[th] = "locked" /\ size'[th] = Len(recorded_events[c]) /\ mtx'[c] = th
        /\ \A u \in Thread \ {th} : body'[u] = body[u] /\ size'[u] = size[u]
        /\ \A r \in Callable \ {c} : mtx'[r] = mtx[r]
    BY <1>1, <1>3 DEF RIInv, RecorderShape
  <1>6. OthersStay(th) /\ RecorderShape'
    BY <1>1, <1>2, <1>3, <1>4, <1>5 DEF OthersStay, RIInv, RecorderShape
  <1>7. ThreadOK(th)'
    <2>1. Walking(th)' = Walking(th) /\ Walking(th) /\ frame[th].cursor # NoNode
      BY <1>1, <1>2 DEF Walking, RIInv, ThreadOK
    <2>2. ThreadOK(th)
      BY DEF RIInv
    <2>3. mtx'[Listening(th)'] = th /\ size'[th] = Len(recorded_events'[Listening(th)'])
      BY <1>1, <1>3, <1>5 DEF c
    <2> QED BY <1>1, <1>2, <2>1, <2>2, <2>3 DEF ThreadOK
  <1>8. \A r \in Live : RecordingOK(r)'
    BY <1>1, <1>2, <1>5, <1>6, InBodyKeepsRecordings
  <1>9. \A r \in Callable : mtx[r] # th
    BY <1>1, HoldsNoMutex
  <1>10. \A r \in Callable : mtx'[r] = mtx[r] \/ {mtx[r], mtx'[r]} = {th, NoThread}
    BY <1>1, <1>3, <1>5
  <1>11. \A r \in Callable : mtx'[r] = th => body'[th] = "locked" /\ Listening(th)' = r
    BY <1>3, <1>5, <1>9 DEF c
  <1>12. /\ DOMAIN history \subseteq DOMAIN history'
         /\ \A s \in DOMAIN history :
              history'[s].thread = history[s].thread /\ history'[s].type = history[s].type
         /\ \A s \in DOMAIN history' \ DOMAIN history : history'[s].thread = th
         /\ \A r \in Callable : recorded_events'[r] = recorded_events[r] \/ (mtx[r] = th /\ r \in Live)
    BY <1>1
  <1> QED BY <1>6, <1>7, <1>8, <1>10, <1>11, <1>12, OneThreadStep

\* An event is recorded: it was not before, and it is the last of its thread.
LEMMA PushBackStep ==
  ASSUME RIInv, IInv', NEW th \in Thread, PushBack(th)
  PROVE  RIInv'
  <1> DEFINE c == Listening(th)
             e == current[th]
             l == recorded_events[c]
  <1>1. /\ UNCHANGED <<vars, running, history, current, since>>
        /\ body[th] = "locked"
        /\ recorded_events' = [recorded_events EXCEPT ![c] = Append(SubSeq(l, 1, size[th]), e)]
        /\ mtx' = [mtx EXCEPT ![c] = NoThread]
        /\ body' = [body EXCEPT ![th] = "returned"]
        /\ size' = [size EXCEPT ![th] = 0]
    BY DEF PushBack, historyVars
  <1>2. UNCHANGED <<managerVars, frame, callable, listeners, registered_callbacks>>
    BY <1>1 DEF vars, managerVars, listVars
  <1>3. /\ c \in Callable /\ c \in Live /\ c' = c /\ frame[th].pc = "registered"
        /\ e # 0 /\ frame[th].type \in HandledBy[c] /\ frame[th].cursor # NoNode
    BY <1>1, <1>2, ListeningProperties DEF Listening
  <1>4. /\ ThreadOK(th) /\ size[th] = Len(l) /\ mtx[c] = th
        /\ e \in DOMAIN history /\ history[e].thread = th /\ history[e].type = frame[th].type
        /\ \A s \in DOMAIN history : history[s].thread = th => s <= e
    BY <1>1, <1>3 DEF RIInv, ThreadOK
  <1>5. /\ l \in Seq(Nat) /\ e \in Nat /\ Len(l) \in Nat /\ SubSeq(l, 1, Len(l)) = l
        /\ RecordingOK(c)
    BY <1>3 DEF RIInv, RecorderShape
  <1>6. /\ recorded_events'[c] = Append(l, e)
        /\ \A r \in Callable \ {c} : recorded_events'[r] = recorded_events[r]
        /\ body'[th] = "returned" /\ mtx'[c] = NoThread
        /\ \A u \in Thread \ {th} : body'[u] = body[u] /\ size'[u] = size[u]
        /\ \A r \in Callable \ {c} : mtx'[r] = mtx[r]
    BY <1>1, <1>3, <1>4, <1>5 DEF RIInv, RecorderShape
  <1>7. OthersStay(th)
    BY <1>1, <1>2, <1>6 DEF OthersStay
  <1>8. RecorderShape'
    <2>1. Append(SubSeq(l, 1, size[th]), e) \in Seq(Nat)
      BY <1>4, <1>5
    <2>2. recorded_events' \in [Callable -> Seq(Nat)]
      BY <1>1, <2>1 DEF RIInv, RecorderShape
    <2>3. /\ mtx' \in [Callable -> Thread \cup {NoThread}]
          /\ body' \in [Thread -> {"returned", "entered", "matched", "locked"}]
          /\ size' \in [Thread -> Nat]
      BY <1>1 DEF RIInv, RecorderShape
    <2> QED BY <1>1, <2>2, <2>3 DEF RIInv, RecorderShape
  <1>9. ThreadOK(th)'
    BY <1>1, <1>2, <1>4, <1>6 DEF ThreadOK
  \* Of the recorders the thread's event is still to come to, this one is not.
  <1>10. /\ Walking(th)' = Walking(th) /\ Listening(th)' = c
         /\ Walked(th)' = Walked(th) /\ Upcoming(th)' = Upcoming(th) /\ Walking(th)
    BY <1>2, <1>3 DEF Walking, Listening, Walked, Upcoming, Handles
  <1>11. ASSUME NEW r, r = c PROVE ~Pending(th, r)'
    <2>1. \A k \in Upcoming(th) : callable[Walked(th)[k]].of # c
      BY <1>1, ListeningProperties
    <2> HIDE DEF c
    <2> QED BY <1>2, <1>3, <1>6, <1>10, <1>11, <2>1 DEF Pending
  <1> HIDE DEF c, e, l
  <1>12. ASSUME NEW r, r = c PROVE RecordingOK(r)'
    <2>0. ~Pending(th, r)'
      BY <1>11, <1>12
    <2>1. Pending(th, r) /\ UnderWay(e, r)
      <3>1. Pending(th, r)
        BY <1>1, <1>12 DEF Pending, c
      <3> QED BY <1>4, <3>1, UnderWayIsPending DEF e
    <2>2. e \notin Range(l)
      BY <1>5, <1>12, <2>1 DEF RecordingOK, l
    <2>3. Due(r)' = Due(r) /\ Due(r) \subseteq DOMAIN history /\ e \in Due(r)
      <3>1. Due(r)' = Due(r)
        BY <1>1 DEF Due
      <3>2. Due(r) \subseteq DOMAIN history /\ DOMAIN history = 1 .. Len(history) /\ Len(history) \in Nat
        BY <1>3, <1>12, HistoryProperties DEF RIInv
      <3>3. since[r] < e /\ since[r] \in Nat
        BY <1>3, <1>12, <1>5, <1>12 DEF RecordingOK, RIInv, RecorderShape, e
      <3> QED BY <1>3, <1>12, <1>4, <3>1, <3>2, <3>3 DEF Due
    <2>4. Range(Append(l, e)) = Range(l) \cup {e} /\ IsInjective(Append(l, e))
      <3>0. l \in Seq(Nat) /\ e \in Nat
        BY <1>5
      <3>1. IsInjective(l)
        BY <1>5, <1>12 DEF RecordingOK, l
      <3> QED BY <2>2, <3>0, <3>1, PushBackInjective
    <2>5. Range(l) \subseteq Due(r)
      BY <1>5, <1>12 DEF RecordingOK, l
    <2>6. ASSUME NEW i \in DOMAIN Append(l, e), NEW j \in DOMAIN Append(l, e), i < j,
                 history[Append(l, e)[i]].thread = history[Append(l, e)[j]].thread
          PROVE  Append(l, e)[i] < Append(l, e)[j]
      <3>1. DOMAIN Append(l, e) = 1 .. Len(l) + 1 /\ DOMAIN l = 1 .. Len(l)
        BY <1>5, <1>12
      <3>2. i \in 1 .. Len(l) /\ Append(l, e)[i] = l[i]
        BY <1>5, <1>12, <2>6, <3>1
      <3>3. CASE j \in 1 .. Len(l)
        <4>1. Append(l, e)[j] = l[j]
          BY <1>5, <1>12, <3>3
        <4> QED BY <1>5, <1>12, <2>6, <3>1, <3>2, <3>3, <4>1 DEF RecordingOK, l
      <3>4. CASE j = Len(l) + 1
        <4>1. Append(l, e)[j] = e /\ l[i] \in Range(l)
          BY <1>5, <1>12, <3>1, <3>2, <3>4 DEF Range
        <4>2. l[i] \in DOMAIN history /\ l[i] # e /\ l[i] \in Nat
          BY <1>5, <1>12, <2>2, <2>3, <2>5, <3>1, <3>2, <4>1
        <4>3. history[l[i]].thread = th
          BY <1>4, <2>6, <3>2, <4>1
        <4> QED BY <1>4, <1>5, <1>12, <3>2, <4>1, <4>2, <4>3
      <3> QED BY <1>5, <1>12, <3>1, <3>3, <3>4
    \* Only the thread's own event has moved on.
    <2>7. ASSUME NEW s \in DOMAIN history
          PROVE  UnderWay(s, r)' <=> UnderWay(s, r) /\ s # e
      <3>1. UnderWay(s, r)' <=> current[history[s].thread] = s /\ Pending(history[s].thread, r)'
        BY <1>1 DEF UnderWay, Pending, InFlight
      <3>2. UnderWay(s, r) <=> current[history[s].thread] = s /\ Pending(history[s].thread, r)
        BY UnderWayIsPending
      <3>3. CASE history[s].thread = th
        BY <1>1, <2>0, <3>1, <3>2, <3>3 DEF e
      <3>4. CASE history[s].thread # th
        <4>1. UnderWay(s, r)' <=> UnderWay(s, r)
          BY <1>1, <1>7, <3>4, OthersUnderWay
        <4> QED BY <1>4, <3>4, <4>1
      <3> QED BY <3>3, <3>4
    <2>8. \A s \in Range(l) : ~UnderWay(s, r)
      BY <1>5, <1>12 DEF RecordingOK, l
    <2>9. MatcherOf[r] = "any" => \A s \in Due(r) : s \in Range(l) \/ UnderWay(s, r)
      BY <1>5, <1>12 DEF RecordingOK, l
    <2>10. since[r] <= Len(history) /\ \A u \in Thread : current[u] # 0 => since[r] < current[u]
      BY <1>5, <1>12 DEF RecordingOK
    <2>11. Range(recorded_events'[r]) \subseteq Due(r)'
      BY <1>6, <1>12, <2>3, <2>4, <2>5
    <2>12. MatcherOf[r] = "any" => \A s \in Due(r)' : s \in Range(recorded_events'[r]) \/ UnderWay(s, r)'
      BY <1>6, <1>12, <2>3, <2>4, <2>7, <2>9
    <2>13. \A s \in Range(recorded_events'[r]) : ~UnderWay(s, r)'
      BY <1>6, <1>12, <2>3, <2>4, <2>5, <2>7, <2>8
    <2>14. recorded_events'[r] = Append(l, e) /\ UNCHANGED <<history, since, current>>
      BY <1>1, <1>6, <1>12
    <2>15. \A i, j \in DOMAIN recorded_events'[r] :
             i < j /\ history'[recorded_events'[r][i]].thread = history'[recorded_events'[r][j]].thread
               => recorded_events'[r][i] < recorded_events'[r][j]
      BY <2>6, <2>14
    <2>16. IsInjective(recorded_events'[r])
      BY <2>4, <2>14
    <2> QED BY <2>10, <2>11, <2>12, <2>13, <2>14, <2>15, <2>16 DEF RecordingOK
  <1>13. ASSUME NEW r \in Live, r # c PROVE RecordingOK(r)'
    <2>1. r \in Callable
      BY LiveIsRegistered DEF RIInv
    <2>2. Pending(th, r)' <=> Pending(th, r)
      BY <1>2, <1>10, <1>13 DEF Pending, c
    <2>3. \A s \in DOMAIN history : history[s].thread = th => (UnderWay(s, r)' <=> UnderWay(s, r))
      BY <1>1, <2>2, UnderWayIsPending DEF UnderWay, Pending, InFlight
    <2> QED BY <1>1, <1>6, <1>7, <1>13, <2>1, <2>3, RecordingKept
  <1>14. \A r \in Callable : mtx'[r] = mtx[r] \/ {mtx[r], mtx'[r]} = {th, NoThread}
    BY <1>4, <1>6
  <1>15. \A r \in Callable : mtx'[r] = th => body'[th] = "locked" /\ Listening(th)' = r
    <2>1. th # NoThread
      BY RecorderAssumption
    <2>2. \A r \in Callable : mtx[r] = th => r = c
      BY <2>1 DEF RIInv, MutexHeld, c
    <2> QED BY <1>6, <2>1, <2>2
  <1>16. /\ DOMAIN history \subseteq DOMAIN history'
         /\ \A s \in DOMAIN history :
              history'[s].thread = history[s].thread /\ history'[s].type = history[s].type
         /\ \A s \in DOMAIN history' \ DOMAIN history : history'[s].thread = th
    BY <1>1
  <1>17. \A r \in Callable : recorded_events'[r] = recorded_events[r] \/ (mtx[r] = th /\ r \in Live)
    BY <1>3, <1>4, <1>6
  <1>18. \A r \in Live : RecordingOK(r)'
    BY <1>12, <1>13
  <1> QED BY <1>7, <1>8, <1>9, <1>14, <1>15, <1>16, <1>17, <1>18, OneThreadStep

\* When the walk is over it has been through every recorder of the event type.
LEMMA LeavePending ==
  ASSUME RIInv, NEW th \in Thread, Leave(th), NEW r \in Live, frame[th].type \in HandledBy[r]
  PROVE  ~Pending(th, r)
  <1>1. body[th] = "returned" /\ Walking(th) /\ Upcoming(th) = {} /\ frame[th].pc = "registered"
    BY DEF Leave, FinishDispatch, RIInv, ThreadOK, Walking
  <1>2. PICK i \in DOMAIN Walked(th) : callable[Walked(th)[i]].of = r
    BY <1>1, WalkProperties
  <1>3. frame[th].cursor = NoNode => i \in Upcoming(th)
    BY <1>1, WalkProperties DEF Ahead
  <1> QED BY <1>1, <1>3 DEF Pending

\* The dispatch is over: it has been through every recorder of its event type.
LEMMA LeaveStep ==
  ASSUME RIInv, IInv', NEW th \in Thread, Leave(th)
  PROVE  RIInv'
  <1>1. /\ UNCHANGED <<recorded_events, mtx, body, size, running, history, since, managerVars>>
        /\ body[th] = "returned" /\ Walking(th) /\ Upcoming(th) = {}
        /\ frame' = [frame EXCEPT ![th] = Idle]
        /\ current' = [current EXCEPT ![th] = 0]
    BY DEF Leave, FinishDispatch, recorderVars
  <1>2. /\ \A u \in Thread \ {th} : frame'[u] = frame[u] /\ current'[u] = current[u]
        /\ frame'[th] = Idle /\ current'[th] = 0
        /\ current' \in [Thread -> Nat]
    BY <1>1 DEF RIInv, IInv, TypeOK, RecorderShape
  <1>3. OthersStay(th) /\ RecorderShape'
    BY <1>1, <1>2 DEF OthersStay, RIInv, RecorderShape
  <1>4. ThreadOK(th)'
    BY <1>1, <1>2 DEF ThreadOK, Idle
  <1>5. frame[th].pc = "registered"
    BY <1>1 DEF RIInv, ThreadOK, Walking
  <1>6. ASSUME NEW r \in Live PROVE RecordingOK(r)'
    <2>1. ASSUME NEW s \in DOMAIN history, history[s].thread = th PROVE ~UnderWay(s, r)'
      <3>1. s # 0
        BY HistoryProperties DEF RIInv
      <3> QED BY <1>1, <1>2, <2>1, <3>1 DEF UnderWay, InFlight
    <2>2. ASSUME NEW s \in Due(r), history[s].thread = th, UnderWay(s, r) PROVE FALSE
      <3>1. current[th] = s /\ Pending(th, r) /\ s # 0
        BY <2>2, UnderWayIsPending, LiveIsRegistered, HistoryProperties DEF RIInv
      <3>2. frame[th].type \in HandledBy[r]
        BY <3>1, <2>2 DEF RIInv, ThreadOK, Due
      <3> QED BY <3>1, <3>2, LeavePending
    <2> QED BY <1>1, <1>2, <1>3, <2>1, <2>2, RecordingKept
  <1> QED BY <1>1, <1>3, <1>4, <1>6, QuietStep

\* What the dispatch of a section event tells of the events under way changes
\* neither whose they are nor their types.
LEMMA SectionsMoveProperties ==
  ASSUME RecorderShape, NEW moving \in SUBSET Callable
  PROVE  /\ SectionsMove(moving) \in Seq(Emission)
         /\ DOMAIN SectionsMove(moving) = DOMAIN history
         /\ Len(SectionsMove(moving)) = Len(history)
         /\ \A s \in DOMAIN history :
              LET h == SectionsMove(moving)[s]
              IN /\ h.thread = history[s].thread /\ h.type = history[s].type
                 /\ h.surely = history[s].surely \ (IF InFlight(s) THEN moving ELSE {})
                 /\ h.possibly = history[s].possibly \cup (IF InFlight(s) THEN moving ELSE {})
  <1> DEFINE moved(s) == [history[s] EXCEPT !.surely = @ \ moving, !.possibly = @ \cup moving]
             h == [s \in DOMAIN history |-> IF InFlight(s) THEN moved(s) ELSE history[s]]
  <1>1. SectionsMove(moving) = h
    BY DEF SectionsMove
  <1>2. history \in Seq(Emission) /\ DOMAIN history = 1 .. Len(history) /\ Len(history) \in Nat
    BY DEF RecorderShape
  <1>3. ASSUME NEW o \in Emission
        PROVE  LET q == [o EXCEPT !.surely = @ \ moving, !.possibly = @ \cup moving]
               IN /\ q \in Emission /\ q.thread = o.thread /\ q.type = o.type
                  /\ q.surely = o.surely \ moving /\ q.possibly = o.possibly \cup moving
    BY DEF Emission
  <1>4. ASSUME NEW s \in DOMAIN history
        PROVE  /\ h[s] \in Emission /\ h[s].thread = history[s].thread /\ h[s].type = history[s].type
               /\ h[s].surely = history[s].surely \ (IF InFlight(s) THEN moving ELSE {})
               /\ h[s].possibly = history[s].possibly \cup (IF InFlight(s) THEN moving ELSE {})
    <2>1. history[s] \in Emission
      BY <1>2
    <2>2. /\ moved(s) \in Emission /\ moved(s).thread = history[s].thread /\ moved(s).type = history[s].type
          /\ moved(s).surely = history[s].surely \ moving
          /\ moved(s).possibly = history[s].possibly \cup moving
      BY <1>3, <2>1
    <2>3. h[s] = IF InFlight(s) THEN moved(s) ELSE history[s]
      OBVIOUS
    <2> HIDE DEF moved, h
    <2> QED BY <2>1, <2>2, <2>3
  <1>5. DOMAIN h = DOMAIN history
    OBVIOUS
  <1>6. h \in Seq(Emission) /\ Len(h) = Len(history)
    <2>1. h \in [1 .. Len(history) -> Emission]
      BY <1>2, <1>4
    <2> HIDE DEF h
    <2>2. h \in Seq(Emission)
      BY <1>2, <2>1, SeqDef
    <2>3. DOMAIN h = 1 .. Len(h) /\ Len(h) \in Nat
      BY <2>2
    <2>4. \A n, m \in Nat : 1 .. n = 1 .. m => n = m
      OBVIOUS
    <2> QED BY <1>2, <1>5, <2>2, <2>3, <2>4
  <1> HIDE DEF h
  <1> QED BY <1>1, <1>4, <1>5, <1>6

\* Whatever event is emitted, the thread enters the Manager with it.
LEMMA EmitRecordedEnters ==
  ASSUME RIInv, NEW th \in Thread, NEW t \in EventType, NEW i,
         callbacks[t] = "dispatching", EmitAbout(th, t, i)
  PROVE  /\ frame[th].pc = "idle"
         /\ frame'[th].pc = "context" /\ frame'[th].type = t /\ frame'[th].cursor = NoNode
         /\ \A u \in Thread \ {th} : frame'[u] = frame[u]
         /\ UNCHANGED managerVars
  <1>1. \E id : Emit(th, t, id)
    BY EmitAboutEmits
  <1>2. PICK id : Emit(th, t, id)
    BY <1>1
  <1>3. /\ frame[th] = Idle /\ UNCHANGED managerVars
        /\ frame' = [frame EXCEPT ![th] = [Idle EXCEPT !.pc = "context", !.type = t, !.id = id]]
    BY <1>2 DEF Emit
  <1>4. DOMAIN frame = Thread
    BY DEF RIInv, IInv, TypeOK
  <1> QED BY <1>3, <1>4 DEF Idle

\* What the history is once an event has been emitted: the event comes last,
\* and those under way are told of the sections that begin to start or stop.
LEMMA EmitNamedHistory ==
  ASSUME RIInv, NEW th \in Thread, NEW t \in EventType, NEW i, NEW name \in Name \cup {NoName},
         EmitNamed(th, t, i, name), NEW n, n = Len(history) + 1
  PROVE  /\ n \in Nat /\ n # 0 /\ n \notin DOMAIN history
         /\ DOMAIN history' = DOMAIN history \cup {n} /\ Len(history') = n
         /\ history' \in Seq(Emission)
         /\ \A s \in DOMAIN history :
              /\ history'[s].thread = history[s].thread /\ history'[s].type = history[s].type
              /\ history[s].possibly \subseteq history'[s].possibly
              /\ history'[s].surely \subseteq history[s].surely
              /\ \A r \in Callable : InFlight(s) /\ section'[r].state # section[r].state =>
                   r \in history'[s].possibly /\ r \notin history'[s].surely
         /\ history'[n].thread = th /\ history'[n].type = t
         /\ \A r \in Callable : /\ r \in history'[n].surely <=> section'[r].state = "started"
                                /\ r \in history'[n].possibly <=> section'[r].state # "stopped"
  <1> DEFINE moving == {r \in Callable : section'[r].state # section[r].state}
             h == SectionsMove(moving)
             event == [thread |-> th, type |-> t, name |-> name,
                       surely |-> {r \in Callable : section'[r].state = "started"},
                       possibly |-> {r \in Callable : section'[r].state # "stopped"}]
  <1>1. history' = Append(h, event)
    BY DEF EmitNamed
  <1>2. /\ event \in Emission /\ event.thread = th /\ event.type = t
        /\ event.surely = {r \in Callable : section'[r].state = "started"}
        /\ event.possibly = {r \in Callable : section'[r].state # "stopped"}
    BY DEF Emission
  <1> HIDE DEF event
  <1>3. moving \in SUBSET Callable
    OBVIOUS
  <1>4. /\ h \in Seq(Emission) /\ DOMAIN h = DOMAIN history /\ Len(h) = Len(history)
        /\ \A s \in DOMAIN history :
             /\ h[s].thread = history[s].thread /\ h[s].type = history[s].type
             /\ h[s].surely = history[s].surely \ (IF InFlight(s) THEN moving ELSE {})
             /\ h[s].possibly = history[s].possibly \cup (IF InFlight(s) THEN moving ELSE {})
    <2> HIDE DEF moving
    <2> QED BY <1>3, SectionsMoveProperties DEF RIInv
  <1>5. \A r \in Callable : r \in moving <=> section'[r].state # section[r].state
    OBVIOUS
  <1> HIDE DEF h, moving
  <1>6. DOMAIN history = 1 .. Len(history) /\ Len(history) \in Nat
    BY HistoryProperties DEF RIInv
  <1>7. /\ Append(h, event) \in Seq(Emission) /\ Len(Append(h, event)) = Len(h) + 1
        /\ \A s \in 1 .. Len(h) : Append(h, event)[s] = h[s]
        /\ Append(h, event)[Len(h) + 1] = event
    BY <1>2, <1>4, AppendProperties
  <1>8. /\ DOMAIN history' = 1 .. n /\ history'[n] = event /\ Len(history') = n
        /\ \A s \in DOMAIN history : history'[s] = h[s]
    BY <1>1, <1>4, <1>6, <1>7
  <1>9. 1 .. n = (1 .. Len(history)) \cup {n} /\ n \in Nat /\ n # 0 /\ n \notin 1 .. Len(history)
    BY <1>6
  <1>10. \A s \in DOMAIN history :
           /\ history'[s].thread = history[s].thread /\ history'[s].type = history[s].type
           /\ history[s].possibly \subseteq history'[s].possibly
           /\ history'[s].surely \subseteq history[s].surely
           /\ \A r \in Callable : InFlight(s) /\ section'[r].state # section[r].state =>
                r \in history'[s].possibly /\ r \notin history'[s].surely
    BY <1>4, <1>5, <1>8
  <1> QED BY <1>1, <1>2, <1>6, <1>7, <1>8, <1>9, <1>10

\* The program has an event: it is due to the recorders there are, and under
\* way.
LEMMA EmitRecordedStep ==
  ASSUME RIInv, IInv', NEW th \in Thread, EmitRecorded(th)
  PROVE  RIInv'
  <1>1. PICK t \in EventType, name \in Name \cup {NoName}, i \in 0 .. Len(open[th]) :
          EmitNamed(th, t, i, name) /\ EmitAbout(th, t, i)
    BY EmittedProperties DEF EmitRecorded
  <1>2. PICK n \in Nat : n = Len(history) + 1
    BY HistoryProperties DEF RIInv
  <1>3. /\ callbacks[t] = "dispatching"
        /\ current' = [current EXCEPT ![th] = n]
        /\ UNCHANGED <<recorded_events, mtx, body, size, running, since>>
    BY <1>2, <1>1 DEF EmitNamed, recorderVars
  <1>4. /\ frame[th].pc = "idle"
        /\ frame'[th].pc = "context" /\ frame'[th].type = t /\ frame'[th].cursor = NoNode
        /\ \A u \in Thread \ {th} : frame'[u] = frame[u]
        /\ UNCHANGED managerVars
    BY <1>1, <1>3, EmitRecordedEnters
  <1>5. /\ DOMAIN history = 1 .. Len(history) /\ Len(history) \in Nat /\ n \in Nat /\ n # 0
        /\ DOMAIN history' = DOMAIN history \cup {n} /\ n \notin DOMAIN history
        /\ Len(history') = n /\ history' \in Seq(Emission)
        /\ \A s \in DOMAIN history : history'[s].thread = history[s].thread /\ history'[s].type = history[s].type
        /\ history'[n].thread = th /\ history'[n].type = t
    <2>1. t \in EventType
      OBVIOUS
    <2>2. DOMAIN history = 1 .. Len(history) /\ Len(history) \in Nat
      BY HistoryProperties DEF RIInv
    <2>3. RIInv /\ th \in Thread /\ EmitNamed(th, t, i, name) /\ n = Len(history) + 1
      BY <1>2, <1>1
    <2>4. /\ n \in Nat /\ n # 0 /\ n \notin DOMAIN history
          /\ DOMAIN history' = DOMAIN history \cup {n} /\ Len(history') = n
          /\ history' \in Seq(Emission)
          /\ history'[n].thread = th /\ history'[n].type = t
      BY <2>1, <2>3, EmitNamedHistory, ZenonT(40)
    <2>5. \A s \in DOMAIN history : history'[s].thread = history[s].thread /\ history'[s].type = history[s].type
      BY <2>1, <2>3, EmitNamedHistory
    <2> QED BY <2>2, <2>4, <2>5
  <1>6. /\ current'[th] = n /\ \A u \in Thread \ {th} : current'[u] = current[u]
        /\ current' \in [Thread -> Nat]
    BY <1>3, <1>5 DEF RIInv, RecorderShape
  <1>7. OthersStay(th) /\ RecorderShape'
    BY <1>3, <1>4, <1>5, <1>6 DEF OthersStay, RIInv, RecorderShape
  <1>8. current[th] = 0 /\ body[th] = "returned" /\ n # 0
    BY <1>4, <1>5 DEF RIInv, ThreadOK, Walking, RecorderShape
  <1>9. ThreadOK(th)'
    <2>1. \A s \in DOMAIN history' : s <= n
      BY <1>2, <1>5, HistoryProperties DEF RIInv
    <2> QED BY <1>3, <1>4, <1>5, <1>6, <1>8, <2>1 DEF ThreadOK
  <1>10. ASSUME NEW r \in Live PROVE RecordingOK(r)'
    <2>1. /\ r \in Callable /\ RecordingOK(r) /\ Due(r) \subseteq DOMAIN history
          /\ since'[r] = since[r] /\ since[r] \in Nat /\ recorded_events'[r] = recorded_events[r]
      BY <1>3, LiveIsRegistered, HistoryProperties DEF RIInv, RecorderShape
    <2>2. /\ Due(r) \subseteq Due(r)' /\ Due(r)' \subseteq Due(r) \cup {n}
      BY <1>2, <1>5, <2>1 DEF Due
    <2>3. UnderWay(n, r)'
      BY <1>4, <1>5, <1>6 DEF UnderWay, InFlight, Walking
    <2>4. ASSUME NEW s \in DOMAIN history PROVE UnderWay(s, r)' <=> UnderWay(s, r)
      <3>1. s # 0 /\ s # n /\ history[s].thread \in Thread /\ history'[s].thread = history[s].thread
        BY <1>5, HistoryProperties DEF RIInv
      <3>2. CASE history[s].thread = th
        BY <1>6, <1>8, <3>1, <3>2 DEF UnderWay, InFlight
      <3>3. CASE history[s].thread # th
        BY <1>7, <3>1, <3>3, OthersUnderWay
      <3> QED BY <3>2, <3>3
    <2>5. Range(recorded_events[r]) \subseteq Due(r)
      BY <2>1 DEF RecordingOK
    <2>6. \A s \in Range(recorded_events[r]) : ~UnderWay(s, r)'
      BY <2>1, <2>4, <2>5 DEF RecordingOK
    <2>7. MatcherOf[r] = "any" => \A s \in Due(r)' : s \in Range(recorded_events[r]) \/ UnderWay(s, r)'
      BY <2>1, <2>2, <2>3, <2>4 DEF RecordingOK
    <2>8. \A k \in DOMAIN recorded_events[r] :
            history'[recorded_events[r][k]].thread = history[recorded_events[r][k]].thread
      <3>1. \A k \in DOMAIN recorded_events[r] : recorded_events[r][k] \in Range(recorded_events[r])
        BY DEF Range
      <3> QED BY <1>5, <2>1, <2>5, <3>1
    <2>9. \A k, j \in DOMAIN recorded_events[r] :
            k < j /\ history'[recorded_events[r][k]].thread = history'[recorded_events[r][j]].thread
              => recorded_events[r][k] < recorded_events[r][j]
      BY <2>1, <2>8 DEF RecordingOK
    <2>10. since[r] < n /\ since[r] <= Len(history')
      BY <1>2, <1>5, <2>1 DEF RecordingOK
    <2>11. \A u \in Thread : current'[u] # 0 => since[r] < current'[u]
      BY <1>6, <2>1, <2>10 DEF RecordingOK
    <2>12. IsInjective(recorded_events[r])
      BY <2>1 DEF RecordingOK
    <2> QED BY <2>1, <2>2, <2>5, <2>6, <2>7, <2>9, <2>10, <2>11, <2>12 DEF RecordingOK
  <1>11. \A r \in Callable : mtx'[r] = mtx[r] /\ mtx[r] # th
    BY <1>3, <1>8, HoldsNoMutex
  <1>12. /\ DOMAIN history \subseteq DOMAIN history'
         /\ \A s \in DOMAIN history' \ DOMAIN history : history'[s].thread = th
    BY <1>5
  <1>13. \A r \in Callable : recorded_events'[r] = recorded_events[r]
    BY <1>3
  <1> QED BY <1>5, <1>7, <1>9, <1>10, <1>11, <1>12, <1>13, OneThreadStep

-----------------------------------------------------------------------------
(***************************************************************************)
(* The invariant holds.                                                    *)
(***************************************************************************)
LEMMA InitRIInv == RecorderInit => RIInv
  <1> SUFFICES ASSUME RecorderInit PROVE RIInv
    OBVIOUS
  <1>1. IInv
    BY InitIInv DEF RecorderInit
  <1>2. /\ listeners = <<>> /\ frame = [th \in Thread |-> Idle]
    BY DEF RecorderInit, Init
  <1>3. Nodes(listeners) = {} /\ Live = {}
    BY <1>2 DEF RecorderInit, Nodes, Range, Live
  <1>4. RecorderShape
    BY DEF RecorderInit, RecorderShape, NothingRecorded
  <1>5. \A th \in Thread : ThreadOK(th)
    BY <1>2 DEF RecorderInit, ThreadOK, Idle
  <1>6. MutexHeld
    BY DEF RecorderInit, MutexHeld
  <1>7. Recorders
    BY <1>3 DEF RecorderInit, Recorders, NothingRecorded, IsInjective, Range
  <1> QED BY <1>1, <1>3, <1>4, <1>5, <1>6, <1>7 DEF RIInv

\* A step that is none of the recorders' changes nothing.
LEMMA UnmovedStep == RIInv /\ IInv' /\ UNCHANGED rvars => RIInv'
  <1> SUFFICES ASSUME RIInv, IInv', UNCHANGED rvars PROVE RIInv'
    OBVIOUS
  <1>1. UNCHANGED <<frame, listeners, callable, registered_callbacks, recorded_events, mtx, body,
                   size, running, history, current, since>>
    BY DEF rvars, vars, managerVars, listVars, recorderVars, historyVars
  <1>2. running' \in Seq(Callable) /\ IsInjective(running') /\ Live' = Live
    BY <1>1 DEF RIInv, RecorderShape, Recorders, Live
  <1> QED BY <1>1, <1>2, UntouchedStep

LEMMA NextRIInv == RIInv /\ [RecorderNext]_rvars => RIInv'
  <1> SUFFICES ASSUME RIInv, [RecorderNext]_rvars PROVE RIInv'
    OBVIOUS
  <1>1. IInv'
    BY RecorderStep, NextIInv DEF RIInv
  <1>2. CASE Lifecycle
    BY <1>1, <1>2, LifecycleStep
  <1>3. ASSUME NEW r \in Callable, RecordBegin(r) PROVE RIInv'
    BY <1>1, <1>3, RecordBeginStep
  <1>4. CASE RecordReturn
    BY <1>1, <1>4, RecordReturnStep
  <1>5. CASE RecordThrow
    BY <1>1, <1>5, RecordThrowStep
  <1>6. ASSUME NEW th \in Thread, EmitRecorded(th) PROVE RIInv'
    BY <1>1, <1>6, EmitRecordedStep
  <1>9. ASSUME NEW th \in Thread, EmitUnheard(th) PROVE RIInv'
    BY <1>1, <1>9, EmitUnheardStep
  <1>7. ASSUME NEW th \in Thread, Record(th) PROVE RIInv'
    <2>1. CASE CallContext(th)
      BY <1>1, <2>1, CallContextStep
    <2>2. CASE Enter(th)
      BY <1>1, <2>2, EnterStep
    <2>3. CASE AskMatcher(th)
      BY <1>1, <2>3, AskMatcherStep
    <2>4. CASE Lock(th)
      BY <1>1, <2>4, LockStep
    <2>5. CASE PushBack(th)
      BY <1>1, <2>5, PushBackStep
    <2>6. CASE Leave(th)
      BY <1>1, <2>6, LeaveStep
    <2> QED BY <1>7, <2>1, <2>2, <2>3, <2>4, <2>5, <2>6 DEF Record
  <1>8. CASE UNCHANGED rvars
    BY <1>1, <1>8, UnmovedStep
  <1> QED BY <1>2, <1>3, <1>4, <1>5, <1>6, <1>7, <1>8, <1>9 DEF RecorderNext

\* Every recorder records what it has been made for, whatever the threads do
\* and however their calls interleave: each event of it once, in the order of
\* its thread, and, when its matcher takes every event, none missed
\* (RecorderListener::operator() and record()).
THEOREM RecordsEveryEventHolds == RecorderSpec => []RecordsEveryEvent
  <1>1. RIInv => RecordsEveryEvent
    BY DEF RIInv, RecordingOK, RecordsEveryEvent
  <1> QED BY <1>1, InitRIInv, NextRIInv, PTL DEF RecorderSpec

-----------------------------------------------------------------------------
(***************************************************************************)
(* Type correctness.                                                       *)
(***************************************************************************)
Selection == [of : Thread \cup {NoThread}, at : Nat, state : SectionState]

SectionShape ==
  /\ matcher \in [Callable -> SectionMatcherState]
  /\ section \in [Callable -> Selection]

\* RecorderTypeOK bounds what is recorded by the events there can be, for
\* which a recorder may not have one twice: so it rests on the invariant.
TypeIInv ==
  /\ RIInv
  /\ SectionShape
  /\ Len(history) <= MaxEvents
  /\ aborted \in BOOLEAN
  /\ \A r \in Callable : since[r] <= MaxEvents
  /\ \A th \in Thread : body[th] # "locked" => size[th] = 0

\* No sequence without repetitions is longer than there are values for it.
LEMMA InjectiveBound ==
  ASSUME NEW n \in Nat, NEW l \in Seq(Nat), IsInjective(l), Range(l) \subseteq 1 .. n
  PROVE  Len(l) <= n /\ l \in Seq(1 .. n)
  <1>1. /\ DOMAIN l = 1 .. Len(l) /\ Len(l) \in Nat
        /\ \A i \in DOMAIN l : l[i] \in 1 .. n
    BY DEF Range
  <1>2. l \in [1 .. Len(l) -> 1 .. n]
    BY <1>1
  <1>3. l \in Injection(1 .. Len(l), 1 .. n)
    BY <1>2 DEF Injection
  <1>4. Cardinality(1 .. Len(l)) = Len(l) /\ Cardinality(1 .. n) = n /\ IsFiniteSet(1 .. n)
    <2>1. ASSUME NEW k \in Nat PROVE Cardinality(1 .. k) = k /\ IsFiniteSet(1 .. k)
      BY FS_Interval
    <2> QED BY <1>1, <2>1
  <1>5. Len(l) <= n
    BY <1>3, <1>4, FS_Injection
  <1> QED BY <1>1, <1>2, <1>5, SeqDef

\* A matcher keeps its members, whatever it is asked.
LEMMA AfterType ==
  ASSUME NEW m \in SectionMatcherState, NEW e, e.id \in Nat
  PROVE  After(m, e) \in SectionMatcherState
  BY DEF After, SectionMatcherState

LEMMA TypeIInvImplies == TypeIInv => RecorderTypeOK
  <1> SUFFICES ASSUME TypeIInv PROVE RecorderTypeOK
    OBVIOUS
  <1>1. /\ RIInv /\ RecorderShape /\ SectionShape /\ MutexHeld /\ MaxEvents \in Nat
        /\ DOMAIN history = 1 .. Len(history) /\ Len(history) <= MaxEvents /\ Len(history) \in Nat
    BY HistoryProperties, RecorderAssumption DEF TypeIInv, RIInv
  <1>2. ASSUME NEW r \in Callable
        PROVE  Len(recorded_events[r]) <= MaxEvents /\ recorded_events[r] \in Seq(1 .. MaxEvents)
    <2>1. CASE r \in Live
      <3>1. IsInjective(recorded_events[r]) /\ Range(recorded_events[r]) \subseteq Due(r)
        BY <1>1, <2>1 DEF RIInv, RecordingOK
      <3>2. Due(r) \subseteq 1 .. MaxEvents
        BY <1>1, HistoryProperties
      <3>3. recorded_events[r] \in Seq(Nat)
        BY <1>1 DEF RecorderShape
      <3> QED BY <1>1, <3>1, <3>2, <3>3, InjectiveBound
    <2>2. CASE r \notin Live
      <3>1. recorded_events[r] = <<>>
        BY <1>1, <2>2 DEF RIInv, Recorders
      <3> QED BY <1>1, <3>1
    <2> QED BY <2>1, <2>2
  <1>3. ASSUME NEW th \in Thread
        PROVE  current[th] \in 0 .. MaxEvents /\ size[th] \in 0 .. MaxEvents
    <2>1. current[th] # 0 => current[th] \in DOMAIN history
      BY <1>1 DEF RIInv, ThreadOK
    <2>2. body[th] = "locked" => size[th] = Len(recorded_events[Listening(th)])
      BY <1>1 DEF RIInv, ThreadOK
    <2>3. body[th] = "locked" => Listening(th) \in Callable
      BY <1>1, ListeningProperties
    <2> QED BY <1>1, <1>2, <2>1, <2>2, <2>3 DEF TypeIInv, RecorderShape
  <1>4. ASSUME NEW th \in Thread
        PROVE  /\ body[th] # "returned" => Walking(th) /\ frame[th].cursor # NoNode
               /\ body[th] = "locked" => mtx[Listening(th)] = th
    BY <1>1 DEF RIInv, ThreadOK
  <1>5. \A r \in Callable : since[r] \in 0 .. MaxEvents
    BY <1>1 DEF TypeIInv, RecorderShape
  <1>6. \A r \in Callable : mtx[r] # NoThread => body[mtx[r]] = "locked" /\ Listening(mtx[r]) = r
    BY <1>1 DEF MutexHeld
  <1> QED BY <1>1, <1>2, <1>3, <1>4, <1>5, <1>6 DEF RecorderTypeOK, RecorderShape, SectionShape, Selection, TypeIInv

LEMMA InitTypeIInv == RecorderInit => TypeIInv
  <1> SUFFICES ASSUME RecorderInit PROVE TypeIInv
    OBVIOUS
  <1>1. RIInv /\ MaxEvents \in Nat
    BY InitRIInv, RecorderAssumption
  <1>2. Unmatched \in SectionMatcherState
    BY RecorderAssumption DEF Unmatched, SectionMatcherState
  <1>3. NoSection \in Selection
    BY DEF NoSection, SectionState, Selection
  <1>4. SectionShape
    BY <1>2, <1>3 DEF RecorderInit, SectionShape, NothingMatched, NothingSelected
  <1>5. /\ Len(history) = 0 /\ aborted \in BOOLEAN
        /\ \A r \in Callable : since[r] = 0
        /\ \A th \in Thread : size[th] = 0
    BY DEF RecorderInit
  <1> QED BY <1>1, <1>4, <1>5 DEF TypeIInv

\* What a step has to show that leaves the bodies and the flag alone.
LEMMA BoundsKept ==
  ASSUME TypeIInv, RIInv', SectionShape', Len(history') <= MaxEvents,
         UNCHANGED <<body, size, aborted, since>>
  PROVE  TypeIInv'
  BY DEF TypeIInv

\* The recorder's members when it is destroyed are those of one that does not
\* exist.
LEMMA RecordReturnType ==
  ASSUME TypeIInv, RIInv', RecordReturn
  PROVE  TypeIInv'
  <1>1. /\ UNCHANGED <<body, size, aborted>>
        /\ matcher' = [matcher EXCEPT ![Last(running)] = Unmatched]
        /\ history' = IF Live = {Last(running)} THEN <<>> ELSE history
        /\ since' = [since EXCEPT ![Last(running)] = 0]
        /\ section' = [section EXCEPT ![Last(running)] = NoSection]
    BY DEF RecordReturn
  <1>2. Unmatched \in SectionMatcherState /\ MaxEvents \in Nat
    BY RecorderAssumption DEF Unmatched, SectionMatcherState
  <1>3. NoSection \in Selection
    BY DEF NoSection, SectionState, Selection
  <1>4. SectionShape'
    BY <1>1, <1>2, <1>3 DEF TypeIInv, SectionShape
  <1>5. Len(history') <= MaxEvents
    BY <1>1, <1>2 DEF TypeIInv
  <1>6. \A r \in Callable : since'[r] <= MaxEvents
    BY <1>1, <1>2 DEF TypeIInv, RIInv, RecorderShape
  <1> QED BY <1>1, <1>4, <1>5, <1>6 DEF TypeIInv

\* A section that is closed, started or stopped is a section still; those
\* behind one that is closed move up.
LEMMA SectionsCloseType ==
  ASSUME SectionShape, NEW th \in Thread, NEW t, NEW i \in Nat
  PROVE  SectionsClose(th, t, i) \in [Callable -> Selection]
  <1>1. ASSUME NEW S \in Selection
        PROVE  /\ [S EXCEPT !.of = NoThread] \in Selection
               /\ S.at > i => [S EXCEPT !.at = @ - 1] \in Selection
    BY DEF Selection
  <1>2. \A r \in Callable : SectionsClose(th, t, i)[r] \in Selection
    BY <1>1 DEF SectionsClose, SectionShape
  <1> QED BY <1>2 DEF SectionsClose

LEMMA SectionsAfterType ==
  ASSUME SectionShape, NEW th \in Thread, NEW t, NEW i \in Nat
  PROVE  SectionsAfter(th, t, i) \in [Callable -> Selection]
  <1>1. ASSUME NEW S \in Selection
        PROVE  \A state \in SectionState : [S EXCEPT !.state = state] \in Selection
    BY DEF Selection
  <1>2. \A r \in Callable : SectionsClose(th, t, i)[r] \in Selection
    BY SectionsCloseType
  <1>3. "starting" \in SectionState /\ "stopping" \in SectionState
    BY DEF SectionState
  <1>4. \A r \in Callable : SectionsAfter(th, t, i)[r] \in Selection
    BY <1>1, <1>2, <1>3 DEF SectionsAfter, SectionShape
  <1> QED BY <1>4 DEF SectionsAfter

LEMMA EmitRecordedType ==
  ASSUME TypeIInv, RIInv', NEW th \in Thread, EmitRecorded(th)
  PROVE  TypeIInv'
  <1>1. PICK t \in EventType, name \in Name \cup {NoName}, i \in 0 .. Len(open[th]) :
          EmitNamed(th, t, i, name)
    BY EmittedProperties DEF EmitRecorded
  <1>2. UNCHANGED <<matcher, body, size, aborted, since>> /\ Len(history) < MaxEvents
    BY <1>1 DEF EmitNamed, recorderVars
  <1>3. MaxEvents \in Nat
    BY RecorderAssumption
  <1>4. Len(history') = Len(history) + 1 /\ Len(history) \in Nat
    BY <1>1, EmitNamedHistory, HistoryProperties DEF TypeIInv, RIInv
  <1>5. SectionsAfter(th, t, i) \in [Callable -> Selection]
    BY SectionsAfterType DEF TypeIInv
  <1>6. SectionShape'
    BY <1>1, <1>2, <1>5 DEF EmitNamed, TypeIInv, SectionShape
  <1> QED BY <1>2, <1>3, <1>4, <1>6, BoundsKept

LEMMA EmitUnheardType ==
  ASSUME TypeIInv, RIInv', NEW th \in Thread, EmitUnheard(th)
  PROVE  TypeIInv'
  <1>1. PICK t \in EventType, i \in 0 .. Len(open[th]) :
          /\ section' = SectionsClose(th, t, i)
          /\ UNCHANGED <<matcher, body, size, aborted, history, since>>
    BY EmittedProperties DEF EmitUnheard, recorderVars
  <1>2. SectionsClose(th, t, i) \in [Callable -> Selection]
    BY SectionsCloseType DEF TypeIInv
  <1>3. SectionShape'
    BY <1>1, <1>2 DEF TypeIInv, SectionShape
  <1> QED BY <1>1, <1>3, BoundsKept DEF TypeIInv

LEMMA AskMatcherType ==
  ASSUME TypeIInv, RIInv', NEW th \in Thread, AskMatcher(th)
  PROVE  TypeIInv'
  <1>1. /\ body[th] = "entered"
        /\ UNCHANGED <<size, history, since>>
        /\ UNCHANGED body \/ \E place : body' = [body EXCEPT ![th] = place]
        /\ \/ UNCHANGED matcher
           \/ matcher' = [matcher EXCEPT ![Listening(th)] = After(@, Received(th))]
        /\ \/ UNCHANGED section
           \/ section' = [section EXCEPT ![Listening(th)] =
                            [of |-> th, at |-> Len(open[th]) + 1, state |-> "stopped"]]
        /\ aborted' \in BOOLEAN
    <2> DEFINE r == Listening(th)
               after == After(matcher[r], Received(th))
    <2>1. CASE MatcherOf[r] = "section" /\ Aborts(matcher[r], Received(th))
      BY <2>1 DEF AskMatcher
    <2>2. CASE ~(MatcherOf[r] = "section" /\ Aborts(matcher[r], Received(th)))
      <3>1. aborted' = aborted
        BY <2>2 DEF AskMatcher
      <3>2. \/ UNCHANGED matcher
            \/ matcher' = [matcher EXCEPT ![r] = After(@, Received(th))]
        <4>1. r \in DOMAIN matcher => [matcher EXCEPT ![r] = @] = matcher
          BY DEF TypeIInv, SectionShape
        <4>2. r \in DOMAIN matcher
          BY ListeningProperties DEF AskMatcher, TypeIInv, SectionShape
        <4> QED BY <2>2, <4>1, <4>2 DEF AskMatcher
      <3>3. \/ UNCHANGED section
            \/ section' = [section EXCEPT ![r] =
                              [of |-> th, at |-> Len(open[th]) + 1, state |-> "stopped"]]
        BY <2>2 DEF AskMatcher
      <3>4. \E place : body' = [body EXCEPT ![th] = place]
        BY <2>2 DEF AskMatcher
      <3>5. body[th] = "entered" /\ UNCHANGED <<size, history, since>>
        BY DEF AskMatcher
      <3> QED BY <3>1, <3>2, <3>3, <3>4, <3>5 DEF TypeIInv
    <2> QED BY <2>1, <2>2
  <1>2. Received(th).id \in Nat
    <2>1. frame[th].id \in Nat
      BY DEF TypeIInv, RIInv, IInv, TypeOK, Frame
    <2> QED BY <2>1 DEF Received
  <1>3. \A r \in Callable : After(matcher[r], Received(th)) \in SectionMatcherState
    BY <1>2, AfterType DEF TypeIInv, SectionShape
  <1>4. [of |-> th, at |-> Len(open[th]) + 1, state |-> "stopped"] \in Selection
    <2>1. Len(open[th]) \in Nat
      BY DEF TypeIInv, RIInv, IInv, TypeOK
    <2> QED BY <2>1 DEF SectionState, Selection
  <1>5. SectionShape'
    <2>1. matcher' \in [Callable -> SectionMatcherState]
      BY <1>1, <1>3 DEF TypeIInv, SectionShape
    <2>2. section' \in [Callable -> Selection]
      BY <1>1, <1>4 DEF TypeIInv, SectionShape
    <2> QED BY <2>1, <2>2 DEF SectionShape
  <1>6. \A u \in Thread : body'[u] # "locked" => size'[u] = 0
    BY <1>1 DEF TypeIInv, RIInv, RecorderShape
  <1> QED BY <1>1, <1>5, <1>6 DEF TypeIInv

\* A section whose start or stop is over is a section still.
LEMMA LeaveType ==
  ASSUME TypeIInv, RIInv', NEW th \in Thread, Leave(th)
  PROVE  TypeIInv'
  <1>1. UNCHANGED <<matcher, body, size, aborted, history, since>>
    BY DEF Leave, recorderVars
  <1>2. ASSUME NEW r \in Callable
        PROVE  section'[r] \in Selection
    <2>1. /\ section[r] \in Selection
          /\ [section[r] EXCEPT !.state = "started"] \in Selection
          /\ [section[r] EXCEPT !.state = "stopped"] \in Selection
      BY DEF TypeIInv, SectionShape, SectionState, Selection
    <2> QED BY <2>1 DEF Leave
  <1>3. section' = [r \in Callable |-> section'[r]]
    BY DEF Leave
  <1>4. SectionShape'
    BY <1>1, <1>2, <1>3 DEF TypeIInv, SectionShape
  <1> QED BY <1>1, <1>4, BoundsKept DEF TypeIInv

LEMMA NextTypeIInv == TypeIInv /\ [RecorderNext]_rvars => TypeIInv'
  <1> SUFFICES ASSUME TypeIInv, [RecorderNext]_rvars PROVE TypeIInv'
    OBVIOUS
  <1>1. RIInv' /\ MaxEvents \in Nat
    BY NextRIInv, RecorderAssumption DEF TypeIInv
  <1>2. CASE Lifecycle
    <2>1. CASE UNCHANGED <<recorderVars, history, since, section>>
      <3>1. SectionShape'
        BY <2>1 DEF recorderVars, TypeIInv, SectionShape
      <3> QED BY <1>1, <1>2, <2>1, <3>1, BoundsKept DEF Lifecycle, TypeIInv
    <2>2. CASE /\ matcher' = NothingMatched /\ section' = NothingSelected
               /\ history' = <<>> /\ since' = [r \in Callable |-> 0]
      <3>1. Unmatched \in SectionMatcherState
        BY RecorderAssumption DEF Unmatched, SectionMatcherState
      <3>2. NoSection \in Selection
        BY DEF NoSection, SectionState, Selection
      <3>3. SectionShape'
        BY <2>2, <3>1, <3>2 DEF SectionShape, NothingMatched, NothingSelected
      <3>4. UNCHANGED <<body, size, aborted>>
        BY <1>2 DEF Lifecycle
      <3> QED BY <1>1, <2>2, <3>3, <3>4 DEF TypeIInv
    <2> QED BY <1>2, <2>1, <2>2 DEF Lifecycle
  <1>3. ASSUME NEW r \in Callable, RecordBegin(r) PROVE TypeIInv'
    <2>1. /\ UNCHANGED <<matcher, body, size, aborted, history, section>>
          /\ since' = [since EXCEPT ![r] = Len(history)]
      BY <1>3 DEF RecordBegin, recorderVars
    <2>2. \A q \in Callable : since'[q] <= MaxEvents
      BY <2>1 DEF TypeIInv, RIInv, RecorderShape
    <2> QED BY <1>1, <2>1, <2>2 DEF TypeIInv, SectionShape
  <1>4. CASE RecordReturn
    BY <1>1, <1>4, RecordReturnType
  <1>5. CASE RecordThrow \/ UNCHANGED rvars
    <2>1. UNCHANGED <<matcher, body, size, aborted, history, since, section>>
      BY <1>5 DEF RecordThrow, rvars, recorderVars, historyVars
    <2> QED BY <1>1, <2>1 DEF TypeIInv, SectionShape
  <1>6. ASSUME NEW th \in Thread, EmitRecorded(th) PROVE TypeIInv'
    BY <1>1, <1>6, EmitRecordedType
  <1>8. ASSUME NEW th \in Thread, EmitUnheard(th) PROVE TypeIInv'
    BY <1>1, <1>8, EmitUnheardType
  <1>7. ASSUME NEW th \in Thread, Record(th) PROVE TypeIInv'
    <2>1. CASE CallContext(th) \/ Enter(th) \/ Lock(th) \/ PushBack(th)
      <3>1. UNCHANGED <<matcher, aborted, history, since, section>>
        BY <2>1 DEF CallContext, Enter, Lock, PushBack, recorderVars, historyVars
      <3>2. \A u \in Thread : body'[u] # "locked" => size'[u] = 0
        BY <2>1 DEF CallContext, Enter, Lock, PushBack, TypeIInv, RIInv, RecorderShape
      <3> QED BY <1>1, <3>1, <3>2 DEF TypeIInv, SectionShape
    <2>2. CASE AskMatcher(th)
      BY <1>1, <2>2, AskMatcherType
    <2>3. CASE Leave(th)
      BY <1>1, <2>3, LeaveType
    <2> QED BY <1>7, <2>1, <2>2, <2>3 DEF Record
  <1> QED BY <1>2, <1>3, <1>4, <1>5, <1>6, <1>7, <1>8 DEF RecorderNext

\* The recorders, their matchers and the threads in their operator() keep
\* their types; no recorder holds more events than have been emitted
\* (RecorderListener).
THEOREM RecorderTypeOKHolds == RecorderSpec => []RecorderTypeOK
  BY InitTypeIInv, NextTypeIInv, TypeIInvImplies, PTL DEF RecorderSpec
=============================================================================
