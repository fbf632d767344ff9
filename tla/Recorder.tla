------------------------------ MODULE Recorder ------------------------------
(***************************************************************************)
(* RecorderListener on top of the Manager: one thread of the program calls *)
(* record(), which makes a recorder, registers it, runs a callable and     *)
(* unregisters it; the events come from this and from other threads.  The  *)
(* recorder's operator() asks its matcher and then, under a mutex, pushes  *)
(* the event back.  The calls of several threads interleave.               *)
(*                                                                         *)
(* The listeners of the Manager are recorders here.  Every step is one of  *)
(* the Manager or leaves it alone.                                         *)
(***************************************************************************)
EXTENDS Manager, SectionMatcher

CONSTANTS
  Main,          \* the thread that calls record()
  MatcherOf,     \* AnyEventMatcher or EventInProfileSectionMatcher, for each recorder
  EmittedBy,     \* what each thread makes Kokkos emit: event types with a name
  Name,          \* names of events
  NoName,        \* of an event that has none
  NoThread,
  MaxEvents,     \* bound: events the program makes Kokkos emit
  MaxTogether    \* bound: of these, while there are several recorders

ASSUME RecorderAssumption ==
  /\ Main \in Thread
  /\ NoThread \notin Thread
  /\ EmittedBy \in [Thread -> SUBSET (Emitted \X (Name \cup {NoName}))]
  /\ \A th \in Thread : \A e \in EmittedBy[th] : e[2] = NoName <=> e[1] \notin NamedEvent
  /\ MatcherOf \in [Callable -> {"any", "section"}]
  /\ NoName \notin Name
  /\ Wanted \subseteq Name
  /\ invalid_section_id \in Nat
  /\ MaxEvents \in Nat
  /\ MaxTogether \in Nat

VARIABLES
  recorded_events,  \* of each recorder, as positions in history
  matcher,          \* of each recorder
  mtx,              \* the thread that holds it, for each recorder
  body,             \* where each thread is in operator()
  size,             \* the end of the deque, as the thread in push_back has read it
  running,          \* the recorders of the calls of record() under way, innermost last
  aborted,          \* has the program been aborted?
  history,          \* the events emitted since there is a recorder, in order
  current,          \* the event each thread is dispatching, or 0
  since,            \* how many events had been emitted when the recorder was made
  section           \* the section each matcher has selected: which, and is it running?

recorderVars == <<recorded_events, matcher, mtx>>
historyVars  == <<history, current, since, section>>
rvars == <<vars, recorderVars, body, size, running, aborted, historyVars>>

\* An event, the recorders within whose selected section's run its dispatch
\* was from beginning to end, and those for which it was so for a moment.
Emission == [thread : Thread, type : EventType, name : Name \cup {NoName},
             surely : SUBSET Callable, possibly : SUBSET Callable]

\* The calls of start and stop are not points in time either: the section is
\* about to run, or about to stop, while their dispatch is under way.
SectionState == {"stopped", "starting", "started", "stopping"}

-----------------------------------------------------------------------------
\* The recorders that exist: those record() holds a pointer to, and those the
\* Manager does.
Live == Range(running) \cup {callable[n].of : n \in Nodes(listeners)}

\* The recorder whose body the thread is in, and the event it was given.
Listening(th) == callable[frame[th].cursor].of

Received(th) == [type |-> frame[th].type, name |-> history[current[th]].name, id |-> frame[th].id]

RecorderTypeOK ==
  /\ recorded_events \in [Callable -> Seq(1 .. MaxEvents)]
  /\ matcher \in [Callable -> SectionMatcherState]
  /\ mtx \in [Callable -> Thread \cup {NoThread}]
  /\ body \in [Thread -> {"returned", "entered", "matched", "locked"}]
  /\ size \in [Thread -> 0 .. MaxEvents]
  /\ running \in Seq(Callable)
  /\ aborted \in BOOLEAN
  /\ history \in Seq(Emission)
  /\ current \in [Thread -> 0 .. MaxEvents]
  /\ since \in [Callable -> 0 .. MaxEvents]
  /\ section \in [Callable -> [of : Thread \cup {NoThread}, at : Nat, state : SectionState]]
  /\ \A th \in Thread :
       /\ body[th] # "returned" => Walking(th) /\ frame[th].cursor # NoNode
       /\ body[th] = "locked" => mtx[Listening(th)] = th
  /\ \A r \in Callable : mtx[r] # NoThread => body[mtx[r]] = "locked" /\ Listening(mtx[r]) = r

\* The members a recorder is made with; those of one that does not exist stay
\* so.
NoSection == [of |-> NoThread, at |-> 0, state |-> "stopped"]
NothingRecorded == [r \in Callable |-> <<>>]
NothingMatched  == [r \in Callable |-> Unmatched]
NothingSelected == [r \in Callable |-> NoSection]

RecorderInit ==
  /\ Init
  /\ recorded_events = NothingRecorded
  /\ matcher = NothingMatched
  /\ mtx = [r \in Callable |-> NoThread]
  /\ body = [th \in Thread |-> "returned"]
  /\ size = [th \in Thread |-> 0]
  /\ running = <<>>
  /\ aborted = FALSE
  /\ history = <<>>
  /\ current = [th \in Thread |-> 0]
  /\ since = [r \in Callable |-> 0]
  /\ section = NothingSelected

-----------------------------------------------------------------------------
\* The program brings the Manager up, and down when no record() is under way.
Lifecycle ==
  /\ \/ initialize /\ UNCHANGED <<recorderVars, history, since, section>>
     \/ /\ running = <<>>
        /\ finalize
        /\ recorded_events' = NothingRecorded
        /\ matcher' = NothingMatched
        /\ history' = <<>>
        /\ since' = [r \in Callable |-> 0]
        /\ section' = NothingSelected
        /\ UNCHANGED mtx
  /\ UNCHANGED <<body, size, running, aborted, current>>

\* record() until it invokes the callable, which may call record() again.
\* Among the sections that are open when a section is to be recorded there
\* may be no other whose id is that of the section: they have been numbered
\* by this manager.
RecordBegin(r) ==
  /\ r \notin Live
  /\ frame[Main] = Idle
  /\ MatcherOf[r] = "section" =>
       \A th \in Thread : \A i \in Sections(th) : open[th][i].owner = "manager"
  /\ register_listener(Main, r, TRUE)
  /\ running' = Append(running, r)
  /\ since' = [since EXCEPT ![r] = Len(history)]
  /\ UNCHANGED <<recorderVars, body, size, aborted, history, current, section>>

\* The callable has returned: the recorder is unregistered, its events are
\* moved out and it is destroyed.
RecordReturn ==
  /\ running # <<>>
  /\ frame[Main] = Idle
  /\ unregister_pointer(Main, Last(running))
  /\ recorded_events' = [recorded_events EXCEPT ![Last(running)] = <<>>]
  /\ matcher' = [matcher EXCEPT ![Last(running)] = Unmatched]
  /\ running' = Front(running)
  /\ history' = IF Live = {Last(running)} THEN <<>> ELSE history
  /\ since' = [since EXCEPT ![Last(running)] = 0]
  /\ section' = [section EXCEPT ![Last(running)] = NoSection]
  /\ UNCHANGED <<mtx, body, size, aborted, current>>

\* The callable throws: record() drops its pointer, the Manager keeps its own.
RecordThrow ==
  /\ running # <<>>
  /\ frame[Main] = Idle
  /\ running' = Front(running)
  /\ UNCHANGED <<vars, recorderVars, body, size, aborted, historyVars>>

-----------------------------------------------------------------------------
\* An event of the thread, about what it has open at i, or about none of that.
EmitAbout(th, t, i) ==
  \/ i = 0 /\ (EmitOpening(th, t) \/ EmitOther(th, t))
  \/ EmitSection(th, t, i)
  \/ /\ i \in DOMAIN open[th]
     /\ t = paired_event[open[th][i].type]
     /\ EmitClosing(th, i)

\* What the event does to the selected sections: it ends one or moves its
\* place,
SectionsClose(th, t, i) ==
  [r \in Callable |->
     CASE t \in EndEvent \cup {"DestroyProfileSectionEvent"} /\ section[r].of = th /\ section[r].at = i
            -> [section[r] EXCEPT !.of = NoThread]
       [] t \in EndEvent \cup {"DestroyProfileSectionEvent"} /\ section[r].of = th /\ section[r].at > i
            -> [section[r] EXCEPT !.at = @ - 1]
       [] OTHER -> section[r]]

\* or begins to start or to stop it.
SectionsAfter(th, t, i) ==
  [r \in Callable |->
     CASE t = "StartProfileSectionEvent" /\ section[r] = [of |-> th, at |-> i, state |-> "stopped"]
            -> [section[r] EXCEPT !.state = "starting"]
       [] t = "StopProfileSectionEvent" /\ section[r] = [of |-> th, at |-> i, state |-> "started"]
            -> [section[r] EXCEPT !.state = "stopping"]
       [] OTHER -> SectionsClose(th, t, i)[r]]

\* Whatever is being dispatched when a section begins to start or to stop is
\* not surely within its run, nor surely outside it.
InFlight(s) == current[history[s].thread] = s

SectionsMove(moving) ==
  [s \in DOMAIN history |->
     IF InFlight(s)
     THEN [history[s] EXCEPT !.surely = @ \ moving, !.possibly = @ \cup moving]
     ELSE history[s]]

\* Kokkos calls the Manager for an event of the thread, and so some recorder.
EmitNamed(th, t, i, name) ==
  LET after == SectionsAfter(th, t, i)
  IN /\ callbacks[t] = "dispatching"
     /\ Len(history) < MaxEvents
     /\ Cardinality(Live) > 1 => Len(history) < MaxTogether
     /\ section' = after
     /\ history' = Append(SectionsMove({r \in Callable : after[r].state # section[r].state}),
                          [thread |-> th, type |-> t, name |-> name,
                           surely |-> {r \in Callable : after[r].state = "started"},
                           possibly |-> {r \in Callable : after[r].state # "stopped"}])
     /\ current' = [current EXCEPT ![th] = Len(history) + 1]
     /\ UNCHANGED <<recorderVars, body, size, running, aborted, since>>

EmitRecorded(th) ==
  \E e \in EmittedBy[th], i \in 0 .. Len(open[th]) :
    EmitNamed(th, e[1], i, e[2]) /\ EmitAbout(th, e[1], i)

\* An event that no recorder is a listener of.
EmitUnheard(th) ==
  \E e \in EmittedBy[th], i \in 0 .. Len(open[th]) :
    /\ callbacks[e[1]] # "dispatching"
    /\ EmitAbout(th, e[1], i)
    /\ section' = SectionsClose(th, e[1], i)
    /\ UNCHANGED <<recorderVars, body, size, running, aborted, history, current, since>>

-----------------------------------------------------------------------------
(***************************************************************************)
(* RecorderListener::operator().                                           *)
(***************************************************************************)
\* The walk reaches the next listener.
Enter(th) ==
  /\ body[th] = "returned"
  /\ InvokeListener(th)
  /\ body' = [body EXCEPT ![th] = "entered"]
  /\ UNCHANGED <<recorderVars, size, running, aborted, historyVars>>

Accepts(r, e) == MatcherOf[r] = "any" \/ Answer(matcher[r], e)

\* matcher(event), which no lock protects.  The matcher selects the section
\* of a create event it matches.
AskMatcher(th) ==
  LET r == Listening(th)
      e == Received(th)
      selects == MatcherOf[r] = "section" /\ Selecting(e)
  IN /\ body[th] = "entered"
     /\ IF MatcherOf[r] = "section" /\ Aborts(matcher[r], e)
        THEN aborted' = TRUE /\ UNCHANGED <<body, matcher, section>>
        ELSE /\ body' = [body EXCEPT ![th] = IF Accepts(r, e) THEN "matched" ELSE "returned"]
             /\ matcher' = [matcher EXCEPT ![r] = IF MatcherOf[r] = "section" THEN After(@, e) ELSE @]
             /\ section' = IF selects THEN [section EXCEPT ![r] =
                                              [of |-> th, at |-> Len(open[th]) + 1, state |-> "stopped"]]
                                      ELSE section
             /\ UNCHANGED aborted
     /\ UNCHANGED <<vars, recorded_events, mtx, size, running, history, current, since>>

\* Faulty variant: there is no mutex.
LockNothing(th) ==
  /\ body[th] = "matched"
  /\ body' = [body EXCEPT ![th] = "locked"]
  /\ size' = [size EXCEPT ![th] = Len(recorded_events[Listening(th)])]
  /\ UNCHANGED <<vars, recorderVars, running, aborted, historyVars>>

\* std::lock_guard lock(mtx), and push_back reads where the deque ends.
Lock(th) ==
  /\ body[th] = "matched"
  /\ mtx[Listening(th)] = NoThread
  /\ mtx' = [mtx EXCEPT ![Listening(th)] = th]
  /\ body' = [body EXCEPT ![th] = "locked"]
  /\ size' = [size EXCEPT ![th] = Len(recorded_events[Listening(th)])]
  /\ UNCHANGED <<vars, recorded_events, matcher, running, aborted, historyVars>>

\* Faulty variant: the mutex stays locked.
PushBackHolding(th) ==
  LET r == Listening(th)
  IN /\ body[th] = "locked"
     /\ recorded_events' = [recorded_events EXCEPT ![r] = Append(SubSeq(@, 1, size[th]), current[th])]
     /\ body' = [body EXCEPT ![th] = "returned"]
     /\ size' = [size EXCEPT ![th] = 0]
     /\ UNCHANGED <<vars, matcher, mtx, running, aborted, historyVars>>

\* push_back writes the event and the new end; the lock is released.
PushBack(th) ==
  LET r == Listening(th)
  IN /\ body[th] = "locked"
     /\ recorded_events' = [recorded_events EXCEPT ![r] = Append(SubSeq(@, 1, size[th]), current[th])]
     /\ mtx' = [mtx EXCEPT ![r] = NoThread]
     /\ body' = [body EXCEPT ![th] = "returned"]
     /\ size' = [size EXCEPT ![th] = 0]
     /\ UNCHANGED <<vars, matcher, running, aborted, historyVars>>

\* The other steps of the dispatch; the end of the dispatch of a start or
\* stop event is the end of the call that starts or stops the section.
Leave(th) ==
  /\ body[th] = "returned"
  /\ FinishDispatch(th)
  /\ section' = [r \in Callable |->
                   CASE section[r].of = th /\ section[r].state = "starting"
                          -> [section[r] EXCEPT !.state = "started"]
                     [] section[r].of = th /\ section[r].state = "stopping"
                          -> [section[r] EXCEPT !.state = "stopped"]
                     [] OTHER -> section[r]]
  /\ current' = [current EXCEPT ![th] = 0]
  /\ UNCHANGED <<recorderVars, body, size, running, aborted, history, since>>

\* A manager numbers fewer sections than there are ids of sections.
CallContext(th) ==
  /\ next_section_id < invalid_section_id
  /\ dispatch_context_callback(th)
  /\ UNCHANGED <<recorderVars, body, size, running, aborted, historyVars>>

Record(th) ==
  \/ CallContext(th) \/ Enter(th) \/ AskMatcher(th) \/ Lock(th) \/ PushBack(th) \/ Leave(th)

RecorderNext ==
  /\ ~aborted
  /\ \/ Lifecycle
     \/ \E r \in Callable : RecordBegin(r)
     \/ RecordReturn
     \/ RecordThrow
     \/ \E th \in Thread : EmitRecorded(th) \/ EmitUnheard(th) \/ Record(th)

RecorderSpec == RecorderInit /\ [][RecorderNext]_rvars
-----------------------------------------------------------------------------
(***************************************************************************)
(* Properties.                                                             *)
(***************************************************************************)

\* The event has not yet been through the recorder's operator().
UnderWay(s, r) ==
  LET th == history[s].thread
  IN /\ InFlight(s)
     /\ \/ ~Walking(th)
        \/ frame[th].cursor = NoNode
        \/ Listening(th) = r /\ body[th] # "returned"
        \/ \E i \in Upcoming(th) : callable[Walked(th)[i]].of = r

Due(r) == {s \in since[r] + 1 .. Len(history) : history[s].type \in HandledBy[r]}

\* What a recorder has recorded are events emitted since it was made, none
\* twice, those of each thread in the order of that thread; and a recorder of
\* every event misses none of any thread: so record() returns them all, and
\* a recorder left behind by a callable that threw goes on
\* (RecorderListener::operator() and record()).
RecordsEveryEvent ==
  \A r \in Live :
    LET recorded == recorded_events[r]
    IN /\ IsInjective(recorded)
       /\ Range(recorded) \subseteq Due(r)
       /\ \A i, j \in DOMAIN recorded :
            i < j /\ history[recorded[i]].thread = history[recorded[j]].thread
              => recorded[i] < recorded[j]
       /\ MatcherOf[r] = "any" => \A s \in Due(r) : s \in Range(recorded) \/ UnderWay(s, r)

\* A recorder of a section is a listener of the events its matcher follows.
SectionListeners ==
  \A r \in Callable : MatcherOf[r] = "section" => SectionTypes \subseteq HandledBy[r]

\* No event is recorded whose dispatch was over before the recorder's selected
\* section was started, or began after it was stopped, whatever other sections
\* the threads start and stop meanwhile (EventInProfileSectionMatcher, asked
\* outside the lock).
RecordsOnlyTheSection ==
  \A r \in Live :
    MatcherOf[r] = "section" => \A s \in Range(recorded_events[r]) : r \in history[s].possibly

\* Every event dispatched between the end of the call that starts the
\* selected section and the beginning of the call that stops it is recorded,
\* on whichever thread it occurs.
RecordsTheWholeSection ==
  \A r \in Live :
    MatcherOf[r] = "section" =>
      \A s \in Due(r) :
        /\ r \in history[s].surely
        /\ history[s].type \notin SectionTypes
        => s \in Range(recorded_events[r]) \/ UnderWay(s, r)
=============================================================================
