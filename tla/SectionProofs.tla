--------------------------- MODULE SectionProofs ---------------------------
(***************************************************************************)
(* A recorder of a section records what is dispatched while its section    *)
(* runs, and nothing else, for every set of threads, recorders and names.  *)
(***************************************************************************)
EXTENDS RecorderProofs, ManagerPromises

\* The events that start and stop a section, and those that close what a
\* thread has open.
Turning == {"StartProfileSectionEvent", "StopProfileSectionEvent"}

Closers == EndEvent \cup {"DestroyProfileSectionEvent"}

\* The event tables, as far as the sections depend on them.
LEMMA SectionEvents ==
  /\ Turning \subseteq ProfileSectionManipulationEvent
  /\ Turning \cap Opener = {} /\ Turning \cap Closers = {} /\ Opener \cap Closers = {}
  /\ Closers \subseteq EndEvent \cup ProfileSectionManipulationEvent
  /\ \A t \in Opener : paired_event[t] \in Closers
  <1>1. \A t \in BeginEvent : paired_event[t] \in EndEvent
    BY EventTables
  <1>2. paired_event["CreateProfileSectionEvent"] = "DestroyProfileSectionEvent"
    BY DEF paired_event
  <1>3. BeginEvent \cap EndEvent = {}
    BY DEF EndEvent
  <1> QED BY <1>1, <1>2, <1>3, EventTables DEF Opener, Turning, Closers

-----------------------------------------------------------------------------
(***************************************************************************)
(* The sections of the threads.                                            *)
(***************************************************************************)
Dispatching(th, t) == frame[th].pc # "idle" /\ frame[th].type = t

\* No tool is attached, so it is the Manager that numbers sections.
NoTool == \A t \in EventTypeList : outside[t] = "null"

\* A section that a thread creates through the Manager gets its id there; what
\* the thread starts and stops is a section of its own.
ThreadSections(th) ==
  /\ frame[th].pc = "registered" /\ frame[th].type \in Opener => frame[th].owner = "manager"
  /\ \A t \in Turning : Dispatching(th, t) =>
       \E i \in Sections(th) : open[th][i].id = frame[th].id

Numbered(th) == \A i \in Sections(th) : open[th][i].owner = "manager"

SectionRecorder == \E r \in Live : MatcherOf[r] = "section"

\* While there is a recorder of a section, all that are open are numbered.
OpenIInv ==
  /\ RIInv
  /\ IdsIInv
  /\ NoTool
  /\ next_section_id <= invalid_section_id
  /\ \A th \in Thread : ThreadSections(th)
  /\ SectionRecorder => \A th \in Thread : Numbered(th)

\* The section of that id is the thread's, at that place among what it has
\* open, or is about to be there: the thread is creating it.
SectionAt(th, p, id) == p \in Sections(th) /\ open[th][p].id = id

CreatingAt(th, p, id) ==
  /\ frame[th].pc = "registered"
  /\ frame[th].type = "CreateProfileSectionEvent"
  /\ frame[th].id = id
  /\ p = Len(open[th]) + 1

HasAt(th, p, id) == SectionAt(th, p, id) \/ CreatingAt(th, p, id)

\* If all sections are numbered, every id is in one place and has been given.
LEMMA HasProperties ==
  ASSUME OpenIInv, \A u \in Thread : Numbered(u),
         NEW th \in Thread, NEW p, NEW id, HasAt(th, p, id)
  PROVE  /\ id \in Nat /\ id < next_section_id
         /\ \A u \in Thread : \A q : HasAt(u, q, id) => u = th /\ q = p
  <1>1. ASSUME NEW u \in Thread, NEW q, HasAt(u, q, id)
        PROVE  \E i \in Held(u) : /\ Given(u, i) /\ HeldAt(u, i).owner = "manager"
                                  /\ HeldAt(u, i).id = id
                                  /\ HeldAt(u, i).type = "CreateProfileSectionEvent"
                                  /\ q = IF i = 0 THEN Len(open[u]) + 1 ELSE i
    <2>1. open[u] \in Seq(Open)
      BY DEF OpenIInv, RIInv, IInv, TypeOK
    <2>2. CASE CreatingAt(u, q, id)
      <3>1. frame[u].owner = "manager"
        BY <2>2 DEF CreatingAt, OpenIInv, ThreadSections, Opener
      <3>2. 0 \in Held(u) /\ HeldAt(u, 0) = frame[u]
        BY <2>1 DEF Held, HeldAt
      <3> QED BY <2>2, <3>1, <3>2 DEF CreatingAt, Given, Numberer
    <2>3. CASE SectionAt(u, q, id)
      <3>1. open[u][q].owner = "manager" /\ open[u][q].type = "CreateProfileSectionEvent"
        BY <2>3 DEF SectionAt, Numbered, Sections
      <3>2. q \in Held(u) /\ q # 0 /\ HeldAt(u, q) = open[u][q]
        BY <2>1, <2>3 DEF SectionAt, Sections, Held, HeldAt
      <3> QED BY <2>3, <3>1, <3>2 DEF SectionAt, Given, Numberer
    <2> QED BY <1>1, <2>2, <2>3 DEF HasAt
  <1>2. PICK i \in Held(th) : /\ Given(th, i) /\ HeldAt(th, i).owner = "manager"
                              /\ HeldAt(th, i).id = id
                              /\ HeldAt(th, i).type = "CreateProfileSectionEvent"
                              /\ p = IF i = 0 THEN Len(open[th]) + 1 ELSE i
    BY <1>1
  <1>3. id \in Nat
    BY <1>2, HeldProperties DEF OpenIInv, IdsIInv, IInv
  <1>4. id < next_section_id
    BY <1>2 DEF OpenIInv, IdsIInv, BelowCounters, Counter, IsSection
  <1>5. ASSUME NEW u \in Thread, NEW q, HasAt(u, q, id) PROVE u = th /\ q = p
    <2>1. PICK j \in Held(u) : /\ Given(u, j) /\ HeldAt(u, j).owner = "manager"
                               /\ HeldAt(u, j).id = id
                               /\ HeldAt(u, j).type = "CreateProfileSectionEvent"
                               /\ q = IF j = 0 THEN Len(open[u]) + 1 ELSE j
      BY <1>1, <1>5
    <2>2. u = th /\ j = i
      BY <1>2, <2>1 DEF OpenIInv, IdsIInv, GivenOnce, SameCounter
    <2> QED BY <1>2, <2>1, <2>2
  <1> QED BY <1>3, <1>4, <1>5

\* A recorder of a section hears of the sections that are created.
LEMMA SectionsHeard ==
  ASSUME RIInv, SectionListeners, SectionRecorder
  PROVE  callbacks["CreateProfileSectionEvent"] = "dispatching"
  <1>1. PICK r \in Live : MatcherOf[r] = "section"
    BY DEF SectionRecorder
  <1>2. PICK n \in Nodes(listeners) : callable[n].of = r
    BY <1>1, LiveIsRegistered DEF RIInv
  <1>3. "CreateProfileSectionEvent" \in HandledBy[r]
    BY <1>1, LiveIsRegistered DEF RIInv, SectionListeners, SectionTypes
  <1>4. "CreateProfileSectionEvent" \in EventTypeList
    BY OpenersAndClosers
  <1>5. n \in Nodes(registered_callbacks["CreateProfileSectionEvent"])
    BY <1>2, <1>3, <1>4 DEF RIInv, IInv, ListsAgree, Handles
  <1>6. registered_callbacks["CreateProfileSectionEvent"] # <<>>
    BY <1>5 DEF Nodes, Range
  <1> QED BY <1>4, <1>6 DEF RIInv, IInv, Transparent

-----------------------------------------------------------------------------
\* What a step of one thread has to show.
LEMMA OneThreadSections ==
  ASSUME OpenIInv, RIInv', IdsIInv', NEW th \in Thread,
         UNCHANGED <<managerVars, running>>,
         next_section_id' <= invalid_section_id,
         \A u \in Thread \ {th} : frame'[u] = frame[u] /\ open'[u] = open[u],
         ThreadSections(th)', SectionRecorder => Numbered(th)'
  PROVE  OpenIInv'
  <1>1. UNCHANGED <<outside, listeners, callable, running>>
    BY DEF managerVars, listVars
  <1>2. SectionRecorder' <=> SectionRecorder
    BY <1>1 DEF Live, SectionRecorder
  <1>3. ASSUME NEW u \in Thread PROVE ThreadSections(u)' /\ (SectionRecorder => Numbered(u)')
    <2>1. CASE u = th
      BY <2>1
    <2>2. CASE u # th
      BY <2>2 DEF OpenIInv, ThreadSections, Dispatching, Numbered, Sections
    <2> QED BY <2>1, <2>2
  <1>4. NoTool'
    BY <1>1 DEF OpenIInv, NoTool
  <1> QED BY <1>2, <1>3, <1>4 DEF OpenIInv

\* The context callback is called: it is none of a tool.
LEMMA CallContextSections ==
  ASSUME OpenIInv, RIInv', IdsIInv', NEW th \in Thread, CallContext(th)
  PROVE  /\ OpenIInv'
         /\ UNCHANGED <<managerVars, open>>
         /\ \A u \in Thread \ {th} : frame'[u] = frame[u]
         /\ frame[th].pc = "context" /\ frame'[th].pc = "registered"
         /\ frame'[th].type = frame[th].type
         /\ frame[th].type \notin Opener => frame'[th].id = frame[th].id
         /\ next_section_id <= next_section_id'
         /\ frame[th].type = "CreateProfileSectionEvent" => frame'[th].id = next_section_id
         /\ next_section_id < invalid_section_id
  <1>1. /\ UNCHANGED <<managerVars, open, running>>
        /\ next_section_id < invalid_section_id
        /\ frame[th].pc = "context"
        /\ frame[th] \in Frame /\ DOMAIN frame = Thread
        /\ next_section_id \in Nat /\ invalid_section_id \in Nat
    BY RecorderAssumption DEF CallContext, dispatch_context_callback, OpenIInv, RIInv, IInv, TypeOK
  <1>2. context_callbacks[frame[th].type] = "null"
    <2>1. singleton /\ frame[th].type \in EventTypeList /\ context_callbacks = outside
      BY <1>1 DEF OpenIInv, RIInv, IInv, CursorsListed, KokkosFrames, SavedTable
    <2> QED BY <2>1 DEF OpenIInv, NoTool
  <1>3. IncrementIdIfNeeded(th)
    BY <1>2 DEF CallContext, dispatch_context_callback
  <1> DEFINE G(id) == [frame[th] EXCEPT !.pc = "registered", !.id = id, !.owner = "manager"]
             K == [frame[th] EXCEPT !.pc = "registered"]
  <1>4. /\ \A id : /\ G(id).pc = "registered" /\ G(id).id = id
                   /\ G(id).owner = "manager" /\ G(id).type = frame[th].type
        /\ K.pc = "registered" /\ K.id = frame[th].id /\ K.type = frame[th].type
    BY <1>1 DEF Frame
  <1>5. \/ /\ frame[th].type \in BeginEvent
           /\ frame' = [frame EXCEPT ![th] = G(next_event_id)] /\ UNCHANGED next_section_id
        \/ /\ frame[th].type = "CreateProfileSectionEvent"
           /\ frame' = [frame EXCEPT ![th] = G(next_section_id)]
           /\ next_section_id' = next_section_id + 1
        \/ /\ frame[th].type \notin Opener
           /\ frame' = [frame EXCEPT ![th] = K] /\ UNCHANGED next_section_id
    BY <1>3 DEF IncrementIdIfNeeded
  <1> HIDE DEF G, K
  <1>6. /\ \A u \in Thread \ {th} : frame'[u] = frame[u]
        /\ frame'[th].pc = "registered" /\ frame'[th].type = frame[th].type
        /\ frame[th].type \in Opener => frame'[th].owner = "manager"
        /\ frame[th].type \notin Opener => frame'[th].id = frame[th].id
        /\ frame[th].type = "CreateProfileSectionEvent" => frame'[th].id = next_section_id
        /\ next_section_id <= next_section_id' /\ next_section_id' <= invalid_section_id
    <2>1. "CreateProfileSectionEvent" \notin BeginEvent
      BY EventTables
    <2> QED BY <1>1, <1>4, <1>5, <2>1 DEF Opener
  <1>7. ThreadSections(th)' /\ (SectionRecorder => Numbered(th)')
    <2>1. ThreadSections(th) /\ (SectionRecorder => Numbered(th))
      BY DEF OpenIInv
    <2>2. Sections(th)' = Sections(th)
      BY <1>1 DEF Sections
    <2> QED BY <1>1, <1>6, <2>1, <2>2, SectionEvents DEF ThreadSections, Dispatching, Numbered
  <1> QED BY <1>1, <1>6, <1>7, OneThreadSections

\* A step of a thread that keeps the event it dispatches, or has none.
LEMMA SameEventSections ==
  ASSUME OpenIInv, RIInv', IdsIInv', NEW th \in Thread,
         UNCHANGED <<managerVars, running, open, next_section_id>>,
         \A u \in Thread \ {th} : frame'[u] = frame[u],
         frame'[th].pc = frame[th].pc /\ frame'[th].type = frame[th].type,
         frame'[th].id = frame[th].id /\ frame'[th].owner = frame[th].owner
  PROVE  OpenIInv'
  <1>1. ThreadSections(th)' /\ (SectionRecorder => Numbered(th)')
    BY DEF OpenIInv, ThreadSections, Dispatching, Sections, Numbered
  <1> QED BY <1>1, OneThreadSections DEF OpenIInv

\* The dispatch ends: what a thread has created is open.
LEMMA LeaveSections ==
  ASSUME OpenIInv, RIInv', IdsIInv', NEW th \in Thread, Leave(th)
  PROVE  /\ OpenIInv'
         /\ UNCHANGED <<managerVars, next_section_id>>
         /\ \A u \in Thread \ {th} : frame'[u] = frame[u] /\ open'[u] = open[u]
         /\ frame'[th].pc = "idle" /\ frame[th].pc = "registered"
         /\ \A p, id : HasAt(th, p, id)' <=> HasAt(th, p, id)
  <1>1. /\ UNCHANGED <<managerVars, running, next_section_id>>
        /\ frame[th].pc = "registered"
        /\ frame' = [frame EXCEPT ![th] = Idle]
        /\ open' = IF frame[th].type \in Opener
                   THEN [open EXCEPT ![th] = Append(@, WrittenBack(th))] ELSE open
    BY DEF Leave, FinishDispatch, counterVars, OpenIInv, RIInv, ThreadOK, Walking
  <1>2. DOMAIN frame = Thread /\ DOMAIN open = Thread /\ open[th] \in Seq(Open)
    BY DEF OpenIInv, RIInv, IInv, TypeOK
  <1>3. /\ \A u \in Thread \ {th} : frame'[u] = frame[u] /\ open'[u] = open[u]
        /\ frame'[th].pc = "idle"
    BY <1>1, <1>2 DEF Idle
  <1>4. ThreadSections(th)'
    BY <1>3 DEF ThreadSections, Dispatching
  <1>5. CASE frame[th].type \in Opener
    <2>1. frame[th].owner = "manager"
      BY <1>1, <1>5 DEF OpenIInv, ThreadSections
    <2>2. PICK w : w = WrittenBack(th)
      OBVIOUS
    <2>3. w.type = frame[th].type /\ w.id = frame[th].id /\ w.owner = "manager"
      BY <2>1, <2>2 DEF WrittenBack
    <2>4. PICK n \in Nat : n = Len(open[th]) + 1
      BY <1>2
    <2>5. /\ DOMAIN open'[th] = DOMAIN open[th] \cup {n} /\ n \notin DOMAIN open[th]
          /\ open'[th][n] = w /\ \A i \in DOMAIN open[th] : open'[th][i] = open[th][i]
      <3>1. open'[th] = Append(open[th], w)
        BY <1>1, <1>2, <1>5, <2>2
      <3> QED BY <1>2, <2>4, <3>1
    <2>6. SectionRecorder => Numbered(th)'
      BY <2>3, <2>5 DEF OpenIInv, Numbered, Sections
    <2>7. \A p, id : HasAt(th, p, id)' <=> HasAt(th, p, id)
      <3>1. \A p, id : ~CreatingAt(th, p, id)'
        BY <1>3 DEF CreatingAt
      <3>2. \A p, id : SectionAt(th, p, id)' <=> SectionAt(th, p, id) \/ CreatingAt(th, p, id)
        BY <1>1, <2>3, <2>4, <2>5 DEF SectionAt, CreatingAt, Sections
      <3> QED BY <3>1, <3>2 DEF HasAt
    <2> QED BY <1>1, <1>3, <1>4, <2>6, <2>7, OneThreadSections DEF OpenIInv
  <1>6. CASE frame[th].type \notin Opener
    <2>1. open' = open /\ frame[th].type # "CreateProfileSectionEvent"
      BY <1>1, <1>6 DEF Opener
    <2>2. SectionRecorder => Numbered(th)'
      BY <2>1 DEF OpenIInv, Numbered, Sections
    <2>3. \A p, id : HasAt(th, p, id)' <=> HasAt(th, p, id)
      BY <1>3, <2>1 DEF HasAt, SectionAt, CreatingAt, Sections
    <2> QED BY <1>1, <1>3, <1>4, <2>2, <2>3, OneThreadSections DEF OpenIInv
  <1> QED BY <1>5, <1>6

\* An event closes something of the thread, or is of another kind.
LEMMA EmitCloses ==
  ASSUME TypeOK, NEW th \in Thread, NEW t, NEW i, EmitAbout(th, t, i)
  PROVE  /\ t \in Closers => i \in DOMAIN open[th] /\ EmitClosing(th, i)
         /\ t \notin Closers =>
              EmitOpening(th, t) \/ EmitOther(th, t) \/ EmitSection(th, t, i)
  <1>1. CASE EmitOpening(th, t)
    BY <1>1, SectionEvents DEF EmitOpening
  <1>2. CASE EmitOther(th, t)
    BY <1>2, SectionEvents DEF EmitOther
  <1>3. CASE EmitSection(th, t, i)
    BY <1>3, SectionEvents DEF EmitSection, Turning
  <1>4. CASE i \in DOMAIN open[th] /\ t = paired_event[open[th][i].type] /\ EmitClosing(th, i)
    <2>1. open[th] \in Seq(Open)
      BY DEF TypeOK
    <2>2. open[th][i] \in Open
      BY <1>4, <2>1
    <2>3. open[th][i].type \in Opener
      BY <2>2 DEF Open
    <2> QED BY <1>4, <2>3, SectionEvents
  <1> QED BY <1>1, <1>2, <1>3, <1>4 DEF EmitAbout

\* Kokkos opens or closes something of that thread only.
LEMMA EmitOpens ==
  ASSUME TypeOK, NEW th \in Thread, NEW t, NEW i, EmitAbout(th, t, i)
  PROVE  /\ \A u \in Thread \ {th} : open'[u] = open[u]
         /\ EmitOpening(th, t) =>
              \/ open' = open
              \/ /\ callbacks[t] # "dispatching"
                 /\ \E o : o.type = t /\ open'[th] = Append(open[th], o)
  <1>1. DOMAIN open = Thread
    BY DEF TypeOK
  <1>2. ASSUME EmitOpening(th, t)
        PROVE  \/ open' = open
               \/ /\ callbacks[t] # "dispatching"
                  /\ \E o : o.type = t /\ open' = [open EXCEPT ![th] = Append(@, o)]
    <2>1. callbacks[t] \in {"null", "tool", "dispatching"}
      BY <1>2, OpenersAndClosers DEF EmitOpening, TypeOK, Callback
    <2>2. CASE callbacks[t] = "dispatching"
      BY <1>2, <2>2 DEF EmitOpening
    <2>3. ASSUME NEW x, NEW owner, callbacks[t] # "dispatching",
                 open' = [open EXCEPT ![th] = Append(@, [type |-> t, id |-> x, owner |-> owner])]
          PROVE  \E o : o.type = t /\ open' = [open EXCEPT ![th] = Append(@, o)]
      <3>1. [type |-> t, id |-> x, owner |-> owner].type = t
        OBVIOUS
      <3> QED BY <2>3, <3>1
    <2>4. CASE callbacks[t] = "tool"
      BY <1>2, <2>3, <2>4 DEF EmitOpening
    <2>5. CASE callbacks[t] = "null"
      BY <1>2, <2>3, <2>5 DEF EmitOpening
    <2> QED BY <2>1, <2>2, <2>4, <2>5
  <1>3. CASE EmitOpening(th, t)
    BY <1>1, <1>2, <1>3
  <1>4. CASE EmitOther(th, t) \/ EmitSection(th, t, i) \/ EmitClosing(th, i)
    <2>1. \A u \in Thread \ {th} : open'[u] = open[u]
      BY <1>1, <1>4 DEF EmitOther, EmitSection, EmitClosing
    <2> QED BY <1>1, <1>2, <2>1
  <1> QED BY <1>3, <1>4 DEF EmitAbout

\* What the event does to what is open, if it is not the creation of a section
\* without the Manager: the sections behind one that is closed move up.
LEMMA EmitPlaces ==
  ASSUME OpenIInv, NEW th \in Thread, NEW t, NEW i \in Nat, EmitAbout(th, t, i),
         callbacks["CreateProfileSectionEvent"] = "dispatching"
  PROVE  /\ \A u \in Thread \ {th} : \A p, id : HasAt(u, p, id)' <=> HasAt(u, p, id)
         /\ t \notin Closers => \A p, id : HasAt(th, p, id)' <=> HasAt(th, p, id)
         /\ t \in Closers => \A p \in Nat : \A id :
              /\ p < i => (HasAt(th, p, id)' <=> HasAt(th, p, id))
              /\ p >= i => (HasAt(th, p, id)' <=> HasAt(th, p + 1, id))
         /\ Numbered(th) => Numbered(th)'
  <1>1. /\ TypeOK /\ DOMAIN open = Thread /\ open[th] \in Seq(Open) /\ DOMAIN frame = Thread
        /\ DOMAIN open[th] = 1 .. Len(open[th]) /\ Len(open[th]) \in Nat
    BY DEF OpenIInv, RIInv, IInv, TypeOK
  <1>2. PICK id : Emit(th, t, id)
    BY EmitAboutEmits
  <1>3. /\ \A u \in Thread \ {th} : frame'[u] = frame[u]
        /\ frame[th].pc # "registered" /\ frame'[th].pc # "registered"
    BY <1>1, <1>2 DEF Emit, Idle
  <1>4. \A u \in Thread \ {th} : open'[u] = open[u]
    BY <1>1, EmitOpens
  <1>5. \A u \in Thread \ {th} : \A p, d : HasAt(u, p, d)' <=> HasAt(u, p, d)
    BY <1>3, <1>4 DEF HasAt, SectionAt, CreatingAt, Sections
  <1>6. \A p, d : /\ HasAt(th, p, d) <=> SectionAt(th, p, d)
                  /\ HasAt(th, p, d)' <=> SectionAt(th, p, d)'
    BY <1>3 DEF HasAt, CreatingAt
  <1>7. CASE t \notin Closers
    <2>1. \/ open'[th] = open[th]
          \/ \E o : /\ open'[th] = Append(open[th], o)
                    /\ o.type # "CreateProfileSectionEvent"
      <3>1. CASE EmitOpening(th, t)
        <4>1. t = "CreateProfileSectionEvent" => open' = open
          BY <1>1, <3>1, EmitOpens
        <4> QED BY <1>1, <3>1, <4>1, EmitOpens
      <3>2. CASE EmitOther(th, t) \/ EmitSection(th, t, i)
        BY <3>2 DEF EmitOther, EmitSection
      <3> QED BY <1>1, <1>7, <3>1, <3>2, EmitCloses
    <2>2. /\ Sections(th)' = Sections(th)
          /\ \A p \in Sections(th) : open'[th][p] = open[th][p]
      <3>1. CASE open'[th] = open[th]
        BY <3>1 DEF Sections
      <3>2. ASSUME NEW o, open'[th] = Append(open[th], o), o.type # "CreateProfileSectionEvent"
            PROVE  /\ Sections(th)' = Sections(th)
                   /\ \A p \in Sections(th) : open'[th][p] = open[th][p]
        <4>1. PICK n \in Nat : n = Len(open[th]) + 1
          BY <1>1
        <4>2. /\ DOMAIN open'[th] = DOMAIN open[th] \cup {n} /\ n \notin DOMAIN open[th]
              /\ open'[th][n] = o /\ \A p \in DOMAIN open[th] : open'[th][p] = open[th][p]
          BY <1>1, <3>2, <4>1
        <4> QED BY <3>2, <4>2 DEF Sections
      <3> QED BY <2>1, <3>1, <3>2
    <2>3. \A p, d : HasAt(th, p, d)' <=> HasAt(th, p, d)
      BY <1>6, <2>2 DEF SectionAt
    <2> QED BY <1>5, <1>7, <2>2, <2>3 DEF Numbered
  <1>8. CASE t \in Closers
    <2>1. i \in DOMAIN open[th] /\ open'[th] = RemoveAt(open[th], i)
      BY <1>1, <1>8, EmitCloses DEF EmitClosing
    <2>2. i \in 1 .. Len(open[th])
      BY <1>1, <2>1
    <2>3. /\ open'[th] \in Seq(Open) /\ Len(open'[th]) = Len(open[th]) - 1
          /\ \A p \in 1 .. Len(open[th]) - 1 :
               open'[th][p] = IF p < i THEN open[th][p] ELSE open[th][p + 1]
      BY <1>1, <2>1, <2>2, RemoveAtProperties
    <2>4. DOMAIN open'[th] = 1 .. Len(open[th]) - 1
      <3>1. Len(open[th]) \in Nat
        BY <1>1
      <3> QED BY <2>2, <2>3, <3>1
    <2>5. ASSUME NEW p \in Nat, NEW d, p < i PROVE SectionAt(th, p, d)' <=> SectionAt(th, p, d)
      <3>1. p \in DOMAIN open'[th] <=> p \in DOMAIN open[th]
        BY <1>1, <2>2, <2>4, <2>5
      <3>2. p \in DOMAIN open'[th] => open'[th][p] = open[th][p]
        BY <2>3, <2>4, <2>5
      <3> QED BY <3>1, <3>2 DEF SectionAt, Sections
    <2>6. ASSUME NEW p \in Nat, NEW d, p >= i PROVE SectionAt(th, p, d)' <=> SectionAt(th, p + 1, d)
      <3>1. p \in DOMAIN open'[th] <=> p + 1 \in DOMAIN open[th]
        BY <1>1, <2>2, <2>4, <2>6
      <3>2. p \in DOMAIN open'[th] => open'[th][p] = open[th][p + 1]
        BY <2>2, <2>3, <2>4, <2>6
      <3> QED BY <3>1, <3>2 DEF SectionAt, Sections
    <2>7. ASSUME Numbered(th) PROVE Numbered(th)'
      <3> SUFFICES ASSUME NEW p \in DOMAIN open'[th],
                          open'[th][p].type = "CreateProfileSectionEvent"
                   PROVE  open'[th][p].owner = "manager"
        BY DEF Numbered, Sections
      <3>1. PICK q \in DOMAIN open[th] : open'[th][p] = open[th][q]
        <4>1. p \in DOMAIN open[th] /\ p + 1 \in DOMAIN open[th]
          BY <1>1, <2>4
        <4> QED BY <2>3, <2>4, <4>1
      <3> QED BY <2>7, <3>1 DEF Numbered, Sections
    <2> QED BY <1>5, <1>6, <1>8, <2>5, <2>6, <2>7
  <1> QED BY <1>7, <1>8

\* Kokkos has an event of the thread, of which the Manager hears or not.
LEMMA EmitSections ==
  ASSUME OpenIInv, SectionListeners, RIInv', IdsIInv', NEW th \in Thread, NEW t, NEW i \in Nat,
         EmitAbout(th, t, i), UNCHANGED running
  PROVE  /\ OpenIInv'
         /\ UNCHANGED <<managerVars, next_section_id>>
         /\ \A u \in Thread \ {th} : frame'[u] = frame[u]
         /\ frame[th].pc = "idle"
         /\ t \in Turning => i \in Sections(th)
         /\ t \in Turning /\ callbacks[t] = "dispatching" => open[th][i].id = frame'[th].id
         /\ callbacks[t] # "dispatching" => frame' = frame
  <1>1. /\ TypeOK /\ DOMAIN open = Thread /\ DOMAIN frame = Thread
    BY DEF OpenIInv, RIInv, IInv, TypeOK
  <1>2. PICK id : Emit(th, t, id)
    BY EmitAboutEmits
  <1>3. /\ UNCHANGED <<managerVars, next_section_id>>
        /\ \A u \in Thread \ {th} : frame'[u] = frame[u]
        /\ frame[th].pc = "idle" /\ frame'[th].pc \in {"idle", "context"}
        /\ \/ callbacks[t] = "dispatching" /\ frame'[th].type = t /\ frame'[th].id = id
           \/ callbacks[t] # "dispatching" /\ frame' = frame
    BY <1>1, <1>2 DEF Emit, Idle, counterVars
  <1>4. \A u \in Thread \ {th} : open'[u] = open[u]
    BY <1>1, EmitOpens
  <1>5. t \in Turning =>
          /\ i \in Sections(th) /\ open' = open
          /\ callbacks[t] = "dispatching" => open[th][i].id = frame'[th].id
    <2> SUFFICES ASSUME t \in Turning
                 PROVE  /\ i \in Sections(th) /\ open' = open
                        /\ callbacks[t] = "dispatching" => open[th][i].id = frame'[th].id
      OBVIOUS
    <2>1. EmitSection(th, t, i)
      BY <1>1, SectionEvents, EmitCloses DEF EmitOpening, EmitOther
    <2>2. i \in Sections(th) /\ open' = open /\ Emit(th, t, open[th][i].id)
      BY <2>1 DEF EmitSection
    <2>3. callbacks[t] = "dispatching" => frame'[th].id = open[th][i].id
      BY <1>1, <2>2 DEF Emit, Idle
    <2> QED BY <2>2, <2>3
  <1>6. ThreadSections(th)'
    <2>1. ASSUME NEW d \in Turning, Dispatching(th, d)'
          PROVE  \E k \in Sections(th)' : open'[th][k].id = frame'[th].id
      <3>1. callbacks[t] = "dispatching" /\ t = d
        BY <1>3, <2>1 DEF Dispatching
      <3>2. Sections(th)' = Sections(th)
        BY <1>5, <3>1 DEF Sections
      <3> QED BY <1>5, <3>1, <3>2
    <2>2. frame'[th].pc # "registered"
      BY <1>3
    <2> QED BY <2>1, <2>2 DEF ThreadSections
  <1>7. SectionRecorder => Numbered(th)'
    BY EmitPlaces, SectionsHeard DEF OpenIInv
  <1> QED BY <1>3, <1>4, <1>5, <1>6, <1>7, OneThreadSections DEF OpenIInv

\* Nobody begins or ends anything at rest: the Manager comes up, a recorder is
\* made or destroyed.
LEMMA AtRestSections ==
  ASSUME OpenIInv, RIInv', IdsIInv',
         UNCHANGED <<frame, outside, open, next_section_id>>,
         SectionRecorder' => SectionRecorder \/ \A th \in Thread : Numbered(th)
  PROVE  OpenIInv'
  <1>1. \A th \in Thread : ThreadSections(th)' /\ (Numbered(th) => Numbered(th)')
    BY DEF OpenIInv, ThreadSections, Dispatching, Sections, Numbered
  <1> QED BY <1>1 DEF OpenIInv, NoTool

\* The Manager goes down, with its recorders.
LEMMA FinalizeSections ==
  ASSUME OpenIInv, RIInv', IdsIInv', finalize, Live' = {}
  PROVE  OpenIInv'
  <1>1. /\ \A th \in Thread : frame'[th].pc = "idle"
        /\ UNCHANGED outside /\ next_section_id' = 0
    BY DEF finalize
  <1>2. \A th \in Thread : ThreadSections(th)'
    BY <1>1 DEF ThreadSections, Dispatching
  <1>3. next_section_id' <= invalid_section_id
    BY <1>1, RecorderAssumption
  <1>4. ~SectionRecorder'
    BY DEF SectionRecorder
  <1> QED BY <1>1, <1>2, <1>3, <1>4 DEF OpenIInv, NoTool

\* A step within operator() is none of the Manager's.
LEMMA InBodySections ==
  ASSUME OpenIInv, RIInv', IdsIInv', UNCHANGED <<vars, running>>
  PROVE  OpenIInv'
  <1>1. UNCHANGED <<frame, outside, open, next_section_id, listeners, callable>>
    BY DEF vars, managerVars, listVars, kokkosVars, counterVars
  <1>2. SectionRecorder' <=> SectionRecorder
    BY <1>1 DEF Live, SectionRecorder
  <1> QED BY <1>1, <1>2, AtRestSections

LEMMA InitOpenIInv == RecorderInit => OpenIInv
  <1> SUFFICES ASSUME RecorderInit PROVE OpenIInv
    OBVIOUS
  <1>1. /\ \A th \in Thread : frame[th].pc = "idle" /\ open[th] = <<>>
        /\ outside = [t \in EventTypeList |-> "null"]
        /\ next_section_id = 0
    BY DEF RecorderInit, Init, Idle
  <1>2. \A th \in Thread : ThreadSections(th) /\ Numbered(th)
    BY <1>1 DEF ThreadSections, Dispatching, Numbered, Sections
  <1>3. RIInv /\ IdsIInv
    BY InitRIInv, InitIdsIInv DEF RecorderInit
  <1> QED BY <1>1, <1>2, <1>3, RecorderAssumption DEF OpenIInv, NoTool

\* The invariants of the recorders and of the ids, one step on: recorders
\* dispatch nothing of their own.
LEMMA NextBase == OpenIInv /\ [RecorderNext]_rvars => RIInv' /\ IdsIInv'
  <1> SUFFICES ASSUME OpenIInv, [RecorderNext]_rvars PROVE RIInv' /\ IdsIInv'
    OBVIOUS
  <1>1. RIInv' /\ IInv' /\ IdsIInv
    BY NextRIInv DEF OpenIInv, RIInv
  <1>2. CASE Lifecycle
    <2>1. CASE initialize
      BY <1>1, <2>1, NothingHeldChangesStep DEF initialize, counterVars, kokkosVars
    <2>2. CASE finalize
      BY <1>1, <2>2, FinalizeKeepsIds
    <2> QED BY <1>2, <2>1, <2>2 DEF Lifecycle
  <1>3. ASSUME NEW r \in Callable, RecordBegin(r) PROVE IdsIInv'
    BY <1>1, <1>3, NothingHeldChangesStep
       DEF RecordBegin, register_listener, SetLists, counterVars, kokkosVars
  <1>4. CASE RecordReturn
    BY <1>1, <1>4, NothingHeldChangesStep
       DEF RecordReturn, unregister_pointer, Unregister, SetLists, counterVars, kokkosVars
  <1>5. ASSUME NEW th \in Thread, EmitRecorded(th) \/ EmitUnheard(th) PROVE IdsIInv'
    <2>1. PICK t, i : EmitAbout(th, t, i)
      BY <1>5 DEF EmitRecorded, EmitUnheard
    <2> QED BY <1>1, <2>1, EmitOpeningKeepsIds, EmitOtherKeepsIds, EmitClosingKeepsIds DEF EmitAbout
  <1>6. ASSUME NEW th \in Thread, CallContext(th) \/ Enter(th) \/ Leave(th) PROVE IdsIInv'
    BY <1>1, <1>6, ContextKeepsIds, InvokeKeepsIds, FinishKeepsIds DEF CallContext, Enter, Leave
  <1>7. CASE UNCHANGED vars
    BY <1>1, <1>7, NothingHeldChangesStep DEF vars, managerVars, counterVars, kokkosVars
  <1> QED BY <1>1, <1>2, <1>3, <1>4, <1>5, <1>6, <1>7
          DEF RecorderNext, Record, RecordThrow, AskMatcher, Lock, PushBack, rvars

LEMMA NextOpenIInv ==
  ASSUME SectionListeners
  PROVE  OpenIInv /\ [RecorderNext]_rvars => OpenIInv'
  <1> SUFFICES ASSUME OpenIInv, [RecorderNext]_rvars PROVE OpenIInv'
    OBVIOUS
  <1>1. RIInv' /\ IdsIInv'
    BY NextBase
  <1>2. CASE Lifecycle
    <2>1. CASE initialize
      <3>1. UNCHANGED <<frame, outside, open, next_section_id>> /\ Live' = Live
        BY <1>2, <2>1 DEF initialize, Lifecycle, counterVars, kokkosVars, listVars, Live
      <3> QED BY <1>1, <3>1, AtRestSections DEF SectionRecorder
    <2>2. CASE running = <<>> /\ finalize
      <3>1. listeners' = <<>> /\ running' = <<>>
        BY <1>2, <2>2 DEF Lifecycle, finalize
      <3>2. Live' = {}
        BY <3>1 DEF Live, Nodes, Range
      <3> QED BY <1>1, <2>2, <3>2, FinalizeSections
    <2> QED BY <1>2, <2>1, <2>2 DEF Lifecycle
  <1>3. ASSUME NEW r \in Callable, RecordBegin(r) PROVE OpenIInv'
    <2>1. /\ UNCHANGED <<frame, outside, open, next_section_id>>
          /\ MatcherOf[r] = "section" => \A th \in Thread : Numbered(th)
      BY <1>3 DEF RecordBegin, register_listener, SetLists, counterVars, kokkosVars, Numbered
    <2>2. Live' = Live \cup {r}
      BY <1>1, <1>3, RecordBeginLists DEF OpenIInv, RIInv
    <2> QED BY <1>1, <2>1, <2>2, AtRestSections DEF SectionRecorder
  <1>4. CASE RecordReturn
    <2>1. UNCHANGED <<frame, outside, open, next_section_id>>
      BY <1>4 DEF RecordReturn, unregister_pointer, MayUnregister, Unregister, SetLists,
                  counterVars, kokkosVars
    <2>2. Live' \subseteq Live
      BY <1>1, <1>4, RecordReturnLists DEF OpenIInv, RIInv
    <2> QED BY <1>1, <2>1, <2>2, AtRestSections DEF SectionRecorder
  <1>5. CASE RecordThrow
    <2>1. UNCHANGED <<frame, outside, open, next_section_id>>
      BY <1>5 DEF RecordThrow, vars, managerVars, counterVars, kokkosVars
    <2>2. Live' = Live
      BY <1>5, RecordThrowLive DEF OpenIInv
    <2> QED BY <1>1, <2>1, <2>2, AtRestSections DEF SectionRecorder
  <1>6. ASSUME NEW th \in Thread, EmitRecorded(th) \/ EmitUnheard(th) PROVE OpenIInv'
    <2>1. PICK e \in EmittedBy[th], i \in 0 .. Len(open[th]) : EmitAbout(th, e[1], i) /\ UNCHANGED running
      <3>1. CASE EmitRecorded(th)
        BY <3>1 DEF EmitRecorded, EmitNamed
      <3>2. CASE EmitUnheard(th)
        BY <3>2 DEF EmitUnheard
      <3> QED BY <1>6, <3>1, <3>2
    <2> QED BY <1>1, <2>1, EmitSections
  <1>7. ASSUME NEW th \in Thread, Record(th) PROVE OpenIInv'
    <2>1. CASE CallContext(th)
      BY <1>1, <2>1, CallContextSections
    <2>2. CASE Enter(th)
      <3>1. /\ UNCHANGED <<managerVars, running, open, next_section_id>>
            /\ \E n : frame' = [frame EXCEPT ![th].cursor = n]
        BY <2>2 DEF Enter, InvokeListener, counterVars, kokkosVars
      <3>2. frame \in [Thread -> Frame]
        BY DEF OpenIInv, RIInv, IInv, TypeOK
      <3>3. /\ \A u \in Thread \ {th} : frame'[u] = frame[u]
            /\ frame'[th].pc = frame[th].pc /\ frame'[th].type = frame[th].type
            /\ frame'[th].id = frame[th].id /\ frame'[th].owner = frame[th].owner
        BY <3>1, <3>2 DEF Frame
      <3> QED BY <1>1, <3>1, <3>3, SameEventSections
    <2>3. CASE AskMatcher(th) \/ Lock(th) \/ PushBack(th)
      BY <1>1, <2>3, InBodySections DEF AskMatcher, Lock, PushBack
    <2>4. CASE Leave(th)
      BY <1>1, <2>4, LeaveSections
    <2> QED BY <1>7, <2>1, <2>2, <2>3, <2>4 DEF Record
  <1>8. CASE UNCHANGED rvars
    BY <1>1, <1>8, InBodySections DEF rvars
  <1> QED BY <1>2, <1>3, <1>4, <1>5, <1>6, <1>7, <1>8 DEF RecorderNext

-----------------------------------------------------------------------------
(***************************************************************************)
(* The matchers and their sections.                                        *)
(***************************************************************************)
\* The thread is starting or stopping the section of that id.
Turns(th, t, id) == Dispatching(th, t) /\ frame[th].id = id

\* A matcher that has selected a section has the id of it; what is selected is
\* the place that has that id, if there still is one.
SelectedOK(r) ==
  LET m == matcher[r]
      S == section[r]
  IN /\ m.section_id = invalid_section_id => m = Unmatched /\ S = NoSection
     /\ m.section_id # invalid_section_id => m.section_id < next_section_id
     /\ S.of # NoThread => HasAt(S.of, S.at, m.section_id)
     /\ \A th \in Thread : \A p \in Nat : HasAt(th, p, m.section_id) => S.of = th /\ S.at = p

\* A matcher records while its section runs.  The thread that starts or stops
\* the section is dispatching the event that says so, and the matcher changes
\* its mind when the walk comes to the recorder.
RunOK(r) ==
  LET m == matcher[r]
      S == section[r]
  IN /\ S.state = "stopped" => ~m.recording
     /\ S.state = "started" => m.recording
     /\ S.state = "starting" => /\ S.of # NoThread
                                /\ Turns(S.of, "StartProfileSectionEvent", m.section_id)
                                /\ m.recording <=> ~Pending(S.of, r)
     /\ S.state = "stopping" => /\ S.of # NoThread
                                /\ Turns(S.of, "StopProfileSectionEvent", m.section_id)
                                /\ m.recording <=> Pending(S.of, r)
     /\ S.of # NoThread =>
          /\ Turns(S.of, "StartProfileSectionEvent", m.section_id) =>
               S.state \in {"starting", "started"}
          /\ Turns(S.of, "StopProfileSectionEvent", m.section_id) =>
               S.state \in {"stopping", "stopped"}

\* Whatever is being dispatched while the section runs is possibly within the
\* run, and only that is recorded.
FlightOK(r) ==
  /\ \A th \in Thread : current[th] # 0 =>
       /\ section[r].state # "stopped" => r \in history[current[th]].possibly
       /\ r \in history[current[th]].surely => section[r].state = "started"
  /\ \A th \in Thread : body[th] \in {"matched", "locked"} /\ Listening(th) = r =>
       r \in history[current[th]].possibly /\ frame[th].type \notin SectionTypes

\* RecordsOnlyTheSection and RecordsTheWholeSection for one recorder.
OnlyTheSection(r) == \A s \in Range(recorded_events[r]) : r \in history[s].possibly

TheWholeSection(r) ==
  \A s \in Due(r) : r \in history[s].surely /\ history[s].type \notin SectionTypes =>
    s \in Range(recorded_events[r]) \/ UnderWay(s, r)

SectionOK(r) ==
  SelectedOK(r) /\ RunOK(r) /\ FlightOK(r) /\ OnlyTheSection(r) /\ TheWholeSection(r)

Unselected(r) == matcher[r] = Unmatched /\ section[r] = NoSection

SectionIInv ==
  /\ OpenIInv
  /\ SectionShape
  /\ \A r \in Callable \ Live : Unselected(r)
  /\ \A r \in Live : MatcherOf[r] = "section" => SectionOK(r)

-----------------------------------------------------------------------------
\* A selection is a thread, a place and a state.
LEMMA SelectionProperties ==
  ASSUME SectionShape, NEW r \in Callable
  PROVE  /\ section[r].of \in Thread \cup {NoThread}
         /\ section[r].at \in Nat
         /\ section[r].state \in SectionState
         /\ matcher[r].section_id \in Nat
         /\ matcher[r] \in SectionMatcherState
         /\ NoThread \notin Thread
  <1>1. section[r] \in Selection /\ matcher[r] \in SectionMatcherState
    BY DEF SectionShape
  <1>2. NoThread \notin Thread
    BY RecorderAssumption
  <1> QED BY <1>1, <1>2 DEF Selection, SectionMatcherState

\* What a step of one thread leaves of a selection: the ids are where they were.
LEMMA SelectedKept ==
  ASSUME OpenIInv, IInv', NEW r, SectionShape, r \in Callable, SelectedOK(r),
         matcher'[r] = matcher[r],
         section'[r].of = section[r].of, section'[r].at = section[r].at,
         section[r] = NoSection => section'[r] = NoSection,
         next_section_id <= next_section_id',
         \A th \in Thread : \A p \in Nat :
           HasAt(th, p, matcher[r].section_id)' <=> HasAt(th, p, matcher[r].section_id)
  PROVE  SelectedOK(r)'
  <1>1. PICK v, p, id : v = section[r].of /\ p = section[r].at /\ id = matcher[r].section_id
    OBVIOUS
  <1>2. /\ v \in Thread \cup {NoThread} /\ p \in Nat /\ id \in Nat
        /\ next_section_id \in Nat /\ next_section_id' \in Nat
    BY <1>1, SelectionProperties DEF OpenIInv, RIInv, IInv, TypeOK
  <1>3. id = invalid_section_id => matcher[r] = Unmatched /\ section'[r] = NoSection
    BY <1>1 DEF SelectedOK
  <1>4. id # invalid_section_id => id < next_section_id'
    BY <1>1, <1>2 DEF SelectedOK
  <1>5. v # NoThread => HasAt(v, p, id)'
    <2>1. v # NoThread => HasAt(v, p, id)
      BY <1>1 DEF SelectedOK
    <2> QED BY <1>1, <1>2, <2>1
  <1>6. \A th \in Thread : \A q \in Nat : HasAt(th, q, id)' => v = th /\ p = q
    BY <1>1 DEF SelectedOK
  <1>7. /\ section'[r].of = v /\ section'[r].at = p /\ matcher'[r].section_id = id
        /\ matcher'[r] = matcher[r]
    BY <1>1
  <1> QED BY <1>3, <1>4, <1>5, <1>6, <1>7 DEF SelectedOK

\* A run goes on as long as the walk of its thread, if it starts or stops it,
\* is on the same side of the recorder.
LEMMA RunKept ==
  ASSUME NEW th \in Thread, OthersStay(th), SectionShape, NEW r \in Callable, RunOK(r),
         matcher'[r] = matcher[r], section'[r] = section[r],
         section[r].of = th =>
           \A t \in Turning :
             /\ Turns(th, t, matcher[r].section_id)' <=> Turns(th, t, matcher[r].section_id)
             /\ Turns(th, t, matcher[r].section_id) => (Pending(th, r)' <=> Pending(th, r))
  PROVE  RunOK(r)'
  <1>1. PICK v, id : v = section[r].of /\ id = matcher[r].section_id
    OBVIOUS
  <1>2. /\ section'[r].of = v /\ section'[r].state = section[r].state
        /\ matcher'[r].section_id = id /\ matcher'[r].recording = matcher[r].recording
    BY <1>1
  <1>3. CASE v = NoThread
    BY <1>1, <1>2, <1>3 DEF RunOK
  <1>4. CASE v \in Thread
    <2>1. \A t \in Turning :
            /\ Turns(v, t, id)' <=> Turns(v, t, id)
            /\ Turns(v, t, id) => (Pending(v, r)' <=> Pending(v, r))
      <3>1. CASE v = th
        BY <1>1, <3>1
      <3>2. CASE v # th
        <4>1. frame'[v] = frame[v] /\ (Pending(v, r)' <=> Pending(v, r))
          BY <1>4, <3>2, OthersPending DEF OthersStay
        <4> QED BY <4>1 DEF Turns, Dispatching
      <3> QED BY <3>1, <3>2
    <2>2. /\ "StartProfileSectionEvent" \in Turning
          /\ "StopProfileSectionEvent" \in Turning
      BY DEF Turning
    <2>3. /\ Turns(v, "StartProfileSectionEvent", id)' <=> Turns(v, "StartProfileSectionEvent", id)
          /\ Turns(v, "StopProfileSectionEvent", id)' <=> Turns(v, "StopProfileSectionEvent", id)
          /\ section[r].state \in {"starting", "stopping"} => (Pending(v, r)' <=> Pending(v, r))
      BY <1>1, <2>1, <2>2 DEF RunOK
    <2> QED BY <1>1, <1>2, <2>3 DEF RunOK
  <1> QED BY <1>1, <1>3, <1>4, SelectionProperties

\* The whole section is recorded if what is under way stays so or is recorded.
LEMMA WholeKept ==
  ASSUME OpenIInv, NEW th \in Thread, OthersStay(th), NEW r \in Live, TheWholeSection(r),
         history' = history, Range(recorded_events[r]) \subseteq Range(recorded_events'[r]),
         /\ current[th] \in Due(r) /\ Pending(th, r)
         /\ r \in history[current[th]].surely /\ history[current[th]].type \notin SectionTypes
         => \/ current[th] \in Range(recorded_events'[r])
            \/ current'[th] = current[th] /\ Pending(th, r)'
  PROVE  TheWholeSection(r)'
  <1>1. r \in Callable /\ Due(r) \subseteq DOMAIN history /\ Due(r)' = Due(r)
    BY LiveIsRegistered, HistoryProperties DEF OpenIInv, RIInv, Due, OthersStay
  <1>2. ASSUME NEW s \in Due(r), r \in history[s].surely, history[s].type \notin SectionTypes,
               UnderWay(s, r)
        PROVE  s \in Range(recorded_events'[r]) \/ UnderWay(s, r)'
    <2>1. CASE history[s].thread = th
      <3>1. current[th] = s /\ Pending(th, r)
        BY <1>2, <2>1, UnderWayIsPending
      <3> QED BY <1>2, <2>1, <3>1 DEF UnderWay, Pending, InFlight
    <2>2. CASE history[s].thread # th
      BY <1>1, <1>2, <2>2, OthersUnderWay DEF OpenIInv
    <2> QED BY <2>1, <2>2
  <1> QED BY <1>1, <1>2 DEF TheWholeSection

\* What is left to show of a step of one thread that leaves the matcher and its
\* section alone.
LEMMA SectionKept ==
  ASSUME SectionIInv, IInv', NEW th \in Thread, OthersStay(th),
         NEW r \in Live, MatcherOf[r] = "section",
         matcher'[r] = matcher[r], section'[r] = section[r],
         UNCHANGED <<history, current>>, next_section_id <= next_section_id',
         \A u \in Thread : \A p \in Nat :
           HasAt(u, p, matcher[r].section_id)' <=> HasAt(u, p, matcher[r].section_id),
         frame'[th].type = frame[th].type,
         section[r].of = th =>
           \A t \in Turning :
             /\ Turns(th, t, matcher[r].section_id)' <=> Turns(th, t, matcher[r].section_id)
             /\ Turns(th, t, matcher[r].section_id) => (Pending(th, r)' <=> Pending(th, r)),
         body'[th] \in {"matched", "locked"} /\ Listening(th)' = r =>
           r \in history[current[th]].possibly /\ frame[th].type \notin SectionTypes,
         Range(recorded_events[r]) \subseteq Range(recorded_events'[r]),
         \A s \in Range(recorded_events'[r]) :
           s \in Range(recorded_events[r]) \/ r \in history[s].possibly,
         /\ current[th] \in Due(r) /\ Pending(th, r)
         /\ r \in history[current[th]].surely /\ history[current[th]].type \notin SectionTypes
         => current[th] \in Range(recorded_events'[r]) \/ Pending(th, r)'
  PROVE  SectionOK(r)'
  <1>1. r \in Callable /\ SectionOK(r) /\ SectionShape /\ OpenIInv
    BY LiveIsRegistered DEF SectionIInv, OpenIInv, RIInv
  <1>2. SelectedOK(r)'
    BY <1>1, SelectedKept DEF SectionOK
  <1>3. RunOK(r)'
    BY <1>1, RunKept DEF SectionOK
  <1>4. FlightOK(r)'
    <2>1. \A u \in Thread \ {th} : /\ frame'[u] = frame[u] /\ body'[u] = body[u]
                                   /\ Listening(u)' = Listening(u)
      BY DEF OthersStay, managerVars, listVars, Listening
    <2>2. FlightOK(r)
      BY <1>1 DEF SectionOK
    <2>3. ASSUME NEW u \in Thread, body'[u] \in {"matched", "locked"}, Listening(u)' = r
          PROVE  r \in history[current[u]].possibly /\ frame'[u].type \notin SectionTypes
      <3>1. CASE u = th
        BY <2>3, <3>1
      <3>2. CASE u # th
        BY <2>1, <2>2, <2>3, <3>2 DEF FlightOK
      <3> QED BY <3>1, <3>2
    <2> QED BY <2>2, <2>3 DEF FlightOK
  <1>5. OnlyTheSection(r)'
    BY <1>1 DEF SectionOK, OnlyTheSection
  <1>6. TheWholeSection(r)'
    BY <1>1, WholeKept DEF SectionOK
  <1> QED BY <1>2, <1>3, <1>4, <1>5, <1>6 DEF SectionOK

\* What is left to show of a step of one thread, as a whole.
LEMMA OneThreadSection ==
  ASSUME SectionIInv, OpenIInv', SectionShape', NEW th \in Thread, OthersStay(th),
         \A r \in Callable \ Live : matcher'[r] = matcher[r] /\ section'[r] = section[r],
         \A r \in Live : MatcherOf[r] = "section" => SectionOK(r)'
  PROVE  SectionIInv'
  <1>1. Live' = Live
    BY DEF OthersStay, managerVars, listVars, Live
  <1> QED BY <1>1 DEF SectionIInv, Unselected

\* The context callback is called: the section the thread creates has an id
\* that no matcher has.
LEMMA CallContextSection ==
  ASSUME SectionIInv, OpenIInv', NEW th \in Thread, CallContext(th)
  PROVE  SectionIInv'
  <1>1. /\ UNCHANGED <<managerVars, open>>
        /\ \A u \in Thread \ {th} : frame'[u] = frame[u]
        /\ frame[th].pc = "context" /\ frame'[th].pc = "registered"
        /\ frame'[th].type = frame[th].type
        /\ frame[th].type \notin Opener => frame'[th].id = frame[th].id
        /\ next_section_id <= next_section_id'
        /\ frame[th].type = "CreateProfileSectionEvent" => frame'[th].id = next_section_id
        /\ next_section_id < invalid_section_id
    BY CallContextSections DEF SectionIInv, OpenIInv
  <1>2. UNCHANGED <<recorded_events, matcher, body, size, running, history, current, since, section>>
    BY DEF CallContext, recorderVars, historyVars
  <1>3. OthersStay(th)
    BY <1>1, <1>2 DEF OthersStay
  <1>4. SectionShape'
    BY <1>2 DEF SectionIInv, SectionShape
  <1>5. body[th] = "returned" /\ frame'[th].cursor = NoNode
    <2>1. body[th] = "returned" /\ frame[th].cursor = NoNode
      BY <1>1 DEF SectionIInv, OpenIInv, RIInv, ThreadOK, Walking, IInv, KokkosFrames
    <2>2. /\ frame[th] \in Frame /\ DOMAIN frame = Thread
      BY DEF SectionIInv, OpenIInv, RIInv, IInv, TypeOK
    <2>3. \/ \E id, owner : frame' = [frame EXCEPT ![th] =
                 [frame[th] EXCEPT !.pc = "registered", !.id = id, !.owner = owner]]
          \/ frame' = [frame EXCEPT ![th] = [frame[th] EXCEPT !.pc = "registered"]]
      BY DEF CallContext, dispatch_context_callback, IncrementIdIfNeeded, CallTool
    <2> QED BY <2>1, <2>2, <2>3 DEF Frame
  <1>6. ASSUME NEW r \in Live, MatcherOf[r] = "section" PROVE SectionOK(r)'
    <2>1. r \in Callable /\ SelectedOK(r)
      BY <1>6, LiveIsRegistered DEF SectionIInv, OpenIInv, RIInv, SectionOK
    <2>2. matcher[r].section_id # next_section_id
      <3>1. matcher[r].section_id \in Nat /\ next_section_id \in Nat
        BY <2>1 DEF SectionIInv, SectionShape, SectionMatcherState, OpenIInv, RIInv, IInv, TypeOK
      <3> QED BY <1>1, <2>1, <3>1 DEF SelectedOK
    <2>3. \A u \in Thread : \A p \in Nat :
            HasAt(u, p, matcher[r].section_id)' <=> HasAt(u, p, matcher[r].section_id)
      BY <1>1, <1>2, <2>2 DEF HasAt, SectionAt, CreatingAt, Sections
    <2>4. Pending(th, r) /\ Pending(th, r)'
      BY <1>1, <1>5 DEF Pending, Walking
    <2>5. \A t \in Turning :
            Turns(th, t, matcher[r].section_id)' <=> Turns(th, t, matcher[r].section_id)
      BY <1>1, <1>2, SectionEvents DEF Turns, Dispatching
    <2>6. /\ matcher'[r] = matcher[r] /\ section'[r] = section[r] /\ IInv'
          /\ body'[th] \notin {"matched", "locked"}
          /\ recorded_events'[r] = recorded_events[r]
      BY <1>2, <1>5 DEF OpenIInv, RIInv
    <2> QED BY <1>1, <1>2, <1>3, <1>6, <2>3, <2>4, <2>5, <2>6, SectionKept
  <1> QED BY <1>2, <1>3, <1>4, <1>6, OneThreadSection

\* The walk comes to a listener: the event is still to come to the same
\* recorders of those that handle it.
LEMMA EnterSection ==
  ASSUME SectionIInv, SectionListeners, OpenIInv', NEW th \in Thread, Enter(th)
  PROVE  SectionIInv'
  <1>1. UNCHANGED <<managerVars, open, next_section_id, recorded_events, matcher, mtx, size,
                   running, history, current, since, section>>
    BY DEF Enter, InvokeListener, counterVars, kokkosVars, recorderVars, historyVars
  <1>2. /\ \A u \in Thread \ {th} : frame'[u] = frame[u] /\ body'[u] = body[u]
        /\ frame'[th].pc = frame[th].pc /\ frame'[th].type = frame[th].type
        /\ frame'[th].id = frame[th].id /\ body'[th] = "entered"
    <2>1. frame \in [Thread -> Frame] /\ DOMAIN body = Thread
      BY DEF SectionIInv, OpenIInv, RIInv, IInv, TypeOK, RecorderShape
    <2>2. /\ \E n : frame' = [frame EXCEPT ![th].cursor = n]
          /\ body' = [body EXCEPT ![th] = "entered"]
      BY DEF Enter, InvokeListener
    <2> QED BY <2>1, <2>2 DEF Frame
  <1>3. OthersStay(th) /\ SectionShape'
    BY <1>1, <1>2 DEF OthersStay, SectionIInv, SectionShape
  <1>4. ASSUME NEW r \in Live, MatcherOf[r] = "section" PROVE SectionOK(r)'
    <2>1. r \in Callable
      BY LiveIsRegistered DEF SectionIInv, OpenIInv, RIInv
    <2>2. \A u \in Thread : \A p \in Nat :
            HasAt(u, p, matcher[r].section_id)' <=> HasAt(u, p, matcher[r].section_id)
      BY <1>1, <1>2 DEF HasAt, SectionAt, CreatingAt, Sections
    <2>3. RIInv /\ IInv'
      BY DEF SectionIInv, OpenIInv, RIInv
    <2>4. frame[th].type \in HandledBy[r] => (Pending(th, r)' <=> Pending(th, r))
      BY <2>3, EnterPending
    <2>5. ASSUME NEW t \in Turning
          PROVE  /\ Turns(th, t, matcher[r].section_id)' <=> Turns(th, t, matcher[r].section_id)
                 /\ Turns(th, t, matcher[r].section_id) => (Pending(th, r)' <=> Pending(th, r))
      <3>1. t \in HandledBy[r]
        BY <1>4, <2>1 DEF SectionListeners, SectionTypes, Turning
      <3> QED BY <1>1, <1>2, <2>4, <3>1 DEF Turns, Dispatching
    <2>6. current[th] \in Due(r) => frame[th].type \in HandledBy[r]
      <3>1. current[th] \in Due(r) => current[th] # 0
        BY <2>1, <2>3, HistoryProperties DEF RIInv
      <3> QED BY <2>3, <3>1 DEF RIInv, ThreadOK, Due
    <2>7. next_section_id \in Nat
      BY DEF SectionIInv, OpenIInv, RIInv, IInv, TypeOK
    <2>8. frame'[th].type = frame[th].type /\ body'[th] \notin {"matched", "locked"}
      BY <1>2
    <2> QED BY <1>1, <1>2, <1>3, <1>4, <2>2, <2>3, <2>4, <2>5, <2>6, <2>7, <2>8, SectionKept
  <1> QED BY <1>1, <1>3, <1>4, OneThreadSection

\* The mutex is taken.
LEMMA LockSection ==
  ASSUME SectionIInv, OpenIInv', NEW th \in Thread, Lock(th)
  PROVE  SectionIInv'
  <1>1. /\ UNCHANGED <<vars, recorded_events, matcher, running, history, current, since, section>>
        /\ body[th] = "matched"
    BY DEF Lock, historyVars
  <1>2. UNCHANGED <<managerVars, frame, open, callable, listeners, registered_callbacks,
                    next_section_id>>
    BY <1>1 DEF vars, managerVars, listVars, kokkosVars, counterVars
  <1>3. body'[th] = "locked" /\ \A u \in Thread \ {th} : body'[u] = body[u] /\ size'[u] = size[u]
    BY DEF Lock, SectionIInv, OpenIInv, RIInv, RecorderShape
  <1>4. OthersStay(th) /\ SectionShape'
    BY <1>1, <1>2, <1>3 DEF OthersStay, SectionIInv, SectionShape
  <1>5. /\ Walking(th)' = Walking(th) /\ Listening(th)' = Listening(th)
        /\ Walked(th)' = Walked(th) /\ Upcoming(th)' = Upcoming(th)
    BY <1>2 DEF Walking, Listening, Walked, Upcoming, Handles
  <1>6. ASSUME NEW r \in Live, MatcherOf[r] = "section" PROVE SectionOK(r)'
    <2>1. Pending(th, r)' <=> Pending(th, r)
      BY <1>1, <1>2, <1>3, <1>5 DEF Pending
    <2>2. \A u \in Thread : \A p \in Nat :
            HasAt(u, p, matcher[r].section_id)' <=> HasAt(u, p, matcher[r].section_id)
      BY <1>1, <1>2 DEF HasAt, SectionAt, CreatingAt, Sections
    <2>3. Listening(th)' = r =>
            r \in history[current[th]].possibly /\ frame[th].type \notin SectionTypes
      BY <1>1, <1>5, <1>6 DEF SectionIInv, SectionOK, FlightOK
    <2>4. next_section_id <= next_section_id' /\ IInv'
      BY <1>2 DEF SectionIInv, OpenIInv, RIInv, IInv, TypeOK
    <2>5. \A t \in Turning :
            Turns(th, t, matcher[r].section_id)' <=> Turns(th, t, matcher[r].section_id)
      BY <1>1, <1>2 DEF Turns, Dispatching
    <2> QED BY <1>1, <1>2, <1>4, <1>6, <2>1, <2>2, <2>3, <2>4, <2>5, SectionKept
  <1> QED BY <1>1, <1>4, <1>6, OneThreadSection

\* An event is recorded: its recorder's matcher has answered that the section
\* is running.
LEMMA PushBackSection ==
  ASSUME SectionIInv, OpenIInv', NEW th \in Thread, PushBack(th)
  PROVE  SectionIInv'
  <1> DEFINE c == Listening(th)
             l == recorded_events[c]
  <1>1. /\ UNCHANGED <<vars, matcher, running, history, current, since, section>>
        /\ body[th] = "locked"
        /\ recorded_events' = [recorded_events EXCEPT ![c] = Append(SubSeq(l, 1, size[th]), current[th])]
    BY DEF PushBack, historyVars
  <1>2. UNCHANGED <<managerVars, frame, open, callable, listeners, registered_callbacks,
                    next_section_id>>
    BY <1>1 DEF vars, managerVars, listVars, kokkosVars, counterVars
  <1>3. body'[th] = "returned" /\ \A u \in Thread \ {th} : body'[u] = body[u] /\ size'[u] = size[u]
    BY DEF PushBack, SectionIInv, OpenIInv, RIInv, RecorderShape
  <1>4. OthersStay(th) /\ SectionShape'
    BY <1>1, <1>2, <1>3 DEF OthersStay, SectionIInv, SectionShape
  <1>5. /\ Walking(th)' = Walking(th) /\ Listening(th)' = c
        /\ Walked(th)' = Walked(th) /\ Upcoming(th)' = Upcoming(th)
    BY <1>2 DEF Walking, Listening, Walked, Upcoming, Handles
  <1>6. /\ c \in Callable /\ frame[th].type \in HandledBy[c] /\ size[th] = Len(l)
        /\ \A k \in Upcoming(th) : callable[Walked(th)[k]].of # c
        /\ current[th] # 0 /\ history[current[th]].type = frame[th].type
    BY <1>1, ListeningProperties DEF SectionIInv, OpenIInv, RIInv, ThreadOK
  <1>7. /\ Range(recorded_events'[c]) = Range(l) \cup {current[th]}
        /\ \A r \in Callable \ {c} : recorded_events'[r] = recorded_events[r]
    <2>1. /\ l \in Seq(Nat) /\ current[th] \in Nat /\ SubSeq(l, 1, Len(l)) = l
          /\ DOMAIN recorded_events = Callable
      BY <1>6 DEF SectionIInv, OpenIInv, RIInv, RecorderShape
    <2> HIDE DEF l
    <2>2. Range(Append(l, current[th])) = Range(l) \cup {current[th]}
      <3>1. /\ Append(l, current[th]) \in Seq(Nat) /\ Len(Append(l, current[th])) = Len(l) + 1
            /\ \A i \in 1 .. Len(l) : Append(l, current[th])[i] = l[i]
            /\ Append(l, current[th])[Len(l) + 1] = current[th]
        BY <2>1, AppendProperties
      <3>2. /\ DOMAIN l = 1 .. Len(l) /\ Len(l) \in Nat
            /\ DOMAIN Append(l, current[th]) = 1 .. Len(l) + 1
        BY <2>1, <3>1
      <3> QED BY <3>1, <3>2 DEF Range
    <2> QED BY <1>1, <1>6, <2>1, <2>2
  <1> HIDE DEF c, l
  <1>8. ASSUME NEW r \in Live, MatcherOf[r] = "section" PROVE SectionOK(r)'
    <2>1. r \in Callable /\ FlightOK(r)
      BY <1>8, LiveIsRegistered DEF SectionIInv, OpenIInv, RIInv, SectionOK
    <2>2. \A u \in Thread : \A p \in Nat :
            HasAt(u, p, matcher[r].section_id)' <=> HasAt(u, p, matcher[r].section_id)
      BY <1>1, <1>2 DEF HasAt, SectionAt, CreatingAt, Sections
    <2>3. next_section_id <= next_section_id' /\ IInv'
      BY <1>2 DEF SectionIInv, OpenIInv, RIInv, IInv, TypeOK
    <2>4. r # c => (Pending(th, r)' <=> Pending(th, r))
      BY <1>2, <1>5 DEF Pending, c
    <2>5. r = c => r \in history[current[th]].possibly /\ frame[th].type \notin SectionTypes
      BY <1>1, <2>1 DEF FlightOK, c
    <2>6. Range(recorded_events[r]) \subseteq Range(recorded_events'[r])
      BY <1>7, <2>1 DEF l
    <2>7. \A s \in Range(recorded_events'[r]) :
            s \in Range(recorded_events[r]) \/ r \in history[s].possibly
      BY <1>7, <2>1, <2>5 DEF l
    <2>8. Pending(th, r) => current[th] \in Range(recorded_events'[r]) \/ Pending(th, r)'
      BY <1>7, <2>4
    <2>9. \A t \in Turning :
            /\ Turns(th, t, matcher[r].section_id)' <=> Turns(th, t, matcher[r].section_id)
            /\ Turns(th, t, matcher[r].section_id) => (Pending(th, r)' <=> Pending(th, r))
      BY <1>1, <1>2, <2>4, <2>5 DEF SectionTypes, Turning, Turns, Dispatching
    <2>10. body'[th] \notin {"matched", "locked"}
      BY <1>3
    <2> QED BY <1>1, <1>2, <1>4, <1>8, <2>2, <2>3, <2>6, <2>7, <2>8, <2>9, <2>10, SectionKept
  <1> QED BY <1>1, <1>4, <1>8, OneThreadSection

\* A thread that starts or stops the section with the id the matcher has is
\* the one whose section is selected.
LEMMA OwnSection ==
  ASSUME SectionIInv, NEW th \in Thread, NEW r \in Live, SelectedOK(r),
         NEW t \in Turning, Turns(th, t, matcher[r].section_id)
  PROVE  section[r].of = th
  <1>1. PICK i \in Sections(th) : open[th][i].id = matcher[r].section_id
    BY DEF SectionIInv, OpenIInv, ThreadSections, Turns
  <1>2. i \in Nat
    <2>1. open[th] \in Seq(Open)
      BY DEF SectionIInv, OpenIInv, RIInv, IInv, TypeOK
    <2> QED BY <1>1, <2>1 DEF Sections
  <1> QED BY <1>1, <1>2 DEF SelectedOK, HasAt, SectionAt

\* The matcher is asked about the event of a section it does not have yet, or
\* about the start or stop of its own.
LEMMA MatcherMoves ==
  ASSUME SectionIInv, OpenIInv', NEW th \in Thread, OthersStay(th),
         NEW r \in Live, MatcherOf[r] = "section", r = Listening(th),
         UNCHANGED <<vars, recorded_events, history, current>>,
         body[th] = "entered", body'[th] = "returned",
         \/ /\ Selecting(Received(th)) /\ ~Aborts(matcher[r], Received(th))
            /\ matcher'[r] = [matcher[r] EXCEPT !.section_id = frame[th].id]
            /\ section'[r] = [of |-> th, at |-> Len(open[th]) + 1, state |-> "stopped"]
         \/ /\ frame[th].type = "StartProfileSectionEvent" /\ frame[th].id = matcher[r].section_id
            /\ matcher'[r] = [matcher[r] EXCEPT !.recording = TRUE]
            /\ section'[r] = section[r]
         \/ /\ frame[th].type = "StopProfileSectionEvent" /\ frame[th].id = matcher[r].section_id
            /\ matcher'[r] = [matcher[r] EXCEPT !.recording = FALSE]
            /\ section'[r] = section[r]
  PROVE  SectionOK(r)'
  <1>1. /\ UNCHANGED <<managerVars, frame, open, callable, listeners, registered_callbacks,
                       next_section_id>>
        /\ r \in Callable /\ SectionOK(r) /\ OpenIInv /\ RIInv
    BY LiveIsRegistered DEF vars, managerVars, listVars, kokkosVars, counterVars, SectionIInv,
                            OpenIInv, RIInv
  <1>2. /\ frame[th].pc = "registered" /\ current[th] # 0
        /\ history[current[th]].type = frame[th].type
        /\ \A k \in Upcoming(th) : callable[Walked(th)[k]].of # r
        /\ frame[th].cursor # NoNode
    BY <1>1, ListeningProperties DEF RIInv, ThreadOK
  <1>3. ~Pending(th, r)'
    <2>1. /\ Walking(th)' = Walking(th) /\ Walked(th)' = Walked(th) /\ Upcoming(th)' = Upcoming(th)
          /\ Walking(th)
      BY <1>1, <1>2 DEF Walking, Walked, Upcoming, Handles
    <2> QED BY <1>1, <1>2, <2>1 DEF Pending
  <1>4. frame[th].type \in SectionTypes
    BY DEF Selecting, Received, SectionTypes
  <1>5. \A u \in Thread : \A p, id : HasAt(u, p, id)' <=> HasAt(u, p, id)
    BY <1>1 DEF HasAt, SectionAt, CreatingAt, Sections
  <1>6. matcher[r] \in SectionMatcherState /\ section[r].state = section'[r].state
    <2>1. matcher[r] \in SectionMatcherState
      BY <1>1 DEF SectionIInv, SectionShape
    <2>2. CASE Selecting(Received(th)) /\ ~Aborts(matcher[r], Received(th))
      <3>1. section[r] = NoSection
        BY <1>1, <2>2 DEF Aborts, SectionOK, SelectedOK
      <3>2. section[r].state = "stopped"
        BY <3>1 DEF NoSection
      <3> QED BY <2>1, <3>2
    <2> QED BY <2>1, <2>2
  <1>7. OnlyTheSection(r)' /\ TheWholeSection(r)'
    <2>1. OnlyTheSection(r)'
      BY <1>1 DEF SectionOK, OnlyTheSection
    <2>2. TheWholeSection(r)'
      BY <1>1, <1>2, <1>4, WholeKept DEF SectionOK
    <2> QED BY <2>1, <2>2
  <1>8. FlightOK(r)'
    <2>1. \A u \in Thread \ {th} : /\ frame'[u] = frame[u] /\ body'[u] = body[u]
                                   /\ Listening(u)' = Listening(u)
      BY <1>1 DEF OthersStay, Listening
    <2> QED BY <1>1, <1>6, <2>1 DEF SectionOK, FlightOK
  <1>9. CASE /\ Selecting(Received(th)) /\ ~Aborts(matcher[r], Received(th))
             /\ matcher'[r] = [matcher[r] EXCEPT !.section_id = frame[th].id]
             /\ section'[r] = [of |-> th, at |-> Len(open[th]) + 1, state |-> "stopped"]
    <2>1. /\ frame[th].type = "CreateProfileSectionEvent"
          /\ matcher[r].section_id = invalid_section_id
      BY <1>9 DEF Aborts, Selecting, Received
    <2>2. PICK n, id : n = Len(open[th]) + 1 /\ id = frame[th].id
      OBVIOUS
    <2>3. HasAt(th, n, id) /\ n \in Nat
      <3>1. open[th] \in Seq(Open)
        BY <1>1 DEF RIInv, IInv, TypeOK
      <3> QED BY <1>2, <2>1, <2>2, <3>1 DEF HasAt, CreatingAt
    <2>4. /\ id \in Nat /\ id < next_section_id
          /\ \A u \in Thread : \A p : HasAt(u, p, id) => u = th /\ p = n
      <3>1. \A u \in Thread : Numbered(u)
        BY <1>1 DEF OpenIInv, SectionRecorder
      <3> QED BY <1>1, <2>3, <3>1, HasProperties
    <2>5. id # invalid_section_id /\ ~matcher[r].recording
      <3>1. /\ next_section_id \in Nat /\ invalid_section_id \in Nat
            /\ next_section_id <= invalid_section_id
        BY <1>1, RecorderAssumption DEF OpenIInv, RIInv, IInv, TypeOK
      <3>2. ~matcher[r].recording
        BY <1>1, <2>1 DEF SectionOK, SelectedOK, Unmatched
      <3> QED BY <2>4, <3>1, <3>2
    <2>6. matcher'[r].section_id = id /\ matcher'[r].recording = matcher[r].recording
      BY <1>6, <1>9, <2>2 DEF SectionMatcherState
    <2>7. section'[r].of = th /\ section'[r].at = n /\ section'[r].state = "stopped"
      BY <1>9, <2>2
    <2>8. SelectedOK(r)'
      <3>1. HasAt(th, n, id)' /\ \A u \in Thread : \A p : HasAt(u, p, id)' => u = th /\ p = n
        BY <1>5, <2>3, <2>4
      <3> QED BY <1>1, <2>4, <2>5, <2>6, <2>7, <3>1 DEF SelectedOK
    <2>9. RunOK(r)'
      BY <1>1, <2>1, <2>5, <2>6, <2>7 DEF RunOK, Turns, Dispatching
    <2> QED BY <1>7, <1>8, <2>8, <2>9 DEF SectionOK
  <1>10. ASSUME NEW t \in {"StartProfileSectionEvent", "StopProfileSectionEvent"},
                frame[th].type = t, frame[th].id = matcher[r].section_id,
                matcher'[r] = [matcher[r] EXCEPT !.recording = (t = "StartProfileSectionEvent")],
                section'[r] = section[r]
         PROVE  SectionOK(r)'
    <2>1. /\ matcher'[r].section_id = matcher[r].section_id
          /\ matcher'[r].recording <=> t = "StartProfileSectionEvent"
      BY <1>6, <1>10 DEF SectionMatcherState
    <2>2. section[r].of = th /\ th # NoThread /\ Turns(th, t, matcher[r].section_id)
      <3>1. Turns(th, t, matcher[r].section_id) /\ t \in Turning
        BY <1>2, <1>10 DEF Turns, Dispatching, Turning
      <3> QED BY <1>1, <3>1, OwnSection, RecorderAssumption DEF SectionOK
    <2>3. matcher[r].section_id # invalid_section_id
      BY <1>1, <2>2 DEF SectionOK, SelectedOK, NoSection
    <2>4. SelectedOK(r)'
      <3>1. PICK id, p : id = matcher[r].section_id /\ p = section[r].at
        OBVIOUS
      <3>2. /\ id < next_section_id /\ HasAt(th, p, id)
            /\ \A u \in Thread : \A q \in Nat : HasAt(u, q, id) => th = u /\ p = q
        BY <1>1, <2>2, <2>3, <3>1 DEF SectionOK, SelectedOK
      <3>3. /\ HasAt(th, p, id)'
            /\ \A u \in Thread : \A q \in Nat : HasAt(u, q, id)' => th = u /\ p = q
        BY <1>5, <3>2
      <3>4. /\ section'[r].of = th /\ section'[r].at = p /\ matcher'[r].section_id = id
            /\ id # invalid_section_id /\ next_section_id' = next_section_id
        BY <1>1, <1>10, <2>1, <2>2, <2>3, <3>1
      <3> QED BY <3>2, <3>3, <3>4 DEF SelectedOK
    <2>5. ~Pending(section[r].of, r)'
      <3>1. section'[r].of = th
        BY <1>10, <2>2
      <3> QED BY <1>3, <3>1
    <2>6. \/ t = "StartProfileSectionEvent" /\ section[r].state \in {"starting", "started"}
          \/ t = "StopProfileSectionEvent" /\ section[r].state \in {"stopping", "stopped"}
      BY <1>1, <2>2 DEF SectionOK, RunOK
    <2>7. Turns(section[r].of, t, matcher[r].section_id)' /\ frame'[th].type = t
      BY <1>1, <1>10, <2>1, <2>2 DEF Turns, Dispatching
    <2>8. RunOK(r)'
      BY <1>10, <2>1, <2>2, <2>5, <2>6, <2>7 DEF RunOK, Turns, Dispatching
    <2> QED BY <1>7, <1>8, <2>4, <2>8 DEF SectionOK
  <1> QED BY <1>9, <1>10

\* The matcher is asked, and answers that the section is running, or not.
LEMMA AskMatcherSection ==
  ASSUME SectionIInv, OpenIInv', NEW th \in Thread, AskMatcher(th)
  PROVE  SectionIInv'
  <1>0. PICK c, e, m : c = Listening(th) /\ e = Received(th) /\ m = matcher[c]
    OBVIOUS
  <1>1. /\ UNCHANGED <<vars, recorded_events, mtx, size, running, history, current, since>>
        /\ body[th] = "entered"
    BY DEF AskMatcher
  <1>2. UNCHANGED <<managerVars, frame, open, callable, listeners, registered_callbacks,
                    next_section_id>>
    BY <1>1 DEF vars, managerVars, listVars, kokkosVars, counterVars
  <1>3. /\ c \in Callable /\ c \in Live /\ Listening(th)' = c
        /\ \A k \in Upcoming(th) : callable[Walked(th)[k]].of # c
        /\ current[th] # 0 /\ history[current[th]].type = frame[th].type
    BY <1>0, <1>1, <1>2, ListeningProperties DEF SectionIInv, OpenIInv, RIInv, ThreadOK, Listening
  <1>4. /\ e.type = frame[th].type /\ e.id = frame[th].id
        /\ \A r \in Live : r \in Callable
    BY <1>0, LiveIsRegistered DEF Received, SectionIInv, OpenIInv, RIInv
  \* Either nothing happens, or the answer is given.
  <1>5. \/ UNCHANGED <<body, matcher, section>>
        \/ /\ body' = [body EXCEPT ![th] = IF Accepts(c, e) THEN "matched" ELSE "returned"]
           /\ \A r \in Callable \ {c} : matcher'[r] = matcher[r] /\ section'[r] = section[r]
           /\ MatcherOf[c] = "any" => matcher'[c] = m /\ section'[c] = section[c]
           /\ MatcherOf[c] = "section" =>
                /\ ~Aborts(m, e)
                /\ matcher'[c] = After(m, e)
                /\ section'[c] = IF Selecting(e) THEN [of |-> th, at |-> Len(open[th]) + 1, state |-> "stopped"] ELSE section[c]
           /\ matcher' = [matcher EXCEPT ![c] = IF MatcherOf[c] = "section" THEN After(@, e) ELSE @]
           /\ section' = IF MatcherOf[c] = "section" /\ Selecting(e)
                         THEN [section EXCEPT ![c] = [of |-> th, at |-> Len(open[th]) + 1, state |-> "stopped"]] ELSE section
    <2>1. DOMAIN matcher = Callable /\ DOMAIN section = Callable
      BY DEF SectionIInv, SectionShape
    <2> QED BY <1>0, <1>3, <2>1 DEF AskMatcher
  <1>6. /\ \A u \in Thread \ {th} : body'[u] = body[u]
        /\ body'[th] \in {"entered", "matched", "returned"}
    BY <1>1, <1>5 DEF SectionIInv, OpenIInv, RIInv, RecorderShape
  <1>7. OthersStay(th)
    BY <1>1, <1>2, <1>6 DEF OthersStay
  <1>8. SectionShape'
    <2>1. m \in SectionMatcherState /\ e.id \in Nat
      BY <1>0, <1>3, <1>4 DEF SectionIInv, SectionShape, OpenIInv, RIInv, IInv, TypeOK, Frame
    <2>2. After(m, e) \in SectionMatcherState
      BY <2>1 DEF After, SectionMatcherState
    <2>3. [of |-> th, at |-> Len(open[th]) + 1, state |-> "stopped"] \in Selection
      <3>1. open[th] \in Seq(Open)
        BY DEF SectionIInv, OpenIInv, RIInv, IInv, TypeOK
      <3> QED BY <3>1 DEF Selection, SectionState
    <2> QED BY <1>3, <1>5, <2>2, <2>3 DEF SectionIInv, SectionShape
  <1>9. /\ Walking(th)' = Walking(th)
        /\ Walked(th)' = Walked(th) /\ Upcoming(th)' = Upcoming(th)
    BY <1>2 DEF Walking, Walked, Upcoming, Handles
  <1>10. /\ \A u \in Thread : \A p, id : HasAt(u, p, id)' <=> HasAt(u, p, id)
         /\ \A t, id : Turns(th, t, id)' <=> Turns(th, t, id)
    BY <1>2 DEF HasAt, SectionAt, CreatingAt, Sections, Turns, Dispatching
  <1>11. next_section_id <= next_section_id' /\ IInv'
    BY <1>2 DEF SectionIInv, OpenIInv, RIInv, IInv, TypeOK
  \* The other recorders.
  <1>12. ASSUME NEW r \in Live, MatcherOf[r] = "section", r # c PROVE SectionOK(r)'
    <2>1. matcher'[r] = matcher[r] /\ section'[r] = section[r]
      BY <1>4, <1>5, <1>12
    <2>2. Pending(th, r)' <=> Pending(th, r)
      BY <1>0, <1>2, <1>3, <1>9, <1>12 DEF Pending
    <2>3. /\ \A u \in Thread : \A p \in Nat :
               HasAt(u, p, matcher[r].section_id)' <=> HasAt(u, p, matcher[r].section_id)
          /\ \A t \in Turning :
               Turns(th, t, matcher[r].section_id)' <=> Turns(th, t, matcher[r].section_id)
      BY <1>10, <2>1
    <2> QED BY <1>1, <1>2, <1>3, <1>7, <1>11, <1>12, <2>1, <2>2, <2>3, SectionKept
  \* The recorder whose matcher is asked, when that leaves the matcher as it is.
  <1>13. ASSUME MatcherOf[c] = "section", matcher'[c] = m, section'[c] = section[c],
                \/ body'[th] = "entered"
                \/ /\ body'[th] = (IF Accepts(c, e) THEN "matched" ELSE "returned")
                   /\ frame[th].type \in {"StartProfileSectionEvent", "StopProfileSectionEvent"} =>
                        frame[th].id # m.section_id
         PROVE  SectionOK(c)'
    <2>1. SectionOK(c) /\ Pending(th, c)
      BY <1>0, <1>1, <1>3, <1>13 DEF SectionIInv, Pending
    <2>2. /\ \A u \in Thread : \A p \in Nat :
               HasAt(u, p, matcher[c].section_id)' <=> HasAt(u, p, matcher[c].section_id)
          /\ \A t \in Turning :
               Turns(th, t, matcher[c].section_id)' <=> Turns(th, t, matcher[c].section_id)
      BY <1>0, <1>10, <1>13
    <2>3. body'[th] # "returned" => Pending(th, c)'
      BY <1>3, <1>9 DEF Pending
    <2>5. \A t \in Turning :
            Turns(th, t, matcher[c].section_id) => (Pending(th, c)' <=> Pending(th, c))
      BY <1>0, <1>13, <2>1, <2>3 DEF Turns, Dispatching, Turning
    <2>6. Accepts(c, e) <=> frame[th].type \notin SectionTypes /\ m.recording
      BY <1>0, <1>4, <1>13 DEF Accepts, Answer, SectionTypes
    <2>7. m.recording => c \in history[current[th]].possibly
      <3>1. m.recording => section[c].state # "stopped"
        BY <1>0, <2>1 DEF SectionOK, RunOK
      <3>2. FlightOK(c)
        BY <2>1 DEF SectionOK
      <3> QED BY <1>3, <3>1, <3>2 DEF FlightOK
    <2>8. c \in history[current[th]].surely => m.recording
      <3>1. section[c].state = "started" => m.recording
        BY <1>0, <2>1 DEF SectionOK, RunOK
      <3>2. FlightOK(c)
        BY <2>1 DEF SectionOK
      <3> QED BY <1>3, <3>1, <3>2 DEF FlightOK
    <2>9. body'[th] \in {"matched", "locked"} =>
            c \in history[current[th]].possibly /\ frame[th].type \notin SectionTypes
      BY <1>13, <2>6, <2>7
    <2>10. /\ c \in history[current[th]].surely /\ history[current[th]].type \notin SectionTypes
           => Pending(th, c)'
      <3>1. /\ c \in history[current[th]].surely /\ frame[th].type \notin SectionTypes
            => Accepts(c, e)
        BY <2>6, <2>8
      <3>2. Accepts(c, e) => body'[th] # "returned"
        BY <1>13
      <3> QED BY <1>3, <2>3, <3>1, <3>2
    <2> QED BY <1>0, <1>1, <1>2, <1>3, <1>7, <1>11, <1>13, <2>2, <2>5, <2>9, <2>10, SectionKept
  <1>14. CASE UNCHANGED <<body, matcher, section>>
    BY <1>0, <1>1, <1>3, <1>7, <1>8, <1>12, <1>13, <1>14, OneThreadSection
  <1>15. ASSUME body'[th] = (IF Accepts(c, e) THEN "matched" ELSE "returned"),
                MatcherOf[c] = "section", ~Aborts(m, e), matcher'[c] = After(m, e),
                section'[c] = IF Selecting(e) THEN [of |-> th, at |-> Len(open[th]) + 1, state |-> "stopped"] ELSE section[c]
         PROVE  SectionOK(c)'
    <2>1. CASE e.type \in SectionTypes /\ (Selecting(e) \/ (e.type # "CreateProfileSectionEvent" /\ e.id = m.section_id))
      <3>1. body'[th] = "returned"
        BY <1>15, <2>1 DEF Accepts, Answer, SectionTypes
      <3>2. \/ /\ Selecting(e)
               /\ matcher'[c] = [m EXCEPT !.section_id = frame[th].id]
               /\ section'[c] = [of |-> th, at |-> Len(open[th]) + 1, state |-> "stopped"]
            \/ /\ frame[th].type = "StartProfileSectionEvent" /\ frame[th].id = m.section_id
               /\ matcher'[c] = [m EXCEPT !.recording = TRUE]
               /\ section'[c] = section[c]
            \/ /\ frame[th].type = "StopProfileSectionEvent" /\ frame[th].id = m.section_id
               /\ matcher'[c] = [m EXCEPT !.recording = FALSE]
               /\ section'[c] = section[c]
        BY <1>4, <1>15, <2>1 DEF After, Selecting, SectionTypes
      <3> QED BY <1>0, <1>1, <1>3, <1>7, <1>15, <3>1, <3>2, MatcherMoves
    <2>2. CASE ~Selecting(e) /\ (e.type \in {"StartProfileSectionEvent", "StopProfileSectionEvent"}
                                  => e.id # m.section_id)
      <3>1. matcher'[c] = m /\ section'[c] = section[c]
        BY <1>15, <2>2 DEF After
      <3> QED BY <1>4, <1>13, <1>15, <2>2, <3>1
    <2> QED BY <2>1, <2>2 DEF Selecting, SectionTypes
  <1>16. CASE /\ body' = [body EXCEPT ![th] = IF Accepts(c, e) THEN "matched" ELSE "returned"]
              /\ \A r \in Callable \ {c} : matcher'[r] = matcher[r] /\ section'[r] = section[r]
              /\ MatcherOf[c] = "section" =>
                   /\ ~Aborts(m, e)
                   /\ matcher'[c] = After(m, e)
                   /\ section'[c] = IF Selecting(e) THEN [of |-> th, at |-> Len(open[th]) + 1, state |-> "stopped"] ELSE section[c]
    <2>1. body'[th] = (IF Accepts(c, e) THEN "matched" ELSE "returned")
      BY <1>16 DEF SectionIInv, OpenIInv, RIInv, RecorderShape
    <2>2. MatcherOf[c] = "section" => SectionOK(c)'
      BY <1>15, <1>16, <2>1
    <2>3. \A r \in Callable \ Live : matcher'[r] = matcher[r] /\ section'[r] = section[r]
      BY <1>3, <1>16
    <2>4. \A r \in Live : MatcherOf[r] = "section" => SectionOK(r)'
      <3> SUFFICES ASSUME NEW r \in Live, MatcherOf[r] = "section" PROVE SectionOK(r)'
        OBVIOUS
      <3>1. CASE r # c
        BY <1>12, <3>1
      <3>2. CASE r = c
        <4>1. MatcherOf[c] = "section"
          BY <3>2
        <4> QED BY <1>0, <2>2, <3>2, <4>1
      <3> QED BY <3>1, <3>2
    <2> QED BY <1>7, <1>8, <2>3, <2>4, OneThreadSection
  <1> QED BY <1>5, <1>14, <1>16

\* The dispatch ends: the section it started is running, the section it

\* The dispatch ends: the section it started is running, the section it
\* stopped is not, and the matchers have been told.
LEMMA LeaveSection ==
  ASSUME SectionIInv, SectionListeners, OpenIInv', NEW th \in Thread, Leave(th)
  PROVE  SectionIInv'
  <1>1. /\ UNCHANGED <<recorded_events, matcher, mtx, body, size, running, history, since>>
        /\ body[th] = "returned" /\ current' = [current EXCEPT ![th] = 0]
        /\ section' = [r \in Callable |->
                         CASE section[r].of = th /\ section[r].state = "starting"
                                -> [section[r] EXCEPT !.state = "started"]
                           [] section[r].of = th /\ section[r].state = "stopping"
                                -> [section[r] EXCEPT !.state = "stopped"]
                           [] OTHER -> section[r]]
    BY DEF Leave, recorderVars
  <1>2. /\ UNCHANGED <<managerVars, next_section_id>>
        /\ \A u \in Thread \ {th} : frame'[u] = frame[u] /\ open'[u] = open[u]
        /\ frame'[th].pc = "idle" /\ frame[th].pc = "registered"
        /\ \A p, id : HasAt(th, p, id)' <=> HasAt(th, p, id)
    BY LeaveSections DEF SectionIInv, OpenIInv
  <1>3. /\ \A u \in Thread \ {th} : current'[u] = current[u] /\ body'[u] = body[u] /\ size'[u] = size[u]
        /\ current'[th] = 0
    BY <1>1 DEF SectionIInv, OpenIInv, RIInv, RecorderShape
  <1>4. OthersStay(th)
    BY <1>1, <1>2, <1>3 DEF OthersStay
  <1>5. ASSUME NEW r \in Callable
        PROVE  /\ section'[r] \in Selection
               /\ section'[r].of = section[r].of /\ section'[r].at = section[r].at
               /\ section[r].of # th \/ section[r].state \in {"stopped", "started"} =>
                    section'[r] = section[r]
               /\ section[r].of = th /\ section[r].state = "starting" => section'[r].state = "started"
               /\ section[r].of = th /\ section[r].state = "stopping" => section'[r].state = "stopped"
    <2>1. PICK S \in Selection : S = section[r]
      BY <1>5 DEF SectionIInv, SectionShape
    <2>2. section'[r] = CASE S.of = th /\ S.state = "starting" -> [S EXCEPT !.state = "started"]
                          [] S.of = th /\ S.state = "stopping" -> [S EXCEPT !.state = "stopped"]
                          [] OTHER -> S
      BY <1>1, <1>5, <2>1
    <2>3. CASE S.of = th /\ S.state = "starting"
      BY <2>1, <2>2, <2>3 DEF Selection, SectionState
    <2>4. CASE S.of = th /\ S.state = "stopping"
      BY <2>1, <2>2, <2>4 DEF Selection, SectionState
    <2>5. CASE ~(S.of = th /\ S.state \in {"starting", "stopping"})
      BY <2>1, <2>2, <2>5
    <2> QED BY <2>1, <2>3, <2>4, <2>5
  <1>6. SectionShape'
    <2>1. section' = [r \in Callable |-> section'[r]]
      BY <1>1
    <2> QED BY <1>1, <1>5, <2>1 DEF SectionIInv, SectionShape
  <1>7. ASSUME NEW r \in Live, MatcherOf[r] = "section" PROVE SectionOK(r)'
    <2>1. r \in Callable /\ SectionOK(r) /\ RIInv /\ SectionShape
      BY <1>7, LiveIsRegistered DEF SectionIInv, OpenIInv, RIInv
    <2> DEFINE S == section[r]
               m == matcher[r]
    <2>2. /\ S.of \in Thread \cup {NoThread} /\ S.state \in SectionState
          /\ section'[r].of = S.of /\ section'[r].at = S.at /\ m' = m
          /\ section'[r].state \in SectionState
          /\ S.of # th \/ S.state \in {"stopped", "started"} => section'[r] = S
          /\ S.of = th /\ S.state = "starting" => section'[r].state = "started"
          /\ S.of = th /\ S.state = "stopping" => section'[r].state = "stopped"
      <3>1. section'[r].state \in SectionState
        BY <1>5, <2>1 DEF Selection
      <3> QED BY <1>1, <1>5, <2>1, <3>1, SelectionProperties
    <2>3. \A u \in Thread : \A p \in Nat : HasAt(u, p, m.section_id)' <=> HasAt(u, p, m.section_id)
      <3>1. \A u \in Thread \ {th} : \A p, id : HasAt(u, p, id)' <=> HasAt(u, p, id)
        BY <1>2 DEF HasAt, SectionAt, CreatingAt, Sections
      <3>2. \A u \in Thread : \A p, id : HasAt(u, p, id)' <=> HasAt(u, p, id)
        BY <1>2, <3>1
      <3> QED BY <2>2, <3>2
    <2>4. SelectedOK(r)'
      <3>1. S = NoSection => section'[r] = NoSection
        BY <1>5, <2>1 DEF NoSection
      <3>2. next_section_id <= next_section_id' /\ OpenIInv /\ IInv'
        BY <1>2 DEF SectionIInv, OpenIInv, RIInv, IInv, TypeOK
      <3>3. SelectedOK(r)
        BY <2>1 DEF SectionOK
      <3> QED BY <2>1, <2>2, <2>3, <3>1, <3>2, <3>3, SelectedKept
    \* The matcher handles the events that tell it, so it has been told.
    <2>5. /\ section'[r].state = "stopped" => ~m.recording
          /\ section'[r].state = "started" => m.recording
          /\ S.of = th => section'[r].state \in {"stopped", "started"}
      <3>1. CASE S.of = th /\ S.state \in {"starting", "stopping"}
        <4>1. frame[th].type \in {"StartProfileSectionEvent", "StopProfileSectionEvent"}
          BY <2>1, <3>1 DEF SectionOK, RunOK, Turns, Dispatching
        <4>2. frame[th].type \in HandledBy[r]
          BY <1>7, <2>1, <4>1 DEF SectionListeners, SectionTypes
        <4>3. ~Pending(S.of, r)
          BY <2>1, <3>1, <4>2, LeavePending
        <4> QED BY <2>1, <2>2, <3>1, <4>3 DEF SectionOK, RunOK
      <3>2. CASE ~(S.of = th /\ S.state \in {"starting", "stopping"})
        BY <2>1, <2>2, <3>2 DEF SectionOK, RunOK, SectionState
      <3> QED BY <3>1, <3>2
    <2>6. RunOK(r)'
      <3>1. CASE S.of = th
        <4>1. \A t, id : ~Turns(section[r].of, t, id)'
          BY <1>2, <2>2, <3>1 DEF Turns, Dispatching
        <4> QED BY <2>2, <2>5, <3>1, <4>1 DEF RunOK
      <3>2. CASE S.of # th
        BY <1>4, <2>1, <2>2, <3>2, RunKept DEF SectionOK
      <3> QED BY <3>1, <3>2
    <2>7. FlightOK(r)'
      <3>1. \A u \in Thread \ {th} : Listening(u)' = Listening(u) /\ frame'[u] = frame[u]
        BY <1>2 DEF managerVars, listVars, Listening
      <3>2. FlightOK(r)
        BY <2>1 DEF SectionOK
      <3>3. /\ section'[r].state # "stopped" => S.state # "stopped"
            /\ S.state = "started" => section'[r].state = "started"
        BY <2>2 DEF SectionState
      <3> QED BY <1>1, <1>3, <3>1, <3>2, <3>3 DEF FlightOK
    <2>8. OnlyTheSection(r)'
      BY <1>1, <2>1 DEF SectionOK, OnlyTheSection
    <2>9. current[th] \in Due(r) => ~Pending(th, r)
      <3>1. current[th] \in Due(r) => frame[th].type \in HandledBy[r]
        <4>1. current[th] \in Due(r) => current[th] # 0
          BY <2>1, HistoryProperties DEF RIInv
        <4> QED BY <2>1, <4>1 DEF RIInv, ThreadOK, Due
      <3> QED BY <1>7, <2>1, <3>1, LeavePending
    <2>10. TheWholeSection(r)'
      BY <1>1, <1>4, <1>7, <2>1, <2>9, WholeKept DEF SectionIInv, SectionOK
    <2> QED BY <2>4, <2>6, <2>7, <2>8, <2>10 DEF SectionOK
  <1>8. \A r \in Callable \ Live : matcher'[r] = matcher[r] /\ section'[r] = section[r]
    <2> SUFFICES ASSUME NEW r \in Callable \ Live PROVE section'[r] = section[r]
      BY <1>1
    <2>1. section[r].of = NoThread /\ NoThread # th
      BY RecorderAssumption DEF SectionIInv, Unselected, NoSection
    <2> QED BY <1>5, <2>1
  <1> QED BY <1>4, <1>6, <1>7, <1>8, OneThreadSection

-----------------------------------------------------------------------------
(***************************************************************************)
(* An event is emitted, whether the Manager hears of it or not.            *)
(***************************************************************************)
\* What becomes of the place S of a selected section: a section that is closed
\* is gone, those behind it move up.
Placed(th, t, i, S, T) ==
  /\ S.of # th \/ t \notin Closers => T.of = S.of /\ T.at = S.at
  /\ S.of = th /\ t \in Closers =>
       /\ S.at < i => T.of = th /\ T.at = S.at
       /\ S.at = i => T.of = NoThread
       /\ S.at > i => T.of = th /\ T.at = S.at - 1

LEMMA SectionsCloseProperties ==
  ASSUME SectionShape, NEW th \in Thread, NEW t, NEW i \in Nat, NEW r \in Callable,
         NEW T, T = SectionsClose(th, t, i)[r]
  PROVE  /\ Placed(th, t, i, section[r], T)
         /\ T.state = section[r].state
         /\ section[r].of # th => T = section[r]
  <1>1. PICK S \in Selection : S = section[r]
    BY DEF SectionShape
  <1>2. S.at \in Nat
    BY DEF Selection
  <1>3. T = CASE t \in Closers /\ S.of = th /\ S.at = i -> [S EXCEPT !.of = NoThread]
              [] t \in Closers /\ S.of = th /\ S.at > i -> [S EXCEPT !.at = @ - 1]
              [] OTHER -> S
    BY <1>1 DEF SectionsClose, Closers
  <1>4. CASE t \in Closers /\ S.of = th /\ S.at = i
    <2>1. T.of = NoThread /\ T.state = S.state
      BY <1>2, <1>3, <1>4 DEF Selection
    <2> QED BY <1>1, <1>2, <1>4, <2>1 DEF Placed
  <1>5. CASE t \in Closers /\ S.of = th /\ S.at > i
    <2>1. T.of = th /\ T.at = S.at - 1 /\ T.state = S.state
      BY <1>2, <1>3, <1>5 DEF Selection
    <2> QED BY <1>1, <1>2, <1>5, <2>1 DEF Placed
  <1>6. CASE ~(t \in Closers /\ S.of = th /\ S.at >= i)
    <2>1. T = S
      BY <1>2, <1>3, <1>6
    <2> QED BY <1>1, <1>2, <1>6, <2>1 DEF Placed
  <1> QED BY <1>2, <1>4, <1>5, <1>6

LEMMA SectionsAfterProperties ==
  ASSUME SectionShape, NEW th \in Thread, NEW t, NEW i \in Nat, NEW r \in Callable,
         NEW T, T = SectionsAfter(th, t, i)[r]
  PROVE  /\ Placed(th, t, i, section[r], T)
         /\ section[r].of # th => T = section[r]
         /\ section[r].of = th =>
              T.state = IF /\ t = "StartProfileSectionEvent"
                           /\ section[r].at = i /\ section[r].state = "stopped"
                        THEN "starting"
                        ELSE IF /\ t = "StopProfileSectionEvent"
                                /\ section[r].at = i /\ section[r].state = "started"
                             THEN "stopping" ELSE section[r].state
  <1>1. PICK S \in Selection : S = section[r]
    BY DEF SectionShape
  <1>2. PICK C : C = SectionsClose(th, t, i)[r]
    OBVIOUS
  <1>3. /\ Placed(th, t, i, section[r], C) /\ C.state = S.state
        /\ section[r].of # th => C = section[r]
    BY <1>1, <1>2, SectionsCloseProperties
  <1>4. S = [of |-> S.of, at |-> S.at, state |-> S.state]
    BY DEF Selection
  <1>5. /\ S = [of |-> th, at |-> i, state |-> "stopped"] <=>
             S.of = th /\ S.at = i /\ S.state = "stopped"
        /\ S = [of |-> th, at |-> i, state |-> "started"] <=>
             S.of = th /\ S.at = i /\ S.state = "started"
    BY <1>4
  <1>6. T = CASE t = "StartProfileSectionEvent" /\ S.of = th /\ S.at = i /\ S.state = "stopped"
                   -> [S EXCEPT !.state = "starting"]
              [] t = "StopProfileSectionEvent" /\ S.of = th /\ S.at = i /\ S.state = "started"
                   -> [S EXCEPT !.state = "stopping"]
              [] OTHER -> C
    BY <1>1, <1>2, <1>5 DEF SectionsAfter
  <1>7. ASSUME t \in Turning, NEW state, T = [S EXCEPT !.state = state]
        PROVE  Placed(th, t, i, section[r], T) /\ T.state = state
    <2>1. T.of = S.of /\ T.at = S.at /\ T.state = state /\ t \notin Closers
      BY <1>7, SectionEvents DEF Selection
    <2> QED BY <1>1, <2>1 DEF Placed
  <1>8. CASE t = "StartProfileSectionEvent" /\ S.of = th /\ S.at = i /\ S.state = "stopped"
    <2>1. T = [S EXCEPT !.state = "starting"] /\ t \in Turning
      BY <1>6, <1>8 DEF Turning
    <2> QED BY <1>1, <1>7, <1>8, <2>1
  <1>9. CASE t = "StopProfileSectionEvent" /\ S.of = th /\ S.at = i /\ S.state = "started"
    <2>1. T = [S EXCEPT !.state = "stopping"] /\ t \in Turning
      BY <1>6, <1>9 DEF Turning
    <2> QED BY <1>1, <1>7, <1>9, <2>1
  <1>10. CASE /\ ~(t = "StartProfileSectionEvent" /\ S.of = th /\ S.at = i /\ S.state = "stopped")
              /\ ~(t = "StopProfileSectionEvent" /\ S.of = th /\ S.at = i /\ S.state = "started")
    <2>1. T = C
      BY <1>6, <1>10
    <2> QED BY <1>1, <1>3, <1>10, <2>1
  <1> QED BY <1>8, <1>9, <1>10

\* The matcher's section is where its id is.
LEMMA SelectedAfterEmit ==
  ASSUME OpenIInv, NEW th \in Thread, NEW t, NEW i \in Nat, EmitAbout(th, t, i),
         callbacks["CreateProfileSectionEvent"] = "dispatching",
         SectionShape, NEW r \in Callable, SelectedOK(r),
         matcher'[r] = matcher[r], next_section_id' = next_section_id,
         section[r].of # th => section'[r] = section[r],
         Placed(th, t, i, section[r], section'[r])
  PROVE  SelectedOK(r)'
  <1>1. PICK v, p, id : v = section[r].of /\ p = section[r].at /\ id = matcher[r].section_id
    OBVIOUS
  <1>2. PICK w, q : w = section'[r].of /\ q = section'[r].at
    OBVIOUS
  <1>3. v \in Thread \cup {NoThread} /\ p \in Nat /\ NoThread \notin Thread
    BY <1>1, SelectionProperties
  <1>4. /\ v # th \/ t \notin Closers => w = v /\ q = p
        /\ v = th /\ t \in Closers =>
             /\ p < i => w = th /\ q = p
             /\ p = i => w = NoThread
             /\ p > i => w = th /\ q = p - 1
    BY <1>1, <1>2 DEF Placed
  <1>5. /\ \A u \in Thread \ {th} : \A k : HasAt(u, k, id)' <=> HasAt(u, k, id)
        /\ t \notin Closers => \A k : HasAt(th, k, id)' <=> HasAt(th, k, id)
        /\ t \in Closers => \A k \in Nat :
             /\ k < i => (HasAt(th, k, id)' <=> HasAt(th, k, id))
             /\ k >= i => (HasAt(th, k, id)' <=> HasAt(th, k + 1, id))
    BY EmitPlaces
  <1>6. /\ v # NoThread => HasAt(v, p, id)
        /\ \A u \in Thread : \A k \in Nat : HasAt(u, k, id) => v = u /\ p = k
    BY <1>1 DEF SelectedOK
  <1>7. w # NoThread => HasAt(w, q, id)'
    <2>1. CASE v # th \/ t \notin Closers
      BY <1>3, <1>4, <1>5, <1>6, <2>1
    <2>2. CASE v = th /\ t \in Closers /\ p < i
      BY <1>3, <1>4, <1>5, <1>6, <2>2
    <2>3. CASE v = th /\ t \in Closers /\ p = i
      BY <1>4, <2>3
    <2>4. CASE v = th /\ t \in Closers /\ p > i
      <3>1. w = th /\ q = p - 1 /\ q \in Nat /\ q >= i /\ q + 1 = p
        BY <1>3, <1>4, <2>4
      <3> QED BY <1>3, <1>5, <1>6, <2>4, <3>1
    <2> QED BY <1>3, <2>1, <2>2, <2>3, <2>4
  <1>8. ASSUME NEW u \in Thread, NEW k \in Nat, HasAt(u, k, id)' PROVE w = u /\ q = k
    <2>1. CASE u # th \/ t \notin Closers
      <3>1. v = u /\ p = k
        BY <1>5, <1>6, <1>8, <2>1
      <3> QED BY <1>4, <2>1, <3>1
    <2>2. CASE u = th /\ t \in Closers /\ k < i
      <3>1. v = u /\ p = k
        BY <1>5, <1>6, <1>8, <2>2
      <3> QED BY <1>4, <2>2, <3>1
    <2>3. CASE u = th /\ t \in Closers /\ k >= i
      <3>1. HasAt(th, k + 1, id) /\ k + 1 \in Nat
        BY <1>5, <1>8, <2>3
      <3>2. v = th /\ p = k + 1
        BY <1>6, <3>1
      <3>3. p > i /\ p - 1 = k
        BY <2>3, <3>2
      <3> QED BY <1>4, <2>3, <3>2, <3>3
    <2> QED BY <2>1, <2>2, <2>3
  <1>9. /\ id = invalid_section_id => matcher[r] = Unmatched /\ section'[r] = NoSection
        /\ id # invalid_section_id => id < next_section_id'
    <2>1. NoSection.of # th
      BY <1>3 DEF NoSection
    <2> QED BY <1>1, <2>1 DEF SelectedOK
  <1>10. /\ section'[r].of = w /\ section'[r].at = q /\ matcher'[r].section_id = id
         /\ matcher'[r] = matcher[r]
    BY <1>1, <1>2
  <1> QED BY <1>7, <1>8, <1>9, <1>10 DEF SelectedOK

\* An event the Manager does not hear of may still close a section.
LEMMA EmitUnheardSection ==
  ASSUME SectionIInv, SectionListeners, OpenIInv', NEW th \in Thread, EmitUnheard(th)
  PROVE  SectionIInv'
  <1>1. PICK t \in EventType, i \in 0 .. Len(open[th]) :
          /\ callbacks[t] # "dispatching" /\ EmitAbout(th, t, i)
          /\ section' = SectionsClose(th, t, i)
    BY EmittedProperties DEF EmitUnheard
  <1>2. UNCHANGED <<recorded_events, matcher, mtx, body, size, running, history, current, since>>
    BY DEF EmitUnheard, recorderVars
  <1>3. OpenIInv /\ RIInv /\ SectionShape
    BY DEF SectionIInv, OpenIInv
  <1>4. i \in Nat
    BY <1>3 DEF RIInv, IInv, TypeOK
  <1>5. /\ UNCHANGED <<managerVars, next_section_id>> /\ frame' = frame /\ frame[th].pc = "idle"
    BY <1>1, <1>2, <1>3, <1>4, EmitSections DEF OpenIInv
  <1>6. OthersStay(th)
    BY <1>2, <1>5 DEF OthersStay
  <1>7. ASSUME NEW r \in Callable
        PROVE  /\ Placed(th, t, i, section[r], section'[r])
               /\ section'[r].state = section[r].state
               /\ section[r].of # th => section'[r] = section[r]
    BY <1>1, <1>3, <1>4, SectionsCloseProperties
  <1>8. SectionShape'
    BY <1>1, <1>2, <1>3, <1>4, SectionsCloseType DEF SectionShape
  <1>9. ASSUME NEW r \in Live, MatcherOf[r] = "section" PROVE SectionOK(r)'
    <2>1. r \in Callable /\ SectionOK(r) /\ th # NoThread
      BY <1>3, <1>9, LiveIsRegistered, RecorderAssumption DEF SectionIInv, RIInv
    <2>2. matcher'[r] = matcher[r] /\ next_section_id' = next_section_id
      BY <1>2, <1>5
    <2>3. SelectedOK(r)'
      <3>1. callbacks["CreateProfileSectionEvent"] = "dispatching"
        BY <1>3, <1>9, SectionsHeard DEF SectionRecorder
      <3>2. SelectedOK(r)
        BY <2>1 DEF SectionOK
      <3> QED BY <1>1, <1>3, <1>4, <1>7, <2>1, <2>2, <3>1, <3>2, SelectedAfterEmit
    <2>4. RunOK(r)'
      <3>1. CASE section[r].of # th
        BY <1>3, <1>6, <1>7, <2>1, <2>2, <3>1, RunKept DEF SectionOK
      <3>2. CASE section[r].of = th
        <4>1. \A d, id : ~Turns(th, d, id) /\ ~Turns(th, d, id)'
          BY <1>5 DEF Turns, Dispatching
        <4>2. section[r].state \in {"stopped", "started"}
          BY <1>3, <2>1, <3>2, <4>1, SelectionProperties DEF SectionOK, RunOK, SectionState
        <4>3. /\ section[r].state = "stopped" => ~matcher[r].recording
              /\ section[r].state = "started" => matcher[r].recording
          BY <2>1 DEF SectionOK, RunOK
        <4>4. section'[r].of \in {th, NoThread} /\ section'[r].state = section[r].state
          <5>1. section[r].at \in Nat
            BY <1>3, <2>1, SelectionProperties
          <5> QED BY <1>4, <1>7, <2>1, <3>2, <5>1 DEF Placed
        <4>5. \A d, id : section'[r].of # NoThread => ~Turns(section[r].of, d, id)'
          BY <4>1, <4>4
        <4> QED BY <2>2, <4>2, <4>3, <4>4, <4>5 DEF RunOK
      <3> QED BY <3>1, <3>2
    <2>5. FlightOK(r)'
      <3>1. \A u \in Thread : Listening(u)' = Listening(u)
        BY <1>5 DEF managerVars, listVars, Listening
      <3>2. FlightOK(r)
        BY <2>1 DEF SectionOK
      <3> QED BY <1>2, <1>5, <1>7, <2>1, <3>1, <3>2 DEF FlightOK
    <2>6. OnlyTheSection(r)'
      BY <1>2, <2>1 DEF SectionOK, OnlyTheSection
    <2>7. TheWholeSection(r)'
      <3>1. Pending(th, r) => Pending(th, r)'
        BY <1>5 DEF Pending, Walking
      <3> QED BY <1>2, <1>3, <1>6, <1>9, <2>1, <3>1, WholeKept DEF SectionOK
    <2> QED BY <2>3, <2>4, <2>5, <2>6, <2>7 DEF SectionOK
  <1>10. \A r \in Callable \ Live : matcher'[r] = matcher[r] /\ section'[r] = section[r]
    <2> SUFFICES ASSUME NEW r \in Callable \ Live PROVE section'[r] = section[r]
      BY <1>2
    <2>1. section[r].of = NoThread /\ NoThread # th
      BY RecorderAssumption DEF SectionIInv, Unselected, NoSection
    <2> QED BY <1>7, <2>1
  <1> QED BY <1>6, <1>8, <1>9, <1>10, OneThreadSection

\* An event is emitted: whatever is under way when a section begins to start
\* or to stop is possibly within its run, and not surely.
LEMMA EmitRecordedSection ==
  ASSUME SectionIInv, SectionListeners, OpenIInv', NEW th \in Thread, EmitRecorded(th)
  PROVE  SectionIInv'
  <1>1. PICK t \in EventType, name \in Name \cup {NoName}, i \in 0 .. Len(open[th]) :
          EmitNamed(th, t, i, name) /\ EmitAbout(th, t, i)
    BY EmittedProperties DEF EmitRecorded
  <1>2. PICK n \in Nat : n = Len(history) + 1
    BY HistoryProperties DEF SectionIInv, OpenIInv, RIInv
  <1>3. /\ callbacks[t] = "dispatching" /\ section' = SectionsAfter(th, t, i)
        /\ current' = [current EXCEPT ![th] = n]
        /\ UNCHANGED <<recorded_events, matcher, mtx, body, size, running, since>>
    BY <1>1, <1>2 DEF EmitNamed, recorderVars
  <1>4. OpenIInv /\ RIInv /\ SectionShape
    BY DEF SectionIInv, OpenIInv
  <1>5. /\ frame[th].pc = "idle"
        /\ frame'[th].pc = "context" /\ frame'[th].type = t
        /\ \A u \in Thread \ {th} : frame'[u] = frame[u]
        /\ UNCHANGED managerVars
    BY <1>1, <1>3, <1>4, EmitRecordedEnters
  <1>6. /\ current'[th] = n /\ \A u \in Thread \ {th} : current'[u] = current[u]
        /\ current[th] = 0 /\ body[th] = "returned"
    BY <1>3, <1>4, <1>5 DEF RIInv, RecorderShape, ThreadOK, Walking
  <1>7. OthersStay(th)
    BY <1>3, <1>5, <1>6 DEF OthersStay
  <1>8. /\ n # 0 /\ n \notin DOMAIN history /\ DOMAIN history' = DOMAIN history \cup {n}
        /\ Len(history') = n
        /\ history'[n].thread = th /\ history'[n].type = t
    <2>1. RIInv /\ EmitNamed(th, t, i, name) /\ n = Len(history) + 1
      BY <1>1, <1>2, <1>4
    <2> QED BY <2>1, EmitNamedHistory, ZenonT(40)
  <1>9. \A s \in DOMAIN history :
          /\ history'[s].thread = history[s].thread /\ history'[s].type = history[s].type
          /\ history[s].possibly \subseteq history'[s].possibly
          /\ history'[s].surely \subseteq history[s].surely
          /\ \A r \in Callable : InFlight(s) /\ section'[r].state # section[r].state =>
               r \in history'[s].possibly /\ r \notin history'[s].surely
    <2>1. RIInv /\ EmitNamed(th, t, i, name) /\ n = Len(history) + 1
      BY <1>1, <1>2, <1>4
    <2> QED BY <2>1, EmitNamedHistory
  <1>10. \A r \in Callable : /\ r \in history'[n].surely <=> section'[r].state = "started"
                             /\ r \in history'[n].possibly <=> section'[r].state # "stopped"
    <2>1. RIInv /\ EmitNamed(th, t, i, name) /\ n = Len(history) + 1
      BY <1>1, <1>2, <1>4
    <2> QED BY <2>1, EmitNamedHistory
  <1>11. i \in Nat
    BY <1>4 DEF RIInv, IInv, TypeOK
  <1>12. ASSUME NEW r \in Callable
         PROVE  /\ Placed(th, t, i, section[r], section'[r])
                /\ section[r].of # th => section'[r] = section[r]
                /\ section[r].of = th =>
                     section'[r].state =
                       IF /\ t = "StartProfileSectionEvent"
                          /\ section[r].at = i /\ section[r].state = "stopped"
                       THEN "starting"
                       ELSE IF /\ t = "StopProfileSectionEvent"
                               /\ section[r].at = i /\ section[r].state = "started"
                            THEN "stopping" ELSE section[r].state
    BY <1>3, <1>4, <1>11, SectionsAfterProperties
  <1>13. SectionShape'
    BY <1>3, <1>4, <1>11, SectionsAfterType DEF SectionShape
  <1>14. /\ t \in Turning => i \in Sections(th) /\ open[th][i].id = frame'[th].id
         /\ UNCHANGED next_section_id
    BY <1>1, <1>3, <1>4, <1>11, EmitSections DEF OpenIInv
  <1>15. ASSUME NEW r \in Live, MatcherOf[r] = "section" PROVE SectionOK(r)'
    <2> DEFINE S == section[r]
               T == section'[r]
    <2>1. r \in Callable /\ SectionOK(r) /\ th # NoThread /\ NoThread \notin Thread
      BY <1>4, <1>15, LiveIsRegistered, RecorderAssumption DEF SectionIInv, RIInv
    <2>2. matcher'[r] = matcher[r] /\ next_section_id' = next_section_id
      BY <1>3, <1>14
    <2>3. /\ S.of # th => T = S
          /\ Placed(th, t, i, S, T)
      BY <1>12, <2>1
    <2>4. S.of = th =>
            T.state = IF t = "StartProfileSectionEvent" /\ S.at = i /\ S.state = "stopped"
                      THEN "starting"
                      ELSE IF t = "StopProfileSectionEvent" /\ S.at = i /\ S.state = "started"
                           THEN "stopping" ELSE S.state
      BY <1>12, <2>1
    <2>5. S.of \in Thread \cup {NoThread} /\ S.state \in SectionState /\ S.at \in Nat
      BY <1>4, <2>1, SelectionProperties
    <2>6. SelectedOK(r)'
      <3>1. callbacks["CreateProfileSectionEvent"] = "dispatching"
        BY <1>4, <1>15, SectionsHeard DEF SectionRecorder
      <3>2. SelectedOK(r)
        BY <2>1 DEF SectionOK
      <3> QED BY <1>1, <1>4, <1>11, <2>1, <2>2, <2>3, <3>1, <3>2, SelectedAfterEmit
    \* The thread starts or stops the selected section just if it is the one at
    \* that place.
    <2>7. ASSUME S.of = th, t \in Turning
          PROVE  S.at = i <=> frame'[th].id = matcher[r].section_id
      <3>1. PICK id : id = matcher[r].section_id
        OBVIOUS
      <3>2. HasAt(th, S.at, id) /\ \A p \in Nat : HasAt(th, p, id) => S.at = p
        BY <2>1, <2>7, <3>1 DEF SectionOK, SelectedOK
      <3>3. \A p : HasAt(th, p, id) <=> SectionAt(th, p, id)
        BY <1>5 DEF HasAt, CreatingAt
      <3>4. i \in Sections(th) /\ open[th][i].id = frame'[th].id
        BY <1>14, <2>7
      <3> QED BY <1>11, <3>1, <3>2, <3>3, <3>4 DEF SectionAt
    <2> HIDE DEF S, T
    <2>8. RunOK(r)'
      <3>1. CASE S.of # th
        BY <1>4, <1>7, <2>1, <2>2, <2>3, <3>1, RunKept DEF SectionOK, S, T
      <3>2. CASE S.of = th
        <4>1. S.state \in {"stopped", "started"}
          BY <1>5, <2>1, <2>5, <3>2 DEF SectionOK, RunOK, SectionState, Turns, Dispatching, S
        <4>2. Pending(th, r)'
          BY <1>5 DEF Pending, Walking
        <4>3. S.state = "stopped" => ~matcher[r].recording
          BY <2>1 DEF SectionOK, RunOK, S
        <4>4. S.state = "started" => matcher[r].recording
          BY <2>1 DEF SectionOK, RunOK, S
        <4>5. CASE T.of = NoThread
          <5>1. t \notin Turning
            <6>1. t \in Turning => t \notin Closers
              BY SectionEvents
            <6> QED BY <2>1, <2>3, <3>2, <4>5, <6>1 DEF Placed
          <5>2. T.state = S.state
            BY <2>4, <3>2, <5>1 DEF Turning
          <5> QED BY <2>2, <4>1, <4>3, <4>4, <4>5, <5>2 DEF RunOK, T
        <4>6. CASE T.of # NoThread
          <5>1. T.of = th
            BY <1>11, <2>3, <2>5, <3>2, <4>6 DEF Placed
          <5>2. Pending(section[r].of, r)'
            BY <4>2, <5>1 DEF T
          <5>3. \A d \in Turning : Turns(section[r].of, d, matcher[r].section_id)' <=> t = d /\ S.at = i
            BY <1>5, <2>2, <2>7, <3>2, <5>1 DEF Turns, Dispatching, T
          <5>4. /\ T.state = "starting" <=> t = "StartProfileSectionEvent" /\ S.at = i /\ S.state = "stopped"
                /\ T.state = "stopping" <=> t = "StopProfileSectionEvent" /\ S.at = i /\ S.state = "started"
                /\ T.state \notin {"starting", "stopping"} => T.state = S.state
            BY <2>4, <3>2, <4>1
          <5>5. /\ Turns(section[r].of, "StartProfileSectionEvent", matcher[r].section_id)' <=>
                     t = "StartProfileSectionEvent" /\ S.at = i
                /\ Turns(section[r].of, "StopProfileSectionEvent", matcher[r].section_id)' <=>
                     t = "StopProfileSectionEvent" /\ S.at = i
            BY <5>3 DEF Turning
          <5> QED BY <2>1, <2>2, <4>1, <4>3, <4>4, <5>1, <5>2, <5>4, <5>5 DEF RunOK, T
        <4> QED BY <4>5, <4>6
      <3> QED BY <3>1, <3>2
    <2>9. ASSUME NEW u \in Thread \ {th}, current[u] # 0
          PROVE  current[u] \in DOMAIN history /\ InFlight(current[u])
      BY <1>4, <2>9 DEF RIInv, ThreadOK, InFlight
    <2>10. FlightOK(r)'
      <3>1. FlightOK(r)
        BY <2>1 DEF SectionOK
      <3>2. \A u \in Thread \ {th} : /\ frame'[u] = frame[u] /\ body'[u] = body[u]
                                     /\ Listening(u)' = Listening(u)
        BY <1>3, <1>5 DEF managerVars, listVars, Listening
      <3>3. ASSUME NEW u \in Thread, current'[u] # 0
            PROVE  /\ T.state # "stopped" => r \in history'[current'[u]].possibly
                   /\ r \in history'[current'[u]].surely => T.state = "started"
        <4>1. CASE u = th
          BY <1>6, <1>10, <2>1, <4>1 DEF T
        <4>2. CASE u # th
          <5>1. current'[u] = current[u] /\ current[u] # 0
            BY <1>6, <3>3, <4>2
          <5>2. current[u] \in DOMAIN history /\ InFlight(current[u])
            BY <2>9, <4>2, <5>1
          <5>3. /\ S.state # "stopped" => r \in history[current[u]].possibly
                /\ r \in history[current[u]].surely => S.state = "started"
            BY <3>1, <5>1 DEF FlightOK, S
          <5>4. CASE T.state = S.state
            BY <1>9, <5>1, <5>2, <5>3, <5>4
          <5>5. CASE T.state # S.state
            BY <1>9, <2>1, <5>1, <5>2, <5>5 DEF S, T
          <5> QED BY <5>4, <5>5
        <4> QED BY <4>1, <4>2
      <3>4. ASSUME NEW u \in Thread, body'[u] \in {"matched", "locked"}, Listening(u)' = r
            PROVE  r \in history'[current'[u]].possibly /\ frame'[u].type \notin SectionTypes
        <4>1. u # th
          BY <1>3, <1>6, <3>4
        <4>2. /\ body[u] \in {"matched", "locked"} /\ Listening(u) = r
              /\ frame'[u] = frame[u] /\ current'[u] = current[u]
          BY <1>6, <3>2, <3>4, <4>1
        <4>3. r \in history[current[u]].possibly /\ frame[u].type \notin SectionTypes
          BY <3>1, <4>2 DEF FlightOK
        <4>4. current[u] # 0
          BY <1>4, <4>2, ListeningProperties
        <4> QED BY <1>9, <2>9, <4>1, <4>2, <4>3, <4>4
      <3> QED BY <3>3, <3>4 DEF FlightOK, T
    <2>11. Due(r) \subseteq DOMAIN history /\ Range(recorded_events[r]) \subseteq Due(r)
      BY <1>4, <1>15, <2>1, HistoryProperties DEF RIInv, RecordingOK
    <2>12. OnlyTheSection(r)'
      <3>1. OnlyTheSection(r)
        BY <2>1 DEF SectionOK
      <3> QED BY <1>3, <1>9, <2>11, <3>1 DEF OnlyTheSection
    <2>13. TheWholeSection(r)'
      <3>1. TheWholeSection(r)
        BY <2>1 DEF SectionOK
      <3>2. UnderWay(n, r)'
        BY <1>5, <1>6, <1>8 DEF UnderWay, InFlight, Walking
      <3>3. Due(r)' \subseteq Due(r) \cup {n}
        <4>1. since[r] \in Nat /\ Len(history) \in Nat /\ DOMAIN history = 1 .. Len(history)
          BY <1>4, <2>1, HistoryProperties DEF RIInv, RecorderShape
        <4> QED BY <1>2, <1>3, <1>8, <1>9, <4>1 DEF Due
      <3>4. ASSUME NEW s \in Due(r), UnderWay(s, r) PROVE UnderWay(s, r)'
        <4>1. s \in DOMAIN history /\ s # 0 /\ current[history[s].thread] = s
          BY <1>4, <2>11, <3>4, HistoryProperties, UnderWayIsPending DEF RIInv
        <4>2. history[s].thread # th
          BY <1>6, <4>1
        <4> QED BY <1>4, <1>7, <1>9, <3>4, <4>1, <4>2, OthersUnderWay
      <3> QED BY <1>3, <1>9, <2>11, <3>1, <3>2, <3>3, <3>4 DEF TheWholeSection
    <2> QED BY <2>6, <2>8, <2>10, <2>12, <2>13 DEF SectionOK
  <1>16. \A r \in Callable \ Live : matcher'[r] = matcher[r] /\ section'[r] = section[r]
    <2> SUFFICES ASSUME NEW r \in Callable \ Live PROVE section'[r] = section[r]
      BY <1>3
    <2>1. section[r].of = NoThread /\ NoThread # th
      BY RecorderAssumption DEF SectionIInv, Unselected, NoSection
    <2> QED BY <1>12, <2>1
  <1> QED BY <1>7, <1>13, <1>15, <1>16, OneThreadSection

-----------------------------------------------------------------------------
(***************************************************************************)
(* Recorders are made and destroyed when every thread is out of the        *)
(* Manager.                                                                *)
(***************************************************************************)
\* A recorder that a step at rest keeps is left alone, one that it makes finds
\* every open section numbered, so none with the id of a matcher that has none.
LEMMA AtRestSection ==
  ASSUME SectionIInv, OpenIInv', SectionShape',
         \A th \in Thread : frame[th].pc = "idle",
         UNCHANGED <<frame, body, current>>,
         \A r \in Callable \ Live' : Unselected(r)',
         \A r \in Live' : MatcherOf[r] = "section" =>
           \/ /\ Unselected(r)' /\ recorded_events'[r] = <<>> /\ since'[r] = Len(history')
              /\ \A th \in Thread : Numbered(th)
              /\ UNCHANGED <<open, next_section_id>>
           \/ /\ r \in Live
              /\ matcher'[r] = matcher[r] /\ section'[r] = section[r]
              /\ recorded_events'[r] = recorded_events[r] /\ since'[r] = since[r]
              /\ UNCHANGED <<history, open, next_section_id>>
  PROVE  SectionIInv'
  <1>1. /\ \A th \in Thread : current[th] = 0 /\ body[th] = "returned" /\ frame'[th].pc = "idle"
        /\ OpenIInv /\ RIInv /\ SectionShape
    BY DEF SectionIInv, OpenIInv, RIInv, ThreadOK, Walking
  <1>2. \A th \in Thread : current'[th] = 0 /\ body'[th] = "returned"
    BY <1>1
  <1>3. \A r : FlightOK(r)'
    BY <1>2 DEF FlightOK
  <1>4. NoThread \notin Thread
    BY RecorderAssumption
  <1>5. ASSUME NEW r \in Live', MatcherOf[r] = "section",
               Unselected(r)', recorded_events'[r] = <<>>, since'[r] = Len(history'),
               \A th \in Thread : Numbered(th), UNCHANGED <<open, next_section_id>>
        PROVE  SectionOK(r)'
    <2>1. Due(r)' = {}
      <3>1. Len(history') \in Nat
        BY DEF OpenIInv, RIInv, RecorderShape
      <3> QED BY <1>5, <3>1 DEF Due
    <2>2. /\ matcher'[r] = Unmatched /\ Unmatched.section_id = invalid_section_id
          /\ Unmatched.recording = FALSE
          /\ section'[r] = NoSection /\ NoSection.of = NoThread /\ NoSection.state = "stopped"
      BY <1>5 DEF Unselected, Unmatched, NoSection
    <2>3. \A th \in Thread : \A p : ~HasAt(th, p, invalid_section_id)'
      <3>1. ASSUME NEW th \in Thread, NEW p, HasAt(th, p, invalid_section_id) PROVE FALSE
        <4>1. invalid_section_id < next_section_id
          BY <1>1, <1>5, <3>1, HasProperties
        <4>2. next_section_id <= invalid_section_id /\ next_section_id \in Nat
          BY <1>1 DEF OpenIInv, RIInv, IInv, TypeOK
        <4> QED BY <4>1, <4>2, RecorderAssumption
      <3>2. \A th \in Thread : \A p, id : HasAt(th, p, id)' <=> HasAt(th, p, id)
        BY <1>5 DEF HasAt, SectionAt, CreatingAt, Sections
      <3> QED BY <3>1, <3>2
    <2>4. SelectedOK(r)'
      BY <2>2, <2>3 DEF SelectedOK
    <2>5. RunOK(r)'
      BY <2>2 DEF RunOK
    <2>6. OnlyTheSection(r)' /\ TheWholeSection(r)'
      BY <1>5, <2>1 DEF OnlyTheSection, TheWholeSection, Range
    <2> QED BY <1>3, <2>4, <2>5, <2>6 DEF SectionOK
  <1>6. ASSUME NEW r \in Live, MatcherOf[r] = "section",
               matcher'[r] = matcher[r], section'[r] = section[r],
               recorded_events'[r] = recorded_events[r], since'[r] = since[r],
               UNCHANGED <<history, open, next_section_id>>
        PROVE  SectionOK(r)'
    <2>1. r \in Callable /\ SectionOK(r)
      BY <1>1, <1>6, LiveIsRegistered DEF SectionIInv, RIInv
    <2>2. section[r].of \in Thread \cup {NoThread} /\ section[r].state \in SectionState
      BY <1>1, <2>1, SelectionProperties
    <2>3. \A th \in Thread : \A p \in Nat :
            HasAt(th, p, matcher[r].section_id)' <=> HasAt(th, p, matcher[r].section_id)
      BY <1>6 DEF HasAt, SectionAt, CreatingAt, Sections
    <2>4. SelectedOK(r)'
      <3>1. SelectedOK(r) /\ IInv'
        BY <2>1 DEF SectionOK, OpenIInv, RIInv
      <3>2. next_section_id <= next_section_id'
        BY <1>1, <1>6 DEF RIInv, IInv, TypeOK
      <3> QED BY <1>1, <1>6, <2>1, <2>3, <3>1, <3>2, SelectedKept
    <2>5. RunOK(r)'
      <3>1. \A t, id : section[r].of # NoThread =>
              ~Turns(section[r].of, t, id) /\ ~Turns(section[r].of, t, id)'
        BY <1>1, <1>6, <2>2 DEF Turns, Dispatching
      <3> QED BY <1>6, <2>1, <2>2, <3>1 DEF SectionOK, RunOK, SectionState
    <2>6. Due(r)' = Due(r) /\ Due(r) \subseteq DOMAIN history
      BY <1>1, <1>6, <2>1, HistoryProperties DEF Due, RIInv
    <2>7. \A s \in Due(r) : ~UnderWay(s, r)
      BY <1>1, <2>6, NothingUnderWay DEF RIInv
    <2>8. OnlyTheSection(r)' /\ TheWholeSection(r)'
      BY <1>6, <2>1, <2>6, <2>7 DEF SectionOK, OnlyTheSection, TheWholeSection
    <2> QED BY <1>3, <2>4, <2>5, <2>8 DEF SectionOK
  <1>7. \A r \in Live' : MatcherOf[r] = "section" => SectionOK(r)'
    BY <1>5, <1>6
  <1> QED BY <1>7 DEF SectionIInv

\* The Manager comes up, or goes down with every recorder.
LEMMA LifecycleSection ==
  ASSUME SectionIInv, OpenIInv', Lifecycle
  PROVE  SectionIInv'
  <1>1. UNCHANGED <<body, current, running>>
    BY DEF Lifecycle
  <1>2. CASE initialize /\ UNCHANGED <<recorderVars, history, since, section>>
    <2>1. /\ \A th \in Thread : frame[th].pc = "idle"
          /\ UNCHANGED <<frame, open, next_section_id, listeners, callable, recorded_events, matcher,
                         history, since, section>>
      BY <1>2 DEF initialize, counterVars, kokkosVars, listVars, recorderVars,
                  SectionIInv, OpenIInv, RIInv, IInv, CursorsListed
    <2>2. Live' = Live /\ SectionShape'
      BY <1>1, <2>1 DEF Live, SectionIInv, SectionShape
    <2>3. \A r \in Callable \ Live' : Unselected(r)'
      BY <2>1, <2>2 DEF SectionIInv, Unselected
    <2> QED BY <1>1, <2>1, <2>2, <2>3, AtRestSection
  <1>3. CASE /\ running = <<>> /\ finalize
             /\ matcher' = NothingMatched
             /\ section' = NothingSelected
    <2>1. /\ \A th \in Thread : frame[th].pc = "idle"
          /\ UNCHANGED frame /\ listeners' = <<>> /\ running' = <<>>
      BY <1>1, <1>3 DEF finalize
    <2>2. Live' = {}
      BY <2>1 DEF Live, Nodes, Range
    <2>3. \A r \in Callable : Unselected(r)'
      BY <1>3 DEF Unselected, NothingMatched, NothingSelected
    <2>4. Unmatched \in SectionMatcherState
      BY RecorderAssumption DEF Unmatched, SectionMatcherState
    <2>5. NoSection \in Selection
      BY DEF NoSection, Selection, SectionState
    <2>6. SectionShape'
      BY <1>3, <2>4, <2>5 DEF SectionShape, NothingMatched, NothingSelected
    <2> QED BY <1>1, <2>1, <2>2, <2>3, <2>6, AtRestSection
  <1> QED BY <1>2, <1>3 DEF Lifecycle

\* record() makes a recorder: it has selected no section.
LEMMA RecordBeginSection ==
  ASSUME SectionIInv, OpenIInv', NEW r \in Callable, RecordBegin(r)
  PROVE  SectionIInv'
  <1>1. /\ \A th \in Thread : frame[th].pc = "idle"
        /\ MatcherOf[r] = "section" => \A th \in Thread : Numbered(th)
        /\ since' = [since EXCEPT ![r] = Len(history)]
        /\ UNCHANGED <<frame, body, current, open, next_section_id, recorded_events, matcher,
                       history, section>>
    BY DEF RecordBegin, register_listener, MayChangeListeners, SetLists, recorderVars, kokkosVars,
           counterVars, Idle, Numbered
  <1>2. r \notin Live /\ Live' = Live \cup {r}
    BY RecordBeginLists DEF SectionIInv, OpenIInv, RIInv
  <1>3. SectionShape'
    BY <1>1 DEF SectionIInv, SectionShape
  <1>4. \A c \in Callable \ Live : Unselected(c)'
    BY <1>1 DEF SectionIInv, Unselected
  <1>5. recorded_events'[r] = <<>> /\ since'[r] = Len(history')
    BY <1>1, <1>2 DEF SectionIInv, OpenIInv, RIInv, Recorders, RecorderShape
  <1>6. \A c \in Live : since'[c] = since[c]
    BY <1>1, <1>2 DEF SectionIInv, OpenIInv, RIInv, RecorderShape
  <1>7. ASSUME NEW c \in Live', MatcherOf[c] = "section"
        PROVE  \/ /\ Unselected(c)' /\ recorded_events'[c] = <<>> /\ since'[c] = Len(history')
                  /\ \A th \in Thread : Numbered(th)
                  /\ UNCHANGED <<open, next_section_id>>
               \/ /\ c \in Live
                  /\ matcher'[c] = matcher[c] /\ section'[c] = section[c]
                  /\ recorded_events'[c] = recorded_events[c] /\ since'[c] = since[c]
                  /\ UNCHANGED <<history, open, next_section_id>>
    <2>1. CASE c = r
      BY <1>1, <1>2, <1>4, <1>5, <1>7, <2>1
    <2>2. CASE c \in Live
      BY <1>1, <1>6, <2>2
    <2> QED BY <1>2, <2>1, <2>2
  <1> QED BY <1>1, <1>2, <1>3, <1>4, <1>7, AtRestSection

\* record() returns: its recorder's matcher is destroyed.
LEMMA RecordReturnSection ==
  ASSUME SectionIInv, OpenIInv', RecordReturn
  PROVE  SectionIInv'
  <1>1. PICK r : r = Last(running)
    OBVIOUS
  <1>2. /\ \A th \in Thread : frame[th].pc = "idle"
        /\ recorded_events' = [recorded_events EXCEPT ![r] = <<>>]
        /\ matcher' = [matcher EXCEPT ![r] = Unmatched]
        /\ section' = [section EXCEPT ![r] = NoSection]
        /\ since' = [since EXCEPT ![r] = 0]
        /\ history' = IF Live = {r} THEN <<>> ELSE history
        /\ UNCHANGED <<frame, body, current, open, next_section_id>>
    BY <1>1 DEF RecordReturn, unregister_pointer, MayUnregister, Unregister, MayChangeListeners, SetLists,
                kokkosVars, counterVars, Idle
  <1>3. r \in Live /\ r \in Callable /\ Live' = Live \ {r}
    BY <1>1, RecordReturnLists DEF SectionIInv, OpenIInv, RIInv
  <1>4. SectionShape'
    <2>1. Unmatched \in SectionMatcherState
      BY RecorderAssumption DEF Unmatched, SectionMatcherState
    <2>2. NoSection \in Selection
      BY DEF NoSection, Selection, SectionState
    <2> QED BY <1>2, <2>1, <2>2 DEF SectionIInv, SectionShape
  <1>5. \A c \in Callable \ {r} : /\ matcher'[c] = matcher[c] /\ section'[c] = section[c]
                                  /\ recorded_events'[c] = recorded_events[c] /\ since'[c] = since[c]
    BY <1>2 DEF SectionIInv, SectionShape, OpenIInv, RIInv, RecorderShape
  <1>6. matcher'[r] = Unmatched /\ section'[r] = NoSection
    BY <1>2, <1>3 DEF SectionIInv, SectionShape
  <1>7. \A c \in Callable \ Live' : Unselected(c)'
    BY <1>3, <1>5, <1>6 DEF SectionIInv, Unselected
  <1>8. \A c \in Live' : /\ c \in Live
                         /\ matcher'[c] = matcher[c] /\ section'[c] = section[c]
                         /\ recorded_events'[c] = recorded_events[c] /\ since'[c] = since[c]
                         /\ UNCHANGED <<history, open, next_section_id>>
    BY <1>2, <1>3, <1>5, LiveIsRegistered DEF SectionIInv, OpenIInv, RIInv
  <1> QED BY <1>2, <1>4, <1>7, <1>8, AtRestSection

\* Nothing happens to any recorder.
LEMMA UnmovedSection ==
  ASSUME SectionIInv, OpenIInv', Live' = Live,
         UNCHANGED <<vars, recorderVars, body, historyVars>>
  PROVE  SectionIInv'
  <1>1. UNCHANGED <<frame, open, next_section_id, listeners, callable, registered_callbacks,
                    recorded_events, matcher, body, history, current, since, section>>
    BY DEF vars, managerVars, listVars, kokkosVars, counterVars, recorderVars, historyVars
  <1>2. ASSUME NEW th PROVE /\ Walking(th)' = Walking(th) /\ Listening(th)' = Listening(th)
                            /\ Walked(th)' = Walked(th) /\ Upcoming(th)' = Upcoming(th)
    BY <1>1 DEF Walking, Listening, Walked, Upcoming, Handles
  <1>3. ASSUME NEW th, NEW r PROVE Pending(th, r)' <=> Pending(th, r)
    BY <1>1, <1>2 DEF Pending
  <1>4. ASSUME NEW r \in Live, SectionOK(r) PROVE SectionOK(r)'
    <2>1. SelectedOK(r)'
      BY <1>1, <1>4 DEF SectionOK, SelectedOK, HasAt, SectionAt, CreatingAt, Sections
    <2>2. RunOK(r)'
      <3>1. PICK v : v = section[r].of
        OBVIOUS
      <3>2. Pending(section[r].of, r)' <=> Pending(v, r)'
        BY <1>1, <3>1
      <3> QED BY <1>1, <1>3, <1>4, <3>1, <3>2 DEF SectionOK, RunOK, Turns, Dispatching
    <2>3. FlightOK(r)'
      BY <1>1, <1>2, <1>4 DEF SectionOK, FlightOK
    <2>4. OnlyTheSection(r)'
      BY <1>1, <1>4 DEF SectionOK, OnlyTheSection
    <2>5. TheWholeSection(r)'
      <3>1. Due(r)' = Due(r)
        BY <1>1 DEF Due
      <3>2. \A s : UnderWay(s, r) => UnderWay(s, r)'
        BY <1>1, <1>2 DEF UnderWay, InFlight
      <3> QED BY <1>1, <1>4, <3>1, <3>2 DEF SectionOK, TheWholeSection
    <2> QED BY <2>1, <2>2, <2>3, <2>4, <2>5 DEF SectionOK
  <1>5. SectionShape' /\ \A r \in Callable \ Live' : Unselected(r)'
    BY <1>1 DEF SectionIInv, SectionShape, Unselected
  <1> QED BY <1>4, <1>5 DEF SectionIInv

-----------------------------------------------------------------------------
(***************************************************************************)
(* The invariant holds.                                                    *)
(***************************************************************************)
LEMMA InitSectionIInv == RecorderInit => SectionIInv
  <1> SUFFICES ASSUME RecorderInit PROVE SectionIInv
    OBVIOUS
  <1>1. OpenIInv
    BY InitOpenIInv
  <1>2. Live = {}
    BY DEF RecorderInit, Init, Live, Nodes, Range
  <1>3. matcher = NothingMatched /\ section = NothingSelected
    BY DEF RecorderInit
  <1>4. Unmatched \in SectionMatcherState
    BY RecorderAssumption DEF Unmatched, SectionMatcherState
  <1>5. NoSection \in Selection
    BY DEF NoSection, Selection, SectionState
  <1>6. SectionShape
    BY <1>3, <1>4, <1>5 DEF SectionShape, NothingMatched, NothingSelected
  <1>7. \A r \in Callable : Unselected(r)
    BY <1>3 DEF Unselected, NothingMatched, NothingSelected
  <1> QED BY <1>1, <1>2, <1>6, <1>7 DEF SectionIInv

LEMMA NextSectionIInv ==
  ASSUME SectionListeners
  PROVE  SectionIInv /\ [RecorderNext]_rvars => SectionIInv'
  <1> SUFFICES ASSUME SectionIInv, [RecorderNext]_rvars PROVE SectionIInv'
    OBVIOUS
  <1>1. OpenIInv'
    BY NextOpenIInv DEF SectionIInv
  <1>2. CASE Lifecycle
    BY <1>1, <1>2, LifecycleSection
  <1>3. ASSUME NEW r \in Callable, RecordBegin(r) PROVE SectionIInv'
    BY <1>1, <1>3, RecordBeginSection
  <1>4. CASE RecordReturn
    BY <1>1, <1>4, RecordReturnSection
  <1>5. CASE RecordThrow
    <2>1. Live' = Live
      BY <1>5, RecordThrowLive DEF SectionIInv, OpenIInv
    <2>2. UNCHANGED <<vars, recorderVars, body, historyVars>>
      BY <1>5 DEF RecordThrow
    <2> QED BY <1>1, <2>1, <2>2, UnmovedSection
  <1>6. ASSUME NEW th \in Thread, EmitRecorded(th) \/ EmitUnheard(th) PROVE SectionIInv'
    BY <1>1, <1>6, EmitRecordedSection, EmitUnheardSection
  <1>7. ASSUME NEW th \in Thread, Record(th) PROVE SectionIInv'
    <2>1. CASE CallContext(th)
      BY <1>1, <2>1, CallContextSection
    <2>2. CASE Enter(th)
      BY <1>1, <2>2, EnterSection
    <2>3. CASE AskMatcher(th)
      BY <1>1, <2>3, AskMatcherSection
    <2>4. CASE Lock(th)
      BY <1>1, <2>4, LockSection
    <2>5. CASE PushBack(th)
      BY <1>1, <2>5, PushBackSection
    <2>6. CASE Leave(th)
      BY <1>1, <2>6, LeaveSection
    <2> QED BY <1>7, <2>1, <2>2, <2>3, <2>4, <2>5, <2>6 DEF Record
  <1>8. CASE UNCHANGED rvars
    <2>1. UNCHANGED <<vars, recorderVars, body, historyVars, running>>
      BY <1>8 DEF rvars
    <2>2. Live' = Live
      BY <2>1 DEF Live, vars, managerVars, listVars
    <2> QED BY <1>1, <2>1, <2>2, UnmovedSection
  <1> QED BY <1>2, <1>3, <1>4, <1>5, <1>6, <1>7, <1>8 DEF RecorderNext

\* A recorder of a section records nothing whose dispatch was over before the
\* section was started or began after it was stopped, although its matcher is
\* asked before the lock is taken, and whatever the other threads and their
\* sections do (EventInProfileSectionMatcher and RecorderListener::operator()).
\* The recorder has to be a listener of the section events its matcher follows,
\* and what a matcher goes by are ids: that they tell the sections apart comes
\* from RecordBegin, CallContext and the absence of tools (OpenIInv).
THEOREM RecordsOnlyTheSectionHolds ==
  ASSUME SectionListeners
  PROVE  RecorderSpec => []RecordsOnlyTheSection
  <1>1. SectionIInv => RecordsOnlyTheSection
    BY DEF SectionIInv, SectionOK, OnlyTheSection, RecordsOnlyTheSection
  <1>2. SectionIInv /\ [RecorderNext]_rvars => SectionIInv'
    BY NextSectionIInv
  <1> QED BY <1>1, <1>2, InitSectionIInv, PTL DEF RecorderSpec

\* A recorder of a section misses nothing that is dispatched between the end of
\* the call that starts the section and the beginning of the call that stops
\* it, on any thread (EventInProfileSectionMatcher and
\* RecorderListener::operator()), on the same condition.
THEOREM RecordsTheWholeSectionHolds ==
  ASSUME SectionListeners
  PROVE  RecorderSpec => []RecordsTheWholeSection
  <1>1. SectionIInv => RecordsTheWholeSection
    BY DEF SectionIInv, SectionOK, TheWholeSection, RecordsTheWholeSection, SectionTypes
  <1>2. SectionIInv /\ [RecorderNext]_rvars => SectionIInv'
    BY NextSectionIInv
  <1> QED BY <1>1, <1>2, InitSectionIInv, PTL DEF RecorderSpec
=============================================================================
