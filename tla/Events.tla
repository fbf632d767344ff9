------------------------------- MODULE Events -------------------------------
(***************************************************************************)
(* The event types of callbacks/Events.hpp: one per Kokkos profiling       *)
(* callback.  An event type is its name; its data members are the sequence *)
(* of their names, in declaration order, because the C++ concepts that     *)
(* sort the event types into families look at nothing else.                *)
(***************************************************************************)
EXTENDS SequencesExt

\* The aggregates, grouped by the members they declare.
fields ==
  LET Of(names, members) == [t \in names |-> members]
  IN Of({"BeginParallelForEvent", "BeginParallelReduceEvent", "BeginParallelScanEvent",
         "BeginSingleEvent", "BeginFenceEvent"}, <<"name", "dev_id", "event_id">>)
     @@ Of({"EndParallelForEvent", "EndParallelReduceEvent", "EndParallelScanEvent",
            "EndSingleEvent", "EndFenceEvent"}, <<"event_id">>)
     @@ Of({"AllocateDataEvent", "DeallocateDataEvent"}, <<"alloc">>)
     @@ Of({"BeginDeepCopyEvent"}, <<"dst", "src">>)
     @@ Of({"CreateProfileSectionEvent"}, <<"name", "section_id">>)
     @@ Of({"DestroyProfileSectionEvent", "StartProfileSectionEvent",
            "StopProfileSectionEvent"}, <<"section_id">>)
     @@ Of({"PushRegionEvent", "ProfileEvent"}, <<"name">>)
     @@ Of({"EndDeepCopyEvent", "PopRegionEvent"}, <<>>)

EventTypeList ==
  {"BeginParallelForEvent",     "EndParallelForEvent",
   "BeginParallelReduceEvent",  "EndParallelReduceEvent",
   "BeginParallelScanEvent",    "EndParallelScanEvent",
   "BeginSingleEvent",          "EndSingleEvent",
   "BeginFenceEvent",           "EndFenceEvent",
   "AllocateDataEvent",         "DeallocateDataEvent",
   "BeginDeepCopyEvent",        "EndDeepCopyEvent",
   "CreateProfileSectionEvent", "DestroyProfileSectionEvent",
   "StartProfileSectionEvent",  "StopProfileSectionEvent",
   "PushRegionEvent",           "PopRegionEvent",
   "ProfileEvent"}

-----------------------------------------------------------------------------
\* A member access a requires-expression asks for.
Has(t, member) == member \in Range(fields[t])

\* std::constructible_from<t, args...> of an aggregate: the arguments
\* initialise the leading members.
ConstructibleFrom(t, members) == IsPrefix(members, fields[t])

BeginEvent == {t \in EventTypeList : ConstructibleFrom(t, <<"name", "dev_id", "event_id">>)}

EndEvent == {t \in EventTypeList \ BeginEvent : ConstructibleFrom(t, <<"event_id">>)}

DataEvent == {t \in EventTypeList : ConstructibleFrom(t, <<"alloc">>)}

ProfileSectionManipulationEvent ==
  {t \in EventTypeList : ConstructibleFrom(t, <<"section_id">>)}

NamedEvent    == {t \in EventTypeList : Has(t, "name")}
IndexedEvent  == {t \in EventTypeList : Has(t, "event_id")}
EnqueuedEvent == {t \in EventTypeList : Has(t, "dev_id")}

paired_event ==
  [BeginParallelForEvent     |-> "EndParallelForEvent",
   BeginParallelReduceEvent  |-> "EndParallelReduceEvent",
   BeginParallelScanEvent    |-> "EndParallelScanEvent",
   BeginSingleEvent          |-> "EndSingleEvent",
   BeginFenceEvent           |-> "EndFenceEvent",
   AllocateDataEvent         |-> "DeallocateDataEvent",
   BeginDeepCopyEvent        |-> "EndDeepCopyEvent",
   CreateProfileSectionEvent |-> "DestroyProfileSectionEvent",
   StartProfileSectionEvent  |-> "StopProfileSectionEvent",
   PushRegionEvent           |-> "PopRegionEvent"]

\* What Manager.hpp and the matchers take for granted of the tables: every
\* event type has its members declared, every begin event is paired with an
\* end event that carries the same id, no two begin events share one, a
\* section is not numbered as a kernel, what starts, stops and destroys one
\* carries its id and is no kernel's, and every kernel says which execution
\* space instance it is enqueued in.
ASSUME EventTables ==
  /\ DOMAIN fields = EventTypeList
  /\ \A t \in DOMAIN paired_event : paired_event[t] \in EventTypeList
  /\ \A t \in BeginEvent : t \in DOMAIN paired_event /\ paired_event[t] \in EndEvent
  /\ \A t, u \in DOMAIN paired_event : paired_event[t] = paired_event[u] => t = u
  /\ "CreateProfileSectionEvent" \notin BeginEvent \cup EndEvent
  /\ {"StartProfileSectionEvent", "StopProfileSectionEvent", "DestroyProfileSectionEvent"}
       \subseteq ProfileSectionManipulationEvent \ (BeginEvent \cup EndEvent)
  /\ BeginEvent \subseteq EnqueuedEvent
=============================================================================
