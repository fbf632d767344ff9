----------------------------- MODULE MCRecorder -----------------------------
(***************************************************************************)
(* A small instance of the recorder: one recorder of all kernels and       *)
(* copies, and one of those within a section, for the event types that     *)
(* Listeners.tla computes, and the matchers of Helpers.hpp on what they    *)
(* have recorded.  The assumptions are the static assertions of the tests  *)
(* of type lists, matchers and listeners.                                  *)
(***************************************************************************)
EXTENDS Recorder, Listeners, TestMatchers

CONSTANTS any_recorder, section_recorder, wanted, other

MCNone == {}

MCMatcherOf == [r \in Callable |-> IF r = any_recorder THEN "any" ELSE "section"]

\* EventInProfileSectionMatcher must see the events of sections.
MCSections == <<"CreateProfileSectionEvent", "StartProfileSectionEvent",
                "StopProfileSectionEvent", "DestroyProfileSectionEvent">>

MCKernel == "BeginParallelForEvent"
MCCopy   == "BeginDeepCopyEvent"

MCRecorderOf ==
  [r \in Callable |-> IF r = any_recorder THEN RecorderListener(<<MCKernel, MCCopy>>)
                      ELSE RecorderListener(MCSections \o <<MCKernel, MCCopy>>)]

MCHandledBy == [r \in Callable |-> Range(listener_event_type_list(MCRecorderOf[r]))]

MCEmitted == Range(MCSections) \cup {MCKernel, MCCopy}

\* One thread makes sections, the wanted one among them, and begins kernels
\* in them; the other one copies.
MCEmittedBy ==
  [th \in Thread |->
     IF th = Main
     THEN {<<"CreateProfileSectionEvent", wanted>>, <<"CreateProfileSectionEvent", other>>,
           <<"StartProfileSectionEvent", NoName>>, <<"StopProfileSectionEvent", NoName>>,
           <<"DestroyProfileSectionEvent", NoName>>, <<MCKernel, other>>}
     ELSE {<<MCCopy, NoName>>}]

Addresses == Permutations(Node)

-----------------------------------------------------------------------------
MCMatchers == {AnEventWithName(MCKernel, {other}), AnEvent(MCCopy, <<>>)}

MCPacks == {<<>>} \cup (MCMatchers \X MCMatchers)

\* Between dispatches, when a test looks at a recording, ContainsInOrder says
\* that it has elements for all its matchers in their order, exactly when
\* ElementAt finds them at increasing positions: no element stands for two
\* matchers and none is passed over too early
\* (ContainsInOrderMatcher::MatchAndExplainImpl).
ContainsInOrderFindsElements ==
  (\A th \in Thread : frame[th] = Idle) => \A r \in Live, matchers \in MCPacks :
    LET arg == [i \in DOMAIN recorded_events[r] |-> history[recorded_events[r][i]]]
    IN ContainsInOrder(matchers, arg) <=>
         \E at \in [DOMAIN matchers -> DOMAIN arg] :
           /\ \A k, h \in DOMAIN at : k < h => at[k] < at[h]
           /\ \A k \in DOMAIN at : ElementAt(at[k] - 1, matchers[k], arg, FALSE) = {TRUE}

-----------------------------------------------------------------------------
\* test_type_list.cpp, on the list of event types itself.
ASSUME TypeListTraits ==
  /\ type_list_size(<<>>) = 0
  /\ type_list_size(OrderedEventTypeList) = 21
  /\ \A i \in 0 .. 20 :
       type_list_index(type_list_at(i, OrderedEventTypeList), OrderedEventTypeList) = i
  /\ \A t \in EventTypeList : type_list_contains(t, OrderedEventTypeList)
  /\ ~type_list_contains("CustomEvent", OrderedEventTypeList)

MCNamed == <<"BeginParallelForEvent", "BeginParallelReduceEvent", "BeginParallelScanEvent",
             "BeginSingleEvent", "BeginFenceEvent", "AllocateDataEvent",
             "DeallocateDataEvent", "CreateProfileSectionEvent", "PushRegionEvent",
             "ProfileEvent">>

MCFenceAndPush == <<"BeginFenceEvent", "PushRegionEvent">>

\* test_Matchers.cpp:56-291
ASSUME MatcherTraits ==
  /\ matcher_event_type_list(EventRegexMatcher) = MCNamed
  /\ matcher_event_type_list(EventNameMatcher) = MCNamed
  /\ ~MatcherFor(EventRegexMatcher, <<"BeginDeepCopyEvent">>)
  /\ \A m \in {AnyEventMatcher, EventInProfileSectionMatcher, EventRegionMatcher} :
       MatcherFor(m, OrderedEventTypeList)
  /\ matcher_event_type_list(EventTypeMatcher(AnyEventMatcher, MCFenceAndPush)) = MCFenceAndPush
  /\ matcher_event_type_list(EventBeginEndIdMatcher("BeginParallelForEvent"))
       = <<"BeginParallelForEvent", "EndParallelForEvent">>
  /\ Range(matcher_event_type_list(EventQueueMatcher)) = BeginEvent
  /\ Range(matcher_event_type_list(EventIdMatcher)) = BeginEvent \cup EndEvent

\* test_RecorderListener.cpp:47-58, and the timer listeners: they can be made
\* for every begin event, but not for deep copies.
ASSUME ListenerTraits ==
  /\ \A r \in Callable : LET types == MCRecorderOf[r].event_type_list_t
                         IN Listener(MCRecorderOf[r]) /\ RecorderRequires(AnyEventMatcher, types)
  /\ Listener(RegionTimerListener)
  /\ listener_event_type_list(RegionTimerListener) = <<"PushRegionEvent", "PopRegionEvent">>
  /\ \A begin \in BeginEvent :
       /\ BeginEndTimerRequires(EventNameMatcher, begin)
       /\ Range(listener_event_type_list(BeginEndTimerListener(begin)))
            = {begin, paired_event[begin]}
  /\ ~BeginEndTimerRequires(AnyEventMatcher, "BeginDeepCopyEvent")

\* test_RecorderListener.cpp:39, 51-54: the recorder of a section is a listener of
\* the events of sections, which the theorems about its records ask for.
ASSUME RecordersOfSections == SectionListeners

\* The Manager's loops over types and positions do to the tuple what
\* Manager.tla says of a function from event types, for listeners of every
\* kind, those of the program's own event types included.
ASSUME ListsByPosition ==
  LET Kinds == {OrderedEventTypeList, MCNamed, MCSections, MCFenceAndPush,
                <<"CustomEvent">>, <<"PopRegionEvent", "CustomEvent">>}
      At(lists, t) == lists[type_list_index(t, OrderedEventTypeList)]
  IN \A first, second \in Kinds :
       LET one  == PushBackModel(first, "m1", EmptyListsOfCallOperators)
           both == PushBackModel(second, "m2", one)
       IN /\ \A t \in EventTypeList :
               At(both, t) = (IF t \in Range(first) THEN <<"m1">> ELSE <<>>)
                               \o (IF t \in Range(second) THEN <<"m2">> ELSE <<>>)
          /\ RemoveModel(second, "m2", both) = one
          /\ RemoveModel(OrderedEventTypeList, "m2", both) = one

\* test_Helpers.cpp:42-114
ASSUME HelpersExamples ==
  LET Eq(n) == AnEvent("int", [value |-> {n}])
      vec == [i \in 1 .. 4 |-> [type |-> "int", value |-> i]]
      Alloc(kpsh, name, ptr, bytes) == [kpsh |-> kpsh, name |-> name, ptr |-> ptr, size |-> bytes]
      descr == Alloc("Cuda", "my-label", "0x7ffee2b9d8f0", 128)
      Copy(dst, src) == [dst |-> dst, src |-> src]
  IN /\ ContainsInOrder(<<>>, vec)
     /\ ContainsInOrder(<<Eq(2), Eq(4)>>, vec)
     /\ ~ContainsInOrder(<<Eq(2), Eq(1)>>, vec)
     /\ \A i \in 0 .. 3 : ElementAt(i, Eq(i + 1), vec, FALSE) = {TRUE}
     /\ ElementAt(0, Eq(2), vec, FALSE) = {FALSE}
     /\ ElementAt(42, Eq(2), vec, TRUE) = {FALSE}
     /\ \A kpsh \in {"Cuda", "osef"}, name \in {"my-label", "my-xxxxx"}, bytes \in {128, 129} :
          LET alloc == Alloc(kpsh, name, "0x0", bytes)
              same  == kpsh = "Cuda" /\ name = "my-label" /\ bytes = 128
          IN /\ FieldsMatch(PartialMatcherAlloc(alloc), descr) <=> same
             /\ PartialMatcherDeepCopy(Copy(descr, alloc), Copy(descr, descr)) <=> same
             /\ PartialMatcherDeepCopy(Copy(alloc, descr), Copy(descr, descr)) <=> same
=============================================================================
