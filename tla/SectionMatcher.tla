--------------------------- MODULE SectionMatcher ---------------------------
(***************************************************************************)
(* EventInProfileSectionMatcher: it keeps the id of the one section whose  *)
(* create event it was made for, and answers whether that section is       *)
(* running.  A matcher is a record of its members; asking it about an      *)
(* event gives an answer and the next record.  An event is [type, name,    *)
(* id].                                                                    *)
(***************************************************************************)
EXTENDS Naturals

CONSTANTS
  Wanted,             \* the names of sections the inner matcher accepts
  invalid_section_id  \* the largest uint32_t

SectionMatcherState == [section_id : Nat, recording : BOOLEAN]

Unmatched == [section_id |-> invalid_section_id, recording |-> FALSE]

\* The events that tell a matcher of its section; all others are for the last
\* overload of operator().
SectionTypes ==
  {"CreateProfileSectionEvent", "StartProfileSectionEvent", "StopProfileSectionEvent"}

Selecting(e) == e.type = "CreateProfileSectionEvent" /\ e.name \in Wanted

\* Kokkos::abort, on a second section of the wanted name.
Aborts(m, e) == Selecting(e) /\ m.section_id # invalid_section_id

\* Faulty variants: the start, or the stop, of any section will do.
AfterAnyStart(m, e) ==
  CASE Selecting(e) -> [m EXCEPT !.section_id = e.id]
    [] e.type = "StartProfileSectionEvent" -> [m EXCEPT !.recording = TRUE]
    [] e.type = "StopProfileSectionEvent" /\ e.id = m.section_id -> [m EXCEPT !.recording = FALSE]
    [] OTHER -> m

AfterAnyStop(m, e) ==
  CASE Selecting(e) -> [m EXCEPT !.section_id = e.id]
    [] e.type = "StartProfileSectionEvent" /\ e.id = m.section_id -> [m EXCEPT !.recording = TRUE]
    [] e.type = "StopProfileSectionEvent" -> [m EXCEPT !.recording = FALSE]
    [] OTHER -> m

\* The members after operator()(e), which has not aborted.
After(m, e) ==
  CASE Selecting(e) -> [m EXCEPT !.section_id = e.id]
    [] e.type = "StartProfileSectionEvent" /\ e.id = m.section_id -> [m EXCEPT !.recording = TRUE]
    [] e.type = "StopProfileSectionEvent" /\ e.id = m.section_id -> [m EXCEPT !.recording = FALSE]
    [] OTHER -> m

\* The answer of operator()(e); the event that destroys a section is one of
\* those the last overload takes.
Answer(m, e) == e.type \notin SectionTypes /\ m.recording
=============================================================================
