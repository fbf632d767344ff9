------------------------------ MODULE MCManager ------------------------------
(***************************************************************************)
(* Small instances of the Manager.  The kinds of listeners: one for both   *)
(* ends of a kernel, one for the end only and an event type of the         *)
(* program's own, one for sections, regions and that custom event type,    *)
(* one for everything that is numbered.                                    *)
(***************************************************************************)
EXTENDS ManagerImplementsEventBus

CONSTANTS kernels, ends, sections, numbered

MCCustomEvent == {"CustomEvent"}

MCHandledBy ==
  [c \in Callable |->
     CASE c = kernels  -> {"BeginParallelForEvent", "EndParallelForEvent"}
       [] c = ends     -> {"EndParallelForEvent", "CustomEvent"}
       [] c = sections -> {"CreateProfileSectionEvent", "StartProfileSectionEvent",
                           "DestroyProfileSectionEvent", "PushRegionEvent", "CustomEvent"}
       [] c = numbered -> {"BeginParallelForEvent", "CreateProfileSectionEvent", "CustomEvent"}]

MCKernels  == {"BeginParallelForEvent", "EndParallelForEvent"}
MCKernelsAndCreate   == MCKernels \cup {"CreateProfileSectionEvent"}
MCKernelsAndSections == MCKernelsAndCreate \cup {"StartProfileSectionEvent"}
MCKernelsAndRegions  == MCKernels \cup {"PushRegionEvent"}
MCNone == {}

Addresses == Permutations(Node)
HostThreads == Permutations(Thread)
=============================================================================
