---------------------- MODULE MCSequenceOfRegionTimers ----------------------
(***************************************************************************)
(* A sequence of two regions; the second matcher also accepts the name of  *)
(* the first, as a regular expression may.                                 *)
(***************************************************************************)
EXTENDS SequenceOfRegionTimers

CONSTANTS A, B

MCWanted == <<{A}, {A, B}>>
=============================================================================
