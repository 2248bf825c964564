-------------------------- MODULE MCSolveSession --------------------------
(***************************************************************************)
(* Sessions with an archive of one solved computation.                     *)
(***************************************************************************)
EXTENDS SolveSession

MCDocument == <<1>>
=============================================================================
