-------------------------- MODULE MCSessionCloseout --------------------------
(***************************************************************************)
(* Small instances of SessionCloseout: two or three runs of session-end.   *)
(***************************************************************************)
EXTENDS SessionCloseout, TLC

RunSymmetry == Permutations(Runs)
=============================================================================
