------------------------------ MODULE CodeGraph ------------------------------
(***************************************************************************)
(* The local code graph: the overlay that post-commit hooks and questions  *)
(* build, and the traversal that answers questions about what it lists.    *)
(***************************************************************************)
EXTENDS LocalGraph, CodeOverlay

\* Whatever was edited, committed and synced before, questions to the code graph are
\* answered from a fresh overlay, and completely (both are stated in their modules).
GraphAnswersHold == AnswersAreComplete /\ OverlaysAreFresh
=============================================================================
