--------------------------- MODULE MCCollaboration ---------------------------
(***************************************************************************)
(* Two callers and a watch, two workflows of one resource each.  A         *)
(* behaviour mixes the commands of one of five kinds: what shares a state  *)
(* component is mixed, and overlap is allowed where a property needs it.   *)
(***************************************************************************)
EXTENDS Collaboration, TLC

CONSTANTS c1, c2, r1, r2, f1, f2

OwnResource == r1 :> r1 @@ r2 :> r2
NoneOrOne   == {{}, {r1}, {r2}}

Mixes ==
  {[kinds |-> {"guard", "watch"}, overlap |-> TRUE],
   [kinds |-> {"startPlan", "releasePlan", "watch"}, overlap |-> FALSE],
   [kinds |-> {"startPlan", "releasePlan", "claim"}, overlap |-> FALSE],
   [kinds |-> {"startPlan", "releasePlan"}, overlap |-> TRUE],
   [kinds |-> {"claim", "start", "releaseAll", "releaseOne", "watch"}, overlap |-> FALSE]}

CollabSymmetry ==
  Permutations({c1, c2}) \cup Permutations({r1, r2}) \cup Permutations({f1, f2})
=============================================================================
