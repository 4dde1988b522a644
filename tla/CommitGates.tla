----------------------------- MODULE CommitGates -----------------------------
(***************************************************************************)
(* The gates that have processes and a clock of their own: the             *)
(* collaboration guard of a commit, with the watch and the leases it goes  *)
(* by, and the trust that lets a worker go without an approval.  They      *)
(* share no state, so that together they are the conjunction of their      *)
(* specifications.                                                         *)
(***************************************************************************)
EXTENDS Collaboration, WorkerTrust

GatesSpec == CollabSpec /\ TrustSpec

\* Both gates keep to the values their modules declare: the files, what every
\* command holds of them, and what the service holds.
GatesTypeOK == CollabTypeOK /\ TrustTypeOK
=============================================================================
