---------------------------- MODULE MCCommitGates ----------------------------
(***************************************************************************)
(* What work has to pass: the compiler of its plan, the judgment of its    *)
(* workflow and the guard of the collaboration state before a commit, the  *)
(* trust of a worker before it is executed without an approval.  The four  *)
(* share no state, and a behaviour exercises one of them, with the         *)
(* instances of MCPlanCompiler, MCWorkflowJudgment, MCCollaboration and    *)
(* MCWorkerTrust.                                                          *)
(***************************************************************************)
EXTENDS CommitGates, MCWorkflowJudgment, MCCollaboration, MCWorkerTrust, MCPlanCompiler

VARIABLE gate

OneGateInit ==
  /\ gate \in {"plan", "judgment", "guard", "trust"}
  /\ PlanInit /\ Init /\ CollabInit /\ TrustInit
  /\ gate # "guard" => log.mix.kinds = {"guard", "watch"}
  /\ gate # "trust" => profile = narrow /\ evidence.level = "none"

OneGateNext ==
  /\ UNCHANGED gate
  /\ \/ gate = "plan"     /\ PlanNext
     \/ gate = "judgment" /\ Next
     \/ gate = "guard"    /\ CollabNext
     \/ gate = "trust"    /\ TrustNext
  /\ gate # "plan"     => UNCHANGED planVars
  /\ gate # "judgment" => UNCHANGED vars
  /\ gate # "guard"    => UNCHANGED collabVars
  /\ gate # "trust"    => UNCHANGED trustVars

OneGateSpec == OneGateInit /\ [][OneGateNext]_<<gate, planVars, vars, collabVars, trustVars>>

\* The history that only FailuresAlwaysStop is about: nothing a step does depends
\* on it, nor does a property of this run.
WithoutLost == <<gate, planVars, judgment, commit, said, kept, collabVars, trustVars>>
=============================================================================
