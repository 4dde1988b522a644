-------------------------- MODULE MCWorkflowJudgment --------------------------
(***************************************************************************)
(* Small cards for WorkflowJudgment: two recommendations, two checks.      *)
(***************************************************************************)
EXTENDS WorkflowJudgment, TLC

AdvisorIds == {"advice", "warning"}
CheckKeys  == {"test", "lint"}

\* A card that only watches.
Watching == [recommendations |-> {"advice"}, severity |-> "advice" :> "watch",
             actions |-> {}, signals |-> {}, canProceed |-> "yes"]

\* A risk and its verification, beside low-risk advice.
Risky == [recommendations |-> AdvisorIds,
          severity |-> "advice" :> "info" @@ "warning" :> "risk",
          actions |-> {{"test"}}, signals |-> {}, canProceed |-> "review"]

\* A block, with an action that either check proves and a signal.
Blocking == [recommendations |-> AdvisorIds,
             severity |-> "advice" :> "watch" @@ "warning" :> "block",
             actions |-> {{"test", "lint"}}, signals |-> {{"lint"}}, canProceed |-> "block"]

\* A surface was unavailable: no evidence clears it.
Degraded == [recommendations |-> {"advice"}, severity |-> "advice" :> "watch",
             actions |-> {}, signals |-> {{}}, canProceed |-> "review"]

\* A risk alone: no response exists before the agent gives one.
RiskAlone == [recommendations |-> {"warning"}, severity |-> "warning" :> "risk",
              actions |-> {{"lint"}}, signals |-> {}, canProceed |-> "review"]

AdvisedCards == {Watching, Risky, Blocking, Degraded}
RiskCards    == {RiskAlone}
=============================================================================
