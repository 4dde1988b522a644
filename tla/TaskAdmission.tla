---------------------------- MODULE TaskAdmission ----------------------------
(***************************************************************************)
(* What `task start`, `task work` and `task close` promise of the one      *)
(* current task: it is replaced only when it is completed, by a task whose *)
(* brief is on record, and the brief of a task never changes.              *)
(***************************************************************************)
CONSTANTS
  Slugs,     \* task ids
  Briefs,    \* contracts: goal, criteria, scope, checks, source
  Missing    \* no task, no brief

VARIABLES
  task,      \* the task of the current workflow
  open,      \* whether that workflow is not completed
  brief      \* the brief on record for each task

admissionVars == <<task, open, brief>>

AdmissionInit ==
  /\ task = Missing /\ open = FALSE
  /\ brief = [s \in Slugs |-> Missing]

Frame(s, b) ==
  /\ brief[s] = Missing
  /\ brief' = [brief EXCEPT ![s] = b]
  /\ UNCHANGED <<task, open>>

Admit(s) ==
  /\ ~open /\ s # task /\ brief[s] # Missing
  /\ task' = s /\ open' = TRUE
  /\ UNCHANGED brief

\* Work and closing; a completed task may be taken up again.
Advance ==
  /\ task # Missing
  /\ open' \in BOOLEAN
  /\ UNCHANGED <<task, brief>>

AdmissionNext ==
  \/ \E s \in Slugs, b \in Briefs : Frame(s, b)
  \/ \E s \in Slugs : Admit(s)
  \/ Advance

AdmissionSpec == AdmissionInit /\ [][AdmissionNext]_admissionVars
=============================================================================
