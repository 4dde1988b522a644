---------------------------- MODULE WorkflowPlan ----------------------------
(***************************************************************************)
(* The plan of a managed workflow, as `workflow start --plan-file` leaves  *)
(* it behind: phases, their tasks, one dependency relation over both, and  *)
(* the task contracts (attempt budget, declared recovery task, context     *)
(* request and its bindings).                                              *)
(*                                                                         *)
(* What is assumed here is what the plan compiler guarantees, and what is  *)
(* checked of its model, PlanCompiler: every dependency is resolved, and   *)
(* no plan is cyclic.  The task made up for a phase without tasks has the  *)
(* id of the phase in the code; here the two are told apart, the way a     *)
(* dependency tells them (a task looks for a task of that id first).       *)
(* recovery_task_id is copied without being checked, and so it is here.    *)
(***************************************************************************)
EXTENDS Integers, FiniteSets

CONSTANTS
  Phases,         \* ids of the phases
  Tasks,          \* ids of the tasks
  PhaseOf,        \* the phase a task belongs to
  Rank,           \* position of a phase in the plan, of a task in its phase
  DependsOn,      \* depends_on of a phase or a task, resolved to ids
  Recovery,       \* recovery_task_id of a task, or None
  MaxAttempts,    \* max_attempts of a task
  ContextTasks,   \* tasks that declare a contextRequest
  Bindings,       \* ids whose loaded output the context request refers to
  RuntimePhases,  \* phases with needs_runtime
  None            \* an absent id

AttemptCap == 20

Ids == Phases \cup Tasks

TasksOf(p) == {t \in Tasks : PhaseOf[t] = p}

\* What the compiler's cycle search follows: a phase waits for its own
\* dependencies and its tasks, a task for its dependencies and its phase's.
Edges(x) == IF x \in Phases
              THEN DependsOn[x] \cup TasksOf(x)
              ELSE DependsOn[x] \cup DependsOn[PhaseOf[x]]

\* No cycle: every non-empty set of ids has a member that waits for no other.
Acyclic == \A S \in SUBSET Ids : S # {} => \E x \in S : Edges(x) \cap S = {}

ASSUME PlanShape ==
  /\ Phases # {}
  /\ IsFiniteSet(Ids)
  /\ Phases \cap Tasks = {}
  /\ None \notin Ids
  /\ PhaseOf \in [Tasks -> Phases]
  /\ Rank \in [Ids -> Nat]
  /\ DependsOn \in [Ids -> SUBSET Ids]
  /\ Recovery \in [Tasks -> Tasks \cup {None}]
  /\ MaxAttempts \in [Tasks -> 1..AttemptCap]
  /\ ContextTasks \subseteq Tasks
  /\ Bindings \in [Tasks -> SUBSET Ids]
  /\ RuntimePhases \subseteq Phases

\* A phase of the plan always has a task: the compiler adds one when the
\* step declares none.
ASSUME EveryPhaseHasATask == \A p \in Phases : TasksOf(p) # {}

ASSUME PlanIsAcyclic == Acyclic

\* Array.prototype.find over the plan order; undefined is None.
First(S) == IF S = {} THEN None
            ELSE CHOOSE x \in S : \A y \in S : Rank[x] <= Rank[y]
=============================================================================
