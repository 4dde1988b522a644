--------------------------- MODULE ManagedWorkflow ---------------------------
(***************************************************************************)
(* The managed workflow of snipara-companion: the state file               *)
(* .snipara/workflow/current.json and the commands that read it, check     *)
(* their guards and write it back.                                         *)
(*                                                                         *)
(* Every command is an operator on the CONTENT of the file: CanX(w, ...)   *)
(* is what the code checks before it writes, X(w, ...) is what it writes.  *)
(* Here a command is one atomic step; module WorkflowProcesses runs the    *)
(* same operators on the copy a process read before it awaited something.  *)
(***************************************************************************)
EXTENDS WorkflowPlan, Sequences

CONSTANTS
  FreshVerdicts,    \* the verdicts a judgment can come to; none: no judgment is asked for
  CheckpointPhases  \* phases that a runtime-checkpoint is given for

VARIABLE wf

ASSUME InputShape ==
  /\ FreshVerdicts \subseteq {"yes", "hold"}
  /\ CheckpointPhases \subseteq Phases

Statuses == {"pending", "in_progress", "completed", "blocked", "skipped"}
Done     == {"completed", "skipped"}
Outcomes == {"completed", "partial", "blocked", "abandoned"}

\* The value of the persisted judgment resolution the workflow reads back:
\* no judgment yet, canProceed "yes", or anything else.
Verdicts == {"none", "yes", "hold"}

AttemptRecord == [attempt : 0..AttemptCap, status : Statuses, receipt : 0..AttemptCap]

Workflow ==
  [status      : {"absent", "active", "completed", "blocked"},
   current     : Phases \cup {None},              \* currentPhaseId
   phase       : [Phases -> Statuses],
   currentTask : [Phases -> Tasks \cup {None}],   \* phase.currentTaskId
   task        : [Tasks -> Statuses],
   attempt     : [Tasks -> 0..AttemptCap],
   receipt     : [Tasks -> 0..AttemptCap],        \* contextReceipt.attempt, 0: none
   history     : [Tasks -> Seq(AttemptRecord)],   \* attemptHistory
   bound       : SUBSET Phases,                   \* runtime.sandbox.bindings
   judgment    : Verdicts]

\* Mutant: the outcome itself taken for a status.
StatusIsOutcome(o) == o

StatusFromOutcome(o) ==
  CASE o = "completed" -> "completed"
    [] o = "abandoned" -> "skipped"
    [] OTHER           -> "blocked"

-----------------------------------------------------------------------------
(* Reading the state. *)

\* Mutants: a dependency that was only started; a skipped one not counted.
SettledWhenStarted(w, d) ==
  IF d \in Phases THEN w.phase[d] # "pending" ELSE w.task[d] # "pending"
SettledWhenCompleted(w, d) ==
  IF d \in Phases THEN w.phase[d] = "completed" ELSE w.task[d] = "completed"

Settled(w, d) == IF d \in Phases THEN w.phase[d] \in Done ELSE w.task[d] \in Done

PhaseDependenciesReady(w, p) == \A d \in DependsOn[p] : Settled(w, d)

TaskDependenciesReady(w, t) ==
  /\ \A d \in DependsOn[t] : Settled(w, d)
  /\ PhaseDependenciesReady(w, PhaseOf[t])

NextEligible(w, p) ==
  First({t \in TasksOf(p) : w.task[t] = "pending" /\ TaskDependenciesReady(w, t)})

\* Mutant: pending tasks are left open.
OpenTasksStarted(w, p) == {t \in TasksOf(p) : w.task[t] = "in_progress"}

OpenTasks(w, p) == {t \in TasksOf(p) : w.task[t] \notin Done}

InProgress(w, p) == {t \in TasksOf(p) : w.task[t] = "in_progress"}

NextOpenPhase(w) == First({p \in Phases : w.phase[p] \in {"pending", "blocked"}})

\* What `task-next`, `resume` and the status output take as the current phase.
CurrentWorkflowPhase(w) == IF w.current # None THEN w.current ELSE NextOpenPhase(w)

\* readTaskContext accepts a saved receipt only for the task's own attempt.
ContextLoaded(w, t) == w.receipt[t] # 0 /\ w.receipt[t] = w.attempt[t]

\* The task whose output a binding names: a task, or the only task of a phase.
BoundTasks(d) == IF d \in Tasks THEN {d}
                 ELSE IF Cardinality(TasksOf(d)) = 1 THEN TasksOf(d) ELSE {}

BindingsResolve(w, t) ==
  \A d \in Bindings[t] :
    \E u \in BoundTasks(d) : w.task[u] = "completed" /\ ContextLoaded(w, u)

-----------------------------------------------------------------------------
(* Writing the state. *)

\* writeWorkflowState captures a continuity snapshot first, and the capture
\* refuses a receipt that belongs to another attempt: nothing is written then.
CaptureAccepts(w) ==
  \A t \in Tasks :
    /\ w.receipt[t] # 0 => ContextLoaded(w, t)
    /\ \A i \in DOMAIN w.history[t] :
         w.history[t][i].receipt \in {0, w.history[t][i].attempt}

\* Mutant: the first task, whatever its status.
DefaultFirstTask(w, p) == First(TasksOf(p))

\* The default normalizeManagedWorkflowState gives to a missing currentTaskId.
DefaultTask(w, p) ==
  IF InProgress(w, p) # {}
    THEN First(InProgress(w, p))
    ELSE First({t \in TasksOf(p) : w.task[t] \in {"pending", "blocked"}})

Normalized(w) ==
  [w EXCEPT !.currentTask =
     [p \in Phases |-> IF w.currentTask[p] # None THEN w.currentTask[p]
                       ELSE DefaultTask(w, p)]]

Recorded(w, t) == \E i \in DOMAIN w.history[t] : w.history[t][i].attempt = w.attempt[t]

RecordOf(w, t) ==
  [attempt |-> w.attempt[t], status |-> w.task[t], receipt |-> w.receipt[t]]

\* Mutants: always appended; the list started anew; nothing kept.
AppendRecord(w, t) == Append(w.history[t], RecordOf(w, t))
OnlyRecord(w, t)   == <<RecordOf(w, t)>>
NoRecord(w, t)     == w.history[t]

\* The history with a record of the current attempt.
KeepRecord(w, t) ==
  IF Recorded(w, t) THEN w.history[t] ELSE Append(w.history[t], RecordOf(w, t))

-----------------------------------------------------------------------------
(* workflow start *)

NewWorkflow ==
  Normalized([status      |-> "active",
              current     |-> First(Phases),
              phase       |-> [p \in Phases |-> "pending"],
              currentTask |-> [p \in Phases |-> None],
              task        |-> [t \in Tasks |-> "pending"],
              attempt     |-> [t \in Tasks |-> 0],
              receipt     |-> [t \in Tasks |-> 0],
              history     |-> [t \in Tasks |-> <<>>],
              bound       |-> {},
              judgment    |-> "none"])

NoWorkflow == [NewWorkflow EXCEPT !.status = "absent"]

CanStart(w, force) == w.status # "active" \/ force

-----------------------------------------------------------------------------
(* workflow task-start *)

\* Mutant: the budget is left to task-retry, which looks at the failed task only.
CanStartTaskUncounted(w, t) ==
  /\ w.status # "absent"
  /\ w.task[t] = "pending"
  /\ TaskDependenciesReady(w, t)
  /\ t \in ContextTasks => BindingsResolve(w, t)

CanStartTask(w, t) ==
  /\ w.status # "absent"
  /\ w.task[t] = "pending"
  /\ w.attempt[t] < MaxAttempts[t]
  /\ TaskDependenciesReady(w, t)
  /\ t \in ContextTasks => BindingsResolve(w, t)

\* Mutant: the context is kept for the attempt before.
StartTaskStaleReceipt(w, t) ==
  LET p == PhaseOf[t]
  IN  [w EXCEPT !.phase[p] = "in_progress", !.currentTask[p] = t, !.task[t] = "in_progress",
                !.attempt[t] = @ + 1, !.receipt[t] = w.attempt[t],
                !.current = p, !.status = "active"]

StartTask(w, t) ==
  LET p == PhaseOf[t]
  IN  [w EXCEPT !.phase[p]       = "in_progress",
                !.currentTask[p] = t,
                !.task[t]        = "in_progress",
                !.attempt[t]     = @ + 1,
                !.receipt[t]     = IF t \in ContextTasks THEN w.attempt[t] + 1 ELSE @,
                !.bound          = IF p \in RuntimePhases THEN @ \cup {p} ELSE @,
                !.current        = p,
                !.status         = "active"]

-----------------------------------------------------------------------------
(* workflow phase-start: a phase with context tasks starts its next eligible *)
(* task instead (the active one is only shown again).                        *)

HasContext(p) == TasksOf(p) \cap ContextTasks # {}

CanStartPhase(w, p) ==
  /\ w.status # "absent"
  /\ PhaseDependenciesReady(w, p)
  /\ HasContext(p) => /\ InProgress(w, p) = {}
                      /\ NextEligible(w, p) # None
                      /\ CanStartTask(w, NextEligible(w, p))

StartPhase(w, p) ==
  IF HasContext(p) THEN StartTask(w, NextEligible(w, p))
  ELSE [w EXCEPT !.phase[p] = "in_progress",
                 !.status   = "active",
                 !.current  = p,
                 !.bound    = IF p \in RuntimePhases THEN @ \cup {p} ELSE @]

-----------------------------------------------------------------------------
(* workflow task-commit *)

CanCommitTask(w, t, o) ==
  /\ w.status # "absent"
  /\ w.task[t] = "in_progress"
  /\ o = "completed" /\ t \in ContextTasks => ContextLoaded(w, t)

CommitTask(w, t, o) ==
  LET p      == PhaseOf[t]
      halted == StatusFromOutcome(o) = "blocked"
      closed == [w EXCEPT !.task[t]  = StatusFromOutcome(o),
                          !.phase[p] = IF halted THEN "blocked" ELSE "in_progress",
                          !.status   = IF halted THEN "blocked" ELSE "active",
                          !.current  = p]
  IN  [closed EXCEPT !.history[t]     = Append(@, RecordOf(closed, t)),
                     !.currentTask[p] = NextEligible(closed, p)]

-----------------------------------------------------------------------------
(* workflow task-retry: the failed task stays blocked unless it is its own  *)
(* recovery task.                                                           *)

RecoveryTask(t, option) ==
  IF option # None THEN option ELSE IF Recovery[t] # None THEN Recovery[t] ELSE t

\* Mutant: a settled recovery task is accepted.
CanRetryTaskSettled(w, t, option) ==
  /\ w.task[t] = "blocked"
  /\ w.attempt[t] < MaxAttempts[t]
  /\ RecoveryTask(t, option) \in TasksOf(PhaseOf[t])

CanRetryTask(w, t, option) ==
  LET r == RecoveryTask(t, option)
  IN  /\ w.status # "absent"
      /\ w.task[t] = "blocked"
      /\ w.attempt[t] < MaxAttempts[t]
      /\ r \in TasksOf(PhaseOf[t])
      /\ w.task[r] \notin Done

RetryTask(w, t, option) ==
  LET p == PhaseOf[t]
      r == RecoveryTask(t, option)
  IN  [w EXCEPT !.history[t]     = KeepRecord(w, t),
                !.task[r]        = "pending",
                !.phase[p]       = "in_progress",
                !.currentTask[p] = r,
                !.current        = p,
                !.status         = "active"]

-----------------------------------------------------------------------------
(* workflow phase-commit *)

\* Mutant: the context of the tasks is not asked for.
CanCommitPhaseUnread(w, p, o, strict) ==
  /\ w.status # "absent"
  /\ o = "completed" => \A t \in TasksOf(p) : w.task[t] # "blocked"

CanCommitPhase(w, p, o, strict) ==
  /\ w.status # "absent"
  /\ o = "completed" =>
       /\ \A t \in TasksOf(p) \cap ContextTasks :
            w.task[t] # "skipped" => w.task[t] # "pending" /\ ContextLoaded(w, t)
       /\ strict => \A t \in TasksOf(p) : w.task[t] \in Done
       /\ \A t \in TasksOf(p) : w.task[t] # "blocked"

CommitPhase(w, p, o, verdict) ==
  LET s      == StatusFromOutcome(o)
      open   == OpenTasks(w, p)
      closed == [w EXCEPT !.phase[p] = s,
                          !.task     = [t \in Tasks |-> IF t \in open THEN s ELSE @[t]]]
  IN  [closed EXCEPT
         !.history        = [t \in Tasks |-> IF t \in open /\ w.attempt[t] > 0
                                             THEN KeepRecord(closed, t) ELSE @[t]],
         !.currentTask[p] = None,
         !.current        = NextOpenPhase(closed),
         !.status         = IF \A q \in Phases : closed.phase[q] \in Done THEN "completed"
                            ELSE IF s = "blocked" THEN "blocked" ELSE "active",
         !.judgment       = verdict]

-----------------------------------------------------------------------------
(* final-commit: the judgment is resolved again from the evidence given, and *)
(* written even when it then refuses the commit.                             *)

\* Mutant: open phases are not looked for.
CanCommitFinalOpen(w, o) ==
  /\ w.status # "absent"
  /\ o = "completed" => \A t \in ContextTasks : w.task[t] # "skipped" => ContextLoaded(w, t)

CanCommitFinal(w, o) ==
  /\ w.status # "absent"
  /\ o = "completed" /\ ContextTasks # {} =>
       /\ \A p \in Phases : w.phase[p] \in Done
       /\ \A t \in Tasks : w.task[t] \in Done
       /\ \A t \in ContextTasks : w.task[t] # "skipped" => ContextLoaded(w, t)

JudgmentRefuses(o, verdict) == o = "completed" /\ verdict = "hold"

CommitFinal(w, o, verdict) ==
  IF JudgmentRefuses(o, verdict) THEN [w EXCEPT !.judgment = verdict]
  ELSE [w EXCEPT !.judgment = verdict,
                 !.status   = IF o = "completed" THEN "completed" ELSE "blocked",
                 !.current  = IF o = "completed" THEN None ELSE @]

\* The verdicts a command can derive: a workflow without judgment has none.
VerdictsFor(w) == IF w.judgment = "none" THEN {"none"} ELSE FreshVerdicts

-----------------------------------------------------------------------------
(* The specification: one command at a time. *)

Write(w) == CaptureAccepts(Normalized(w)) /\ wf' = Normalized(w)

Init == wf = NoWorkflow

WorkflowStart == \E force \in BOOLEAN : CanStart(wf, force) /\ Write(NewWorkflow)

PhaseStart(p) == CanStartPhase(wf, p) /\ Write(StartPhase(wf, p))

TaskStart(t) == CanStartTask(wf, t) /\ Write(StartTask(wf, t))

TaskCommit(t, o) == CanCommitTask(wf, t, o) /\ Write(CommitTask(wf, t, o))

TaskRetry(t, option) == CanRetryTask(wf, t, option) /\ Write(RetryTask(wf, t, option))

PhaseCommit(p, o) ==
  \E strict \in BOOLEAN, verdict \in VerdictsFor(wf) :
    CanCommitPhase(wf, p, o, strict) /\ Write(CommitPhase(wf, p, o, verdict))

FinalCommit(o) ==
  \E verdict \in VerdictsFor(wf) :
    CanCommitFinal(wf, o) /\ Write(CommitFinal(wf, o, verdict))

\* workflow judgment (first card or --refresh) and workflow judgment-respond.
Judge ==
  /\ wf.status # "absent"
  /\ \E verdict \in FreshVerdicts : Write([wf EXCEPT !.judgment = verdict])

\* workflow runtime-checkpoint binds the phase to its sandbox session.
RuntimeCheckpoint(p) ==
  wf.status # "absent" /\ Write([wf EXCEPT !.bound = @ \cup {p}])

Next ==
  \/ WorkflowStart
  \/ Judge
  \/ \E p \in Phases : PhaseStart(p)
  \/ \E p \in CheckpointPhases : RuntimeCheckpoint(p)
  \/ \E p \in Phases, o \in Outcomes : PhaseCommit(p, o)
  \/ \E t \in Tasks : TaskStart(t)
  \/ \E t \in Tasks, o \in Outcomes : TaskCommit(t, o)
  \/ \E t \in Tasks, option \in Tasks \cup {None} : TaskRetry(t, option)
  \/ \E o \in Outcomes : FinalCommit(o)

Spec == Init /\ [][Next]_wf

-----------------------------------------------------------------------------
(* What the workflow promises. *)

\* The file always holds a well-formed workflow: every command maps statuses,
\* counters, receipts and histories to values of their types.
TypeOK == wf \in Workflow

\* A closed phase has no open task: phase-commit closes the tasks with their
\* phase, and no later command opens one again without reopening the phase.
ClosedPhasesHaveNoOpenTask ==
  \A t \in Tasks : wf.phase[PhaseOf[t]] \in Done => wf.task[t] \in Done

\* The work a dependency stands for: the task, or every task of the phase.
WorkOf(d) == IF d \in Phases THEN TasksOf(d) ELSE {d}

\* An attempt is only ever spent on a task whose dependencies, and whose
\* phase's dependencies, had all their work settled; and that work stays
\* settled, even when a dependency phase is reopened by phase-start or closed
\* as blocked by a second phase-commit.
AttemptsFollowDependencies ==
  \A t \in Tasks : wf.attempt[t] > 0 =>
    \A d \in DependsOn[t] \cup DependsOn[PhaseOf[t]] :
      \A u \in WorkOf(d) : wf.task[u] \in Done

\* Work is settled in order: nothing is attempted before what it depends on, and
\* a phase is not closed before its tasks.
SettledInOrder == ClosedPhasesHaveNoOpenTask /\ AttemptsFollowDependencies

\* A command that passed its checks is never refused by the continuity capture
\* when it writes: by then the hosted side has recorded the commit.  The
\* receipts a workflow holds always belong to the attempts they are kept with.
CaptureNeverRefuses ==
  /\ \A t \in Tasks : CanStartTask(wf, t) => CaptureAccepts(StartTask(wf, t))
  /\ \A t \in Tasks, o \in Outcomes :
       CanCommitTask(wf, t, o) => CaptureAccepts(CommitTask(wf, t, o))
  /\ \A t, r \in Tasks : CanRetryTask(wf, t, r) => CaptureAccepts(RetryTask(wf, t, r))
  /\ \A p \in Phases, o \in Outcomes :
       CanCommitPhase(wf, p, o, FALSE) => CaptureAccepts(CommitPhase(wf, p, o, wf.judgment))

\* Neither task-commit nor phase-commit can complete a task that declares a
\* context request without the context of its last attempt.
CompletedContextIsLoaded ==
  \A t \in ContextTasks : wf.task[t] = "completed" => ContextLoaded(wf, t)

\* A workflow with context tasks that says "completed" has nothing open: the
\* other commands that touch a closed workflow also take the status back.
CompletedMeansClosed ==
  wf.status = "completed" /\ ContextTasks # {} =>
    /\ \A p \in Phases : wf.phase[p] \in Done
    /\ \A t \in Tasks : wf.task[t] \in Done

\* What calls itself completed is: a workflow has nothing open, a task had its
\* context.
CompletedMeansDone == CompletedMeansClosed /\ CompletedContextIsLoaded

\* The history of a task lists distinct attempts in order, none beyond the
\* counter, each with its final status; and a blocked task that was attempted
\* always has the record of its last attempt, which task-retry annotates.
HistoryIsOrdered ==
  \A t \in Tasks :
    LET h == wf.history[t]
    IN  /\ \A i \in DOMAIN h : /\ h[i].attempt <= wf.attempt[t]
                              /\ h[i].status \in Done \cup {"blocked"}
        /\ \A i, j \in DOMAIN h : i < j => h[i].attempt < h[j].attempt
        /\ wf.task[t] = "blocked" /\ wf.attempt[t] > 0 => Recorded(wf, t)

\* What the file remembers is bounded by its plan: a task never spends more than
\* its budget, also when it is made to wait again as the recovery of another, and
\* its history has one record for an attempt and one that task-retry keeps of a
\* task that was blocked before its first.  The file has a limit in bytes.
HistoryFitsTheBudget ==
  \A t \in Tasks : /\ wf.attempt[t] <= MaxAttempts[t]
                   /\ Len(wf.history[t]) <= wf.attempt[t] + 1

\* What an agent is told to go on with is open: the current phase is never a
\* closed one, and the task a phase points at is not a settled one while the
\* phase is open, although four commands move these pointers.
CurrentWorkIsOpen ==
  /\ wf.current # None => wf.phase[wf.current] \notin Done
  /\ \A p \in Phases : wf.phase[p] \notin Done /\ wf.currentTask[p] # None =>
       wf.task[wf.currentTask[p]] \notin Done

\* The dependencies never leave a workflow without a next command: something
\* is running or blocked, a pending task has its dependencies met, or a phase
\* has all its tasks settled and waits for its phase-commit.
NoDependencyDeadlock ==
  (\E p \in Phases : wf.phase[p] \notin Done) =>
    \/ \E t \in Tasks : wf.task[t] \in {"in_progress", "blocked"}
    \/ \E t \in Tasks : wf.task[t] = "pending" /\ TaskDependenciesReady(wf, t)
    \/ \E p \in Phases : /\ wf.phase[p] \notin Done
                         /\ PhaseDependenciesReady(wf, p)
                         /\ \A t \in TasksOf(p) : wf.task[t] \in Done

\* Within one workflow a settled task keeps its status: no retry, recovery,
\* phase-commit or reopened phase changes a completed or skipped task.
SettledTasksStay ==
  [][wf' # NewWorkflow =>
       \A t \in Tasks : wf.task[t] \in Done => wf'.task[t] = wf.task[t]]_wf

\* Within one workflow no attempt is forgotten: the counter never goes back, a
\* history is in order and only ever extended at its end, and an attempt that
\* ends by a commit of its task or of its phase leaves its record behind, whatever
\* the outcome.
HistoryIsComplete ==
  [][/\ HistoryIsOrdered'
     /\ wf' # NewWorkflow =>
          \A t \in Tasks : LET h == wf.history[t] h2 == wf'.history[t] IN
            /\ wf'.attempt[t] >= wf.attempt[t]
            /\ Len(h) <= Len(h2)
            /\ \A i \in DOMAIN h : h2[i] = h[i]
            /\ wf.task[t] = "in_progress" /\ wf'.task[t] \in Done \cup {"blocked"}
                 => Recorded(wf', t)]_wf
-----------------------------------------------------------------------------
(* What the documentation and the tests say of the workflow, and the code    *)
(* does not keep.                                                            *)

\* README: "A blocked task can be retried until `max_attempts`".  The plan
\* printed there names a dependency as the recovery task, which is completed
\* by the time the task can fail, so that its task-retry is refused.
BlockedTaskCanBeRetried ==
  \A t \in Tasks :
    wf.task[t] = "blocked" /\ wf.attempt[t] < MaxAttempts[t] => CanRetryTask(wf, t, None)
=============================================================================
