----------------------------- MODULE TaskJourney -----------------------------
(***************************************************************************)
(* The task facade: `task start`, `task work` and `task close` drive the   *)
(* commands of ManagedWorkflow on a workflow of one phase and one task.    *)
(* Each is a process that holds task-journey.lock, checks the card, and    *)
(* then runs other companion processes one after the other; an editor      *)
(* changes the working tree at any moment.  The lock of a killed facade    *)
(* stays until a person removes it.                                        *)
(***************************************************************************)
EXTENDS Naturals, FiniteSets

CONSTANTS
  Facades,         \* processes
  Slugs,           \* task ids
  Briefs,          \* contracts a task can be started with
  Missing,         \* no task, no brief, no lock
  TaskAttempts,    \* max_attempts of the task
  JourneyBudget    \* bound: facade actions started

VARIABLES
  current,   \* .snipara/workflow/current.json: its task, its brief and its content
  artifacts, \* .snipara/tasks/<slug>: manifest and recorded brief
  lock,      \* task-journey.lock: who wrote it
  facade,    \* what each process is doing
  tree,      \* the working tree against the continuity snapshot of current.json
  unaware,   \* auxiliary: facades that checked the tree before it was changed
  actions    \* auxiliary: actions started

journeyVars == <<current, artifacts, lock, facade, tree, unaware, actions>>

\* The plan that `task start` writes.
Flow == INSTANCE ManagedWorkflow WITH
  wf <- current.content, Phases <- {"work"}, Tasks <- {"implement"},
  PhaseOf <- [t \in {"implement"} |-> "work"], Rank <- [i \in {"work", "implement"} |-> 1],
  DependsOn <- [i \in {"work", "implement"} |-> {}], Bindings <- [t \in {"implement"} |-> {}],
  Recovery <- [t \in {"implement"} |-> Missing], ContextTasks <- {}, RuntimePhases <- {},
  MaxAttempts <- [t \in {"implement"} |-> TaskAttempts], CheckpointPhases <- {},
  FreshVerdicts <- {}, None <- Missing

ASSUME JourneyShape ==
  /\ Missing \notin Slugs \cup Briefs \cup Facades \cup Flow!Outcomes \cup {"work", "implement"}
  /\ TaskAttempts \in 1..Flow!AttemptCap

Nothing == [pc |-> "away"]

JourneyInit ==
  /\ current = [slug |-> Missing, brief |-> Missing, content |-> Flow!NoWorkflow]
  /\ artifacts = [s \in Slugs |-> [manifest |-> FALSE, brief |-> Missing]]
  /\ lock = Missing
  /\ facade = [f \in Facades |-> Nothing]
  /\ tree = "exact" /\ unaware = {}
  /\ actions = 0

TaskStatus == current.content.task["implement"]

At(f, pc) == facade[f].pc = pc

Turn(f, to) == facade' = [facade EXCEPT ![f] = to]

Continue(f, pc) == Turn(f, [facade[f] EXCEPT !.pc = pc])

-----------------------------------------------------------------------------
(* locked *)

\* The lock file is created exclusively.
Acquire(f, request) ==
  /\ At(f, "away") /\ actions < JourneyBudget
  /\ lock = Missing /\ lock' = f
  /\ Turn(f, request)
  /\ actions' = actions + 1
  /\ UNCHANGED <<current, artifacts, tree, unaware>>

StartTask(f, s, b) == Acquire(f, [pc |-> "admitting", slug |-> s, brief |-> b])

Work(f, s, outcome, why) ==
  Acquire(f, [pc |-> "checking", slug |-> s, verb |-> "work", outcome |-> outcome, why |-> why])

Close(f, s, outcome) ==
  Acquire(f, [pc |-> "checking", slug |-> s, verb |-> "close", outcome |-> outcome, why |-> FALSE])

\* The end of an action, whether it is done, refused or failed; so does a child
\* that times out after or before it wrote.
EndAction(f) ==
  /\ facade[f].pc \notin {"away", "killed"}
  /\ lock' = IF lock = f THEN Missing ELSE lock
  /\ Turn(f, Nothing)
  /\ unaware' = unaware \ {f}
  /\ UNCHANGED <<current, artifacts, tree, actions>>

\* A killed facade leaves its lock,
Kill(f) ==
  /\ facade[f].pc \notin {"away", "killed"}
  /\ Turn(f, [pc |-> "killed"])
  /\ unaware' = unaware \ {f}
  /\ UNCHANGED <<current, artifacts, lock, tree, actions>>

\* and a person removes it after inspection.
RemoveLock(f) ==
  /\ At(f, "killed") /\ lock = f
  /\ lock' = Missing
  /\ Turn(f, Nothing)
  /\ UNCHANGED <<current, artifacts, tree, unaware, actions>>

-----------------------------------------------------------------------------
(* start *)

\* An existing workflow that is not completed is preserved, whatever its task.
Occupied == current.content.status \notin {"absent", "completed"}

\* Mutant: the id of an earlier task can be used again.
AdmitAgain(f) ==
  /\ At(f, "admitting") /\ ~Occupied
  /\ Continue(f, "initializing")
  /\ UNCHANGED <<current, artifacts, lock, tree, unaware, actions>>

\* A saved brief is refused when the tree has changed since (\E ok), an
\* incomplete one is handed back, and so is the id of an earlier task.
AdmitTask(f) ==
  /\ At(f, "admitting")
  /\ ~Occupied /\ ~artifacts[facade[f].slug].manifest
  /\ Continue(f, "initializing")
  /\ UNCHANGED <<current, artifacts, lock, tree, unaware, actions>>

\* Child: feature init.
InitFeature(f) ==
  /\ At(f, "initializing")
  /\ artifacts' = [artifacts EXCEPT ![facade[f].slug].manifest = TRUE]
  /\ Continue(f, "recording")
  /\ UNCHANGED <<current, lock, tree, unaware, actions>>

\* writeTaskIntake; the plan and the task list follow.
RecordBrief(f) ==
  /\ At(f, "recording")
  /\ artifacts' = [artifacts EXCEPT ![facade[f].slug].brief = facade[f].brief]
  /\ Continue(f, "starting")
  /\ UNCHANGED <<current, lock, tree, unaware, actions>>

\* A child that writes the workflow also takes a new continuity snapshot.
Capture(content) ==
  /\ current' = [current EXCEPT !.content = Flow!Normalized(content)]
  /\ tree' = "exact" /\ unaware' = {}
  /\ UNCHANGED <<artifacts, lock, actions>>

\* Child: workflow start, without --force.
StartWorkflow(f) ==
  /\ At(f, "starting") /\ Flow!CanStart(current.content, FALSE)
  /\ current' = [slug |-> facade[f].slug, brief |-> facade[f].brief, content |-> Flow!NewWorkflow]
  /\ tree' = "exact" /\ unaware' = {}
  /\ Continue(f, "done")
  /\ UNCHANGED <<artifacts, lock, actions>>

-----------------------------------------------------------------------------
(* work and close *)

\* canRecordScopedOutcome: an outcome is given for the task in progress, and
\* what changed lies within its declared scope.
CanRecordScopedOutcome(f) ==
  /\ facade[f].verb = "work" /\ facade[f].outcome # Missing
  /\ TaskStatus = "in_progress" /\ tree = "scoped"

\* Mutant: changes are admitted with any outcome.
ChecksOutcome(f) == tree = "exact" \/ facade[f].outcome # Missing

\* The tree is as the snapshot has it, or the changes are the declared work.
ChecksTree(f) == tree = "exact" \/ CanRecordScopedOutcome(f)

Bound(f) == current.slug = facade[f].slug

\* Which child comes first.
WorkPlan(f) ==
  IF facade[f].outcome # Missing THEN "committing"
  ELSE CASE TaskStatus = "in_progress" -> "done"
         [] TaskStatus = "blocked"     -> IF facade[f].why THEN "retrying" ELSE "done"
         [] OTHER                      -> "preparing"

\* Mutant: closing as completed does not look at the tasks.
CloseOpenTasks(f) ==
  IF current.content.phase["work"] \in Flow!Done THEN "finishing" ELSE "closing"

ClosePlan(f) ==
  IF facade[f].outcome = "completed" /\ TaskStatus \notin Flow!Done THEN "done"
  ELSE IF current.content.phase["work"] \in Flow!Done THEN "finishing" ELSE "closing"

Check(f) ==
  /\ At(f, "checking")
  /\ Continue(f, IF ~Bound(f) \/ ~ChecksTree(f) THEN "done"
                 ELSE IF facade[f].verb = "work" THEN WorkPlan(f) ELSE ClosePlan(f))
  /\ UNCHANGED <<current, artifacts, lock, tree, unaware, actions>>

\* Children: workflow task-retry, task-start, task-commit, phase-commit, final-commit.
Retry(f) ==
  /\ At(f, "retrying") /\ Flow!CanRetryTask(current.content, "implement", Missing)
  /\ Capture(Flow!RetryTask(current.content, "implement", Missing))
  /\ Continue(f, "preparing")

Prepare(f) ==
  /\ At(f, "preparing") /\ Flow!CanStartTask(current.content, "implement")
  /\ Capture(Flow!StartTask(current.content, "implement"))
  /\ Continue(f, "done")

Record(f) ==
  /\ At(f, "committing") /\ Flow!CanCommitTask(current.content, "implement", facade[f].outcome)
  /\ Capture(Flow!CommitTask(current.content, "implement", facade[f].outcome))
  /\ Continue(f, "done")

ClosePhase(f) ==
  /\ At(f, "closing") /\ Flow!CanCommitPhase(current.content, "work", facade[f].outcome, FALSE)
  /\ Capture(Flow!CommitPhase(current.content, "work", facade[f].outcome, "none"))
  /\ Continue(f, "finishing")

Finish(f) ==
  /\ At(f, "finishing") /\ Flow!CanCommitFinal(current.content, facade[f].outcome)
  /\ Capture(Flow!CommitFinal(current.content, facade[f].outcome, "none"))
  /\ Continue(f, "done")

-----------------------------------------------------------------------------
\* The working tree is edited, within the scope of the task or beyond it, or
\* put back.
Edit ==
  /\ tree' \in {"exact", "scoped", "drifted"} \ {tree}
  /\ unaware' = IF tree' = "exact" THEN {}
                ELSE unaware \cup {f \in Facades : facade[f].pc \notin {"away", "killed", "checking", "admitting"}}
  /\ UNCHANGED <<current, artifacts, lock, facade, actions>>

JourneyNext ==
  \/ \E f \in Facades :
       \/ \E s \in Slugs, b \in Briefs : StartTask(f, s, b)
       \/ \E s \in Slugs, o \in Flow!Outcomes \cup {Missing}, why \in BOOLEAN : Work(f, s, o, why)
       \/ \E s \in Slugs, o \in Flow!Outcomes : Close(f, s, o)
       \/ EndAction(f) \/ Kill(f) \/ RemoveLock(f)
       \/ AdmitTask(f) \/ InitFeature(f) \/ RecordBrief(f) \/ StartWorkflow(f)
       \/ Check(f) \/ Retry(f) \/ Prepare(f) \/ Record(f) \/ ClosePhase(f) \/ Finish(f)
  \/ Edit

JourneySpec == JourneyInit /\ [][JourneyNext]_journeyVars

-----------------------------------------------------------------------------
(* Properties *)

JourneyTypeOK ==
  /\ current.slug \in Slugs \cup {Missing} /\ current.brief \in Briefs \cup {Missing}
  /\ current.content \in Flow!Workflow
  /\ artifacts \in [Slugs -> [manifest : BOOLEAN, brief : Briefs \cup {Missing}]]
  /\ lock \in Facades \cup {Missing}
  /\ tree \in {"exact", "scoped", "drifted"}
  /\ unaware \subseteq Facades

Admission == INSTANCE TaskAdmission WITH
  task <- current.slug, open <- current.content.status \notin {"absent", "completed"},
  brief <- [s \in Slugs |-> artifacts[s].brief]

\* Whatever facades run, fail half way or are killed: the current task is only
\* replaced when it is completed, no task is admitted without its brief, and no
\* brief is ever replaced (test/task-journey.test.js: "an unrelated active
\* workflow is preserved").
ActiveTaskIsPreserved == Admission!AdmissionSpec

\* A new snapshot of the same task takes a changed tree for granted only when
\* an outcome is recorded for changes in scope, or when the change came after
\* the facade's check, before its child's write.
ChangesAreDeclared ==
  [][\A f \in Facades :
       facade'[f] # facade[f] /\ tree # "exact" /\ tree' = "exact" /\ current'.slug = current.slug =>
         f \in unaware \/ (tree = "scoped" /\ At(f, "committing"))]_journeyVars

\* The file names a task exactly when it holds a workflow, and that workflow was
\* started from the brief on record.  No task is completed that was never worked
\* on: task close is refused until the outcome of the task is recorded, and its
\* phase-commit would complete it.
OneTaskOneBrief ==
  /\ current.slug = Missing <=> current.content.status = "absent"
  /\ current.slug # Missing => artifacts[current.slug] = [manifest |-> TRUE, brief |-> current.brief]
  /\ TaskStatus = "completed" => current.content.attempt["implement"] > 0
  /\ current.content.status = "completed" => TaskStatus \in Flow!Done
=============================================================================
