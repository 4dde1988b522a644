----------------------- MODULE ManagedWorkflowProofs -----------------------
(***************************************************************************)
(* Theorems about ManagedWorkflow, for every plan the compiler accepts.    *)
(***************************************************************************)
EXTENDS ManagedWorkflow, WellFoundedInduction, TLAPS

-----------------------------------------------------------------------------
(* Lemmas about the operators. *)

\* A set of numbers has a smallest one: where lists are in order, take the
\* first place that is out of it.
LEMMA SmallestNumber ==
  ASSUME NEW R \in SUBSET Nat, R # {}
  PROVE  \E m \in R : \A n \in R : m <= n
<1> DEFINE Less == {ss \in Nat \X Nat : ss[1] < ss[2]}
<1>1. IsWellFoundedOn(Less, Nat)
  BY NatLessThanWellFounded, Zenon DEF OpToRel
<1>2. \A n, m \in Nat : n < m => <<n, m>> \in Less
  OBVIOUS
<1> HIDE DEF Less
<1>3. PICK m \in R : \A n \in R : ~(<<n, m>> \in Less)
  BY <1>1, WFMin
<1>4. ASSUME NEW n \in R
      PROVE  m <= n
  <2>1. m \in Nat /\ n \in Nat
    OBVIOUS
  <2>2. ~(n < m)
    BY <1>2, <1>3, <2>1
  <2> QED
    BY <2>1, <2>2
<1> QED
  BY <1>4

\* First returns a member of a non-empty set of ids, and None for the empty
\* one: a plan position is a natural number, so some member has the least.
LEMMA FirstType ==
  ASSUME NEW S \in SUBSET Ids
  PROVE  /\ First(S) \in S \cup {None}
         /\ S # {} => First(S) \in S
<1>1. CASE S = {}
  BY <1>1 DEF First
<1>2. CASE S # {}
  <2> DEFINE R == {Rank[x] : x \in S}
  <2>1. R \subseteq Nat /\ R # {}
    BY <1>2, PlanShape
  <2> HIDE DEF R
  <2>2. PICK m \in R : \A n \in R : m <= n
    BY <2>1, SmallestNumber
  <2> USE DEF R
  <2>3. PICK x \in S : Rank[x] = m
    OBVIOUS
  <2>4. \A y \in S : Rank[x] <= Rank[y]
    BY <2>2, <2>3
  <2> QED
    BY <1>2, <2>4 DEF First
<1> QED
  BY <1>1, <1>2

\* Normalizing a workflow only fills in the task a phase points at.
LEMMA NormalizedType ==
  ASSUME NEW w \in Workflow
  PROVE  /\ Normalized(w) \in Workflow
         /\ Normalized(w).status = w.status
         /\ Normalized(w).current = w.current
         /\ Normalized(w).phase = w.phase
         /\ Normalized(w).task = w.task
         /\ Normalized(w).attempt = w.attempt
         /\ Normalized(w).receipt = w.receipt
         /\ Normalized(w).history = w.history
         /\ Normalized(w).bound = w.bound
         /\ Normalized(w).judgment = w.judgment
<1> DEFINE c == [p \in Phases |-> IF w.currentTask[p] # None THEN w.currentTask[p]
                                  ELSE DefaultTask(w, p)]
<1>1. \A p \in Phases : DefaultTask(w, p) \in Tasks \cup {None}
  <2> SUFFICES ASSUME NEW p \in Phases PROVE DefaultTask(w, p) \in Tasks \cup {None}
    OBVIOUS
  <2>1. InProgress(w, p) \in SUBSET Ids /\ InProgress(w, p) \subseteq Tasks
    BY DEF InProgress, TasksOf, Ids
  <2>2. {t \in TasksOf(p) : w.task[t] \in {"pending", "blocked"}} \in SUBSET Ids
    BY DEF TasksOf, Ids
  <2>3. {t \in TasksOf(p) : w.task[t] \in {"pending", "blocked"}} \subseteq Tasks
    BY DEF TasksOf
  <2> QED
    BY <2>1, <2>2, <2>3, FirstType DEF DefaultTask
<1>2. c \in [Phases -> Tasks \cup {None}]
  BY <1>1 DEF Workflow
<1>3. Normalized(w) = [w EXCEPT !.currentTask = c]
  BY DEF Normalized
<1> HIDE DEF c
<1> QED
  BY <1>2, <1>3 DEF Workflow

\* Normalizing twice is normalizing once: the defaults depend on the statuses
\* of the tasks only.
LEMMA NormalizedTwice ==
  ASSUME NEW w \in Workflow
  PROVE  Normalized(Normalized(w)) = Normalized(w)
<1> DEFINE n == Normalized(w)
<1>1. n \in Workflow /\ n.task = w.task
  BY NormalizedType
<1>2. \A p \in Phases : DefaultTask(n, p) = DefaultTask(w, p)
  BY <1>1 DEF DefaultTask, InProgress
<1>3. n.currentTask = [p \in Phases |-> IF w.currentTask[p] # None THEN w.currentTask[p]
                                        ELSE DefaultTask(w, p)]
  BY DEF Normalized, Workflow
<1>4. [p \in Phases |-> IF n.currentTask[p] # None THEN n.currentTask[p]
                        ELSE DefaultTask(n, p)] = n.currentTask
  BY <1>2, <1>3
<1>5. Normalized(n) = [n EXCEPT !.currentTask = n.currentTask]
  BY <1>4 DEF Normalized
<1>6. \A x \in Workflow : [x EXCEPT !.currentTask = x.currentTask] = x
  BY DEF Workflow
<1> QED
  BY <1>1, <1>5, <1>6

LEMMA NewWorkflowType ==
  /\ NewWorkflow \in Workflow
  /\ Normalized(NewWorkflow) = NewWorkflow
  /\ NewWorkflow.phase = [p \in Phases |-> "pending"]
  /\ NewWorkflow.task = [t \in Tasks |-> "pending"]
  /\ NewWorkflow.attempt = [t \in Tasks |-> 0]
<1> DEFINE w == [status      |-> "active",
                 current     |-> First(Phases),
                 phase       |-> [p \in Phases |-> "pending"],
                 currentTask |-> [p \in Phases |-> None],
                 task        |-> [t \in Tasks |-> "pending"],
                 attempt     |-> [t \in Tasks |-> 0],
                 receipt     |-> [t \in Tasks |-> 0],
                 history     |-> [t \in Tasks |-> <<>>],
                 bound       |-> {},
                 judgment    |-> "none"]
<1>1. First(Phases) \in Phases
  BY FirstType, PlanShape DEF Ids
<1>2. w \in Workflow
  BY <1>1 DEF Workflow, Statuses, Verdicts, AttemptCap
<1>3. NewWorkflow = Normalized(w)
  BY DEF NewWorkflow
<1>4. /\ w.phase = [p \in Phases |-> "pending"]
      /\ w.task = [t \in Tasks |-> "pending"]
      /\ w.attempt = [t \in Tasks |-> 0]
  OBVIOUS
<1> HIDE DEF w
<1> QED
  BY <1>2, <1>3, <1>4, NormalizedType, NormalizedTwice

LEMMA NoWorkflowType ==
  /\ NoWorkflow \in Workflow
  /\ NoWorkflow.phase = [p \in Phases |-> "pending"]
  /\ NoWorkflow.task = [t \in Tasks |-> "pending"]
  /\ NoWorkflow.attempt = [t \in Tasks |-> 0]
  BY NewWorkflowType DEF NoWorkflow, Workflow

-----------------------------------------------------------------------------
(* What each command writes, given a well-formed file. *)

LEMMA StartTaskEffect ==
  ASSUME NEW w \in Workflow, NEW t \in Tasks, CanStartTask(w, t)
  PROVE  /\ StartTask(w, t) \in Workflow
         /\ StartTask(w, t).phase = [w.phase EXCEPT ![PhaseOf[t]] = "in_progress"]
         /\ StartTask(w, t).task = [w.task EXCEPT ![t] = "in_progress"]
         /\ StartTask(w, t).attempt = [w.attempt EXCEPT ![t] = @ + 1]
<1>1. PhaseOf[t] \in Phases /\ MaxAttempts[t] \in 0..AttemptCap
  BY PlanShape DEF AttemptCap
<1>2. w.attempt[t] \in 0..AttemptCap
  BY DEF Workflow
<1>3. w.attempt[t] < MaxAttempts[t]
  BY DEF CanStartTask
<1>4. w.attempt[t] + 1 \in 0..AttemptCap
  BY <1>1, <1>2, <1>3 DEF AttemptCap
<1> QED
  BY ZenonT(60), <1>1, <1>4 DEF StartTask, Workflow, Statuses

LEMMA RecordType ==
  ASSUME NEW w \in Workflow, NEW t \in Tasks
  PROVE  RecordOf(w, t) \in AttemptRecord
  BY DEF RecordOf, AttemptRecord, Workflow

LEMMA KeepRecordType ==
  ASSUME NEW w \in Workflow, NEW t \in Tasks
  PROVE  KeepRecord(w, t) \in Seq(AttemptRecord)
<1>1. w.history[t] \in Seq(AttemptRecord)
  BY DEF Workflow
<1>2. Append(w.history[t], RecordOf(w, t)) \in Seq(AttemptRecord)
  BY <1>1, RecordType
<1> QED
  BY <1>1, <1>2 DEF KeepRecord

LEMMA NextEligibleType ==
  ASSUME NEW w \in Workflow, NEW p \in Phases
  PROVE  NextEligible(w, p) \in Tasks \cup {None}
<1> DEFINE S == {t \in TasksOf(p) : w.task[t] = "pending" /\ TaskDependenciesReady(w, t)}
<1>1. S \in SUBSET Ids /\ S \subseteq Tasks
  BY DEF TasksOf, Ids
<1>2. NextEligible(w, p) = First(S)
  BY DEF NextEligible
<1> QED
  BY <1>1, <1>2, FirstType

LEMMA StatusFromOutcomeType ==
  ASSUME NEW o \in Outcomes
  PROVE  StatusFromOutcome(o) \in {"completed", "skipped", "blocked"}
  BY DEF StatusFromOutcome, Outcomes

LEMMA CommitTaskEffect ==
  ASSUME NEW w \in Workflow, NEW t \in Tasks, NEW o \in Outcomes
  PROVE  /\ CommitTask(w, t, o) \in Workflow
         /\ \E s \in {"in_progress", "blocked"} :
              CommitTask(w, t, o).phase = [w.phase EXCEPT ![PhaseOf[t]] = s]
         /\ CommitTask(w, t, o).task = [w.task EXCEPT ![t] = StatusFromOutcome(o)]
         /\ CommitTask(w, t, o).attempt = w.attempt
<1> DEFINE p      == PhaseOf[t]
           halted == StatusFromOutcome(o) = "blocked"
           closed == [w EXCEPT !.task[t]  = StatusFromOutcome(o),
                               !.phase[p] = IF halted THEN "blocked" ELSE "in_progress",
                               !.status   = IF halted THEN "blocked" ELSE "active",
                               !.current  = p]
<1>1. p \in Phases
  BY PlanShape
<1>2. closed \in Workflow
  BY <1>1, StatusFromOutcomeType DEF Workflow, Statuses
<1>3. /\ \E s \in {"in_progress", "blocked"} : closed.phase = [w.phase EXCEPT ![p] = s]
      /\ closed.task = [w.task EXCEPT ![t] = StatusFromOutcome(o)]
      /\ closed.attempt = w.attempt
  BY DEF Workflow
<1>4. CommitTask(w, t, o) = [closed EXCEPT !.history[t] = Append(@, RecordOf(closed, t)),
                                           !.currentTask[p] = NextEligible(closed, p)]
  BY DEF CommitTask
<1> HIDE DEF closed
<1>5. RecordOf(closed, t) \in AttemptRecord /\ NextEligible(closed, p) \in Tasks \cup {None}
  BY <1>1, <1>2, RecordType, NextEligibleType
<1>6. Append(closed.history[t], RecordOf(closed, t)) \in Seq(AttemptRecord)
  BY <1>2, <1>5 DEF Workflow
<1> DEFINE hist == [closed.history EXCEPT ![t] = Append(@, RecordOf(closed, t))]
           curr == [closed.currentTask EXCEPT ![p] = NextEligible(closed, p)]
<1>7. CommitTask(w, t, o) \in Workflow
  <2>1. hist \in [Tasks -> Seq(AttemptRecord)]
    BY <1>2, <1>6 DEF Workflow
  <2>2. curr \in [Phases -> Tasks \cup {None}]
    BY <1>1, <1>2, <1>5 DEF Workflow
  <2>3. CommitTask(w, t, o) = [closed EXCEPT !.history = hist, !.currentTask = curr]
    BY <1>2, <1>4 DEF Workflow
  <2> HIDE DEF hist, curr, p
  <2> QED
    BY <1>2, <2>1, <2>2, <2>3 DEF Workflow
<1>8. /\ CommitTask(w, t, o).phase = closed.phase
      /\ CommitTask(w, t, o).task = closed.task
      /\ CommitTask(w, t, o).attempt = closed.attempt
  BY <1>2, <1>4 DEF Workflow
<1> QED
  BY <1>3, <1>7, <1>8

LEMMA StartPhaseEffect ==
  ASSUME NEW w \in Workflow, NEW p \in Phases, ~HasContext(p)
  PROVE  /\ StartPhase(w, p) \in Workflow
         /\ StartPhase(w, p).phase = [w.phase EXCEPT ![p] = "in_progress"]
         /\ StartPhase(w, p).task = w.task
         /\ StartPhase(w, p).attempt = w.attempt
  BY DEF StartPhase, Workflow, Statuses

LEMMA RetryTaskEffect ==
  ASSUME NEW w \in Workflow, NEW t \in Tasks, NEW option \in Tasks \cup {None},
         CanRetryTask(w, t, option)
  PROVE  /\ RetryTask(w, t, option) \in Workflow
         /\ RetryTask(w, t, option).phase = [w.phase EXCEPT ![PhaseOf[t]] = "in_progress"]
         /\ \E r \in TasksOf(PhaseOf[t]) :
              /\ w.task[r] \notin Done
              /\ RetryTask(w, t, option).task = [w.task EXCEPT ![r] = "pending"]
         /\ RetryTask(w, t, option).attempt = w.attempt
<1> DEFINE p == PhaseOf[t]
           r == RecoveryTask(t, option)
           h == KeepRecord(w, t)
<1>1. p \in Phases
  BY PlanShape
<1>2. r \in Tasks /\ r \in TasksOf(p) /\ w.task[r] \notin Done
  BY DEF CanRetryTask, TasksOf
<1>3. h \in Seq(AttemptRecord)
  BY KeepRecordType
<1>4. RetryTask(w, t, option) = [w EXCEPT !.history[t]     = h,
                                          !.task[r]        = "pending",
                                          !.phase[p]       = "in_progress",
                                          !.currentTask[p] = r,
                                          !.current        = p,
                                          !.status         = "active"]
  BY DEF RetryTask
<1> DEFINE hist == [w.history EXCEPT ![t] = h]
<1>5. hist \in [Tasks -> Seq(AttemptRecord)]
  BY <1>3 DEF Workflow
<1>6. RetryTask(w, t, option) = [w EXCEPT !.history        = hist,
                                          !.task[r]        = "pending",
                                          !.phase[p]       = "in_progress",
                                          !.currentTask[p] = r,
                                          !.current        = p,
                                          !.status         = "active"]
  BY <1>4 DEF Workflow
<1> HIDE DEF r, h, hist, p
<1> DEFINE tasks  == [w.task EXCEPT ![r] = "pending"]
           phases == [w.phase EXCEPT ![p] = "in_progress"]
           curr   == [w.currentTask EXCEPT ![p] = r]
<1>7. RetryTask(w, t, option) \in Workflow
  <2>1. tasks \in [Tasks -> Statuses] /\ phases \in [Phases -> Statuses]
    BY DEF Workflow, Statuses
  <2>2. curr \in [Phases -> Tasks \cup {None}]
    BY <1>2 DEF Workflow
  <2>3. RetryTask(w, t, option) = [w EXCEPT !.history     = hist,
                                            !.task        = tasks,
                                            !.phase       = phases,
                                            !.currentTask = curr,
                                            !.current     = p,
                                            !.status      = "active"]
    BY <1>6 DEF Workflow
  <2> HIDE DEF tasks, phases, curr
  <2> QED
    BY ZenonT(60), <1>1, <1>5, <2>1, <2>2, <2>3 DEF Workflow
<1>8. /\ RetryTask(w, t, option).phase = [w.phase EXCEPT ![p] = "in_progress"]
      /\ RetryTask(w, t, option).task = [w.task EXCEPT ![r] = "pending"]
      /\ RetryTask(w, t, option).attempt = w.attempt
  BY <1>6 DEF Workflow
<1> QED
  BY <1>2, <1>7, <1>8 DEF p

LEMMA CommitPhaseEffect ==
  ASSUME NEW w \in Workflow, NEW p \in Phases, NEW o \in Outcomes, NEW verdict \in Verdicts
  PROVE  /\ CommitPhase(w, p, o, verdict) \in Workflow
         /\ CommitPhase(w, p, o, verdict).phase = [w.phase EXCEPT ![p] = StatusFromOutcome(o)]
         /\ CommitPhase(w, p, o, verdict).task =
              [t \in Tasks |-> IF t \in TasksOf(p) /\ w.task[t] \notin Done
                                 THEN StatusFromOutcome(o) ELSE w.task[t]]
         /\ CommitPhase(w, p, o, verdict).attempt = w.attempt
<1> DEFINE s      == StatusFromOutcome(o)
           open   == OpenTasks(w, p)
           closed == [w EXCEPT !.phase[p] = s,
                               !.task     = [t \in Tasks |-> IF t \in open THEN s ELSE @[t]]]
           h      == [t \in Tasks |-> IF t \in open /\ w.attempt[t] > 0
                                       THEN KeepRecord(closed, t) ELSE closed.history[t]]
           over   == IF \A q \in Phases : closed.phase[q] \in Done THEN "completed"
                     ELSE IF s = "blocked" THEN "blocked" ELSE "active"
<1>1. s \in Statuses
  BY StatusFromOutcomeType DEF Statuses
<1>2. closed \in Workflow
  BY <1>1 DEF Workflow
<1>3. /\ closed.phase = [w.phase EXCEPT ![p] = s]
      /\ closed.task = [t \in Tasks |-> IF t \in open THEN s ELSE w.task[t]]
      /\ closed.attempt = w.attempt
  BY DEF Workflow
<1>4. CommitPhase(w, p, o, verdict) =
        [closed EXCEPT !.history        = h,
                       !.currentTask[p] = None,
                       !.current        = NextOpenPhase(closed),
                       !.status         = over,
                       !.judgment       = verdict]
  BY DEF CommitPhase
<1>5. NextOpenPhase(closed) \in Phases \cup {None}
  <2> DEFINE P == {q \in Phases : closed.phase[q] \in {"pending", "blocked"}}
  <2>1. P \in SUBSET Ids /\ P \subseteq Phases
    BY DEF Ids
  <2>2. NextOpenPhase(closed) = First(P)
    BY DEF NextOpenPhase
  <2> QED
    BY <2>1, <2>2, FirstType
<1>6. h \in [Tasks -> Seq(AttemptRecord)]
  <2> HIDE DEF closed
  <2>1. \A t \in Tasks : KeepRecord(closed, t) \in Seq(AttemptRecord)
    BY <1>2, KeepRecordType
  <2> QED
    BY <1>2, <2>1 DEF Workflow
<1>7. over \in {"completed", "blocked", "active"}
  OBVIOUS
<1> DEFINE curr == [closed.currentTask EXCEPT ![p] = None]
           next == NextOpenPhase(closed)
<1>8. CommitPhase(w, p, o, verdict) \in Workflow
  <2>1. curr \in [Phases -> Tasks \cup {None}]
    BY <1>2 DEF Workflow
  <2>2. CommitPhase(w, p, o, verdict) =
          [closed EXCEPT !.history     = h,
                         !.currentTask = curr,
                         !.current     = next,
                         !.status      = over,
                         !.judgment    = verdict]
    BY <1>2, <1>4 DEF Workflow
  <2> HIDE DEF closed, h, over, s, curr, next
  <2>3. next \in Phases \cup {None}
    BY <1>5 DEF next
  <2> QED
    BY ZenonT(60), <1>2, <1>6, <1>7, <2>1, <2>2, <2>3 DEF Workflow
<1> HIDE DEF closed, h, over, s
<1>9. /\ CommitPhase(w, p, o, verdict).phase = closed.phase
      /\ CommitPhase(w, p, o, verdict).task = closed.task
      /\ CommitPhase(w, p, o, verdict).attempt = closed.attempt
  BY <1>2, <1>4 DEF Workflow
<1> QED
  BY <1>3, <1>8, <1>9 DEF s, OpenTasks

LEMMA CommitFinalEffect ==
  ASSUME NEW w \in Workflow, NEW o \in Outcomes, NEW verdict \in Verdicts
  PROVE  /\ CommitFinal(w, o, verdict) \in Workflow
         /\ CommitFinal(w, o, verdict).phase = w.phase
         /\ CommitFinal(w, o, verdict).task = w.task
         /\ CommitFinal(w, o, verdict).attempt = w.attempt
  BY DEF CommitFinal, Workflow

-----------------------------------------------------------------------------
(* What any command may do to the statuses and the attempt counters: settled *)
(* tasks stay, attempts are spent when dependencies are met and within the   *)
(* budget, and a phase is closed after the command only with all its tasks,  *)
(* or as it was before.                                                      *)

Change(w, v) ==
  /\ \A t \in Tasks : w.task[t] \in Done => v.task[t] = w.task[t]
  /\ \A t \in Tasks : v.attempt[t] # w.attempt[t] => /\ TaskDependenciesReady(w, t)
                                                    /\ v.attempt[t] <= MaxAttempts[t]
  /\ \A p \in Phases : v.phase[p] \in Done =>
       \/ \A t \in TasksOf(p) : v.task[t] \in Done
       \/ w.phase[p] \in Done /\ \A t \in TasksOf(p) : v.task[t] = w.task[t]

LEMMA StartTaskChange ==
  ASSUME NEW w \in Workflow, NEW t \in Tasks, CanStartTask(w, t)
  PROVE  StartTask(w, t) \in Workflow /\ Change(w, StartTask(w, t))
<1> DEFINE v == StartTask(w, t)
<1>1. /\ v \in Workflow
      /\ v.phase = [w.phase EXCEPT ![PhaseOf[t]] = "in_progress"]
      /\ v.task = [w.task EXCEPT ![t] = "in_progress"]
      /\ v.attempt = [w.attempt EXCEPT ![t] = @ + 1]
  BY StartTaskEffect
<1>2. w.task[t] \notin Done /\ TaskDependenciesReady(w, t) /\ w.attempt[t] < MaxAttempts[t]
  BY DEF CanStartTask, Done
<1> HIDE DEF v
<1>3. w.attempt \in [Tasks -> 0..AttemptCap] /\ MaxAttempts[t] \in Nat
  BY PlanShape DEF Workflow
<1>4. \A u \in Tasks : v.attempt[u] # w.attempt[u] => u = t /\ v.attempt[u] <= MaxAttempts[u]
  BY <1>1, <1>2, <1>3
<1>5. Change(w, v)
  BY <1>1, <1>2, <1>4, PlanShape DEF Change, Workflow, TasksOf, Done
<1> QED
  BY <1>1, <1>5 DEF v

LEMMA StartPhaseChange ==
  ASSUME NEW w \in Workflow, NEW p \in Phases, CanStartPhase(w, p)
  PROVE  StartPhase(w, p) \in Workflow /\ Change(w, StartPhase(w, p))
<1>1. CASE HasContext(p)
  <2>1. NextEligible(w, p) \in Tasks /\ CanStartTask(w, NextEligible(w, p))
    BY <1>1, NextEligibleType DEF CanStartPhase
  <2> QED
    BY <1>1, <2>1, StartTaskChange DEF StartPhase
<1>2. CASE ~HasContext(p)
  <2> DEFINE v == StartPhase(w, p)
  <2>1. /\ v \in Workflow
        /\ v.phase = [w.phase EXCEPT ![p] = "in_progress"]
        /\ v.task = w.task
        /\ v.attempt = w.attempt
    BY <1>2, StartPhaseEffect
  <2> HIDE DEF v
  <2>2. Change(w, v)
    BY <2>1 DEF Change, Workflow, Done
  <2> QED
    BY <2>1, <2>2 DEF v
<1> QED
  BY <1>1, <1>2

LEMMA CommitTaskChange ==
  ASSUME NEW w \in Workflow, NEW t \in Tasks, NEW o \in Outcomes, CanCommitTask(w, t, o)
  PROVE  CommitTask(w, t, o) \in Workflow /\ Change(w, CommitTask(w, t, o))
<1> DEFINE v == CommitTask(w, t, o)
<1>1. PICK s \in {"in_progress", "blocked"} :
        /\ v \in Workflow
        /\ v.phase = [w.phase EXCEPT ![PhaseOf[t]] = s]
        /\ v.task = [w.task EXCEPT ![t] = StatusFromOutcome(o)]
        /\ v.attempt = w.attempt
  BY CommitTaskEffect
<1>2. w.task[t] \notin Done
  BY DEF CanCommitTask, Done
<1> HIDE DEF v
<1>3. Change(w, v)
  BY <1>1, <1>2, PlanShape DEF Change, Workflow, TasksOf, Done
<1> QED
  BY <1>1, <1>3 DEF v

LEMMA RetryTaskChange ==
  ASSUME NEW w \in Workflow, NEW t \in Tasks, NEW option \in Tasks \cup {None},
         CanRetryTask(w, t, option)
  PROVE  RetryTask(w, t, option) \in Workflow /\ Change(w, RetryTask(w, t, option))
<1> DEFINE v == RetryTask(w, t, option)
<1>1. /\ v \in Workflow
      /\ v.phase = [w.phase EXCEPT ![PhaseOf[t]] = "in_progress"]
      /\ v.attempt = w.attempt
      /\ \E r \in TasksOf(PhaseOf[t]) :
           w.task[r] \notin Done /\ v.task = [w.task EXCEPT ![r] = "pending"]
  BY RetryTaskEffect
<1> HIDE DEF v
<1>2. PICK r \in TasksOf(PhaseOf[t]) :
        w.task[r] \notin Done /\ v.task = [w.task EXCEPT ![r] = "pending"]
  BY <1>1
<1>3. r \in Tasks /\ PhaseOf[r] = PhaseOf[t] /\ PhaseOf[t] \in Phases
  BY PlanShape DEF TasksOf
<1>4. \A u \in Tasks : w.task[u] \in Done => v.task[u] = w.task[u]
  BY <1>2, <1>3 DEF Workflow
<1>5. ASSUME NEW p \in Phases, v.phase[p] \in Done
      PROVE  w.phase[p] \in Done /\ \A u \in TasksOf(p) : v.task[u] = w.task[u]
  <2>1. p # PhaseOf[t]
    BY <1>1, <1>3, <1>5 DEF Workflow, Done
  <2> QED
    BY <1>1, <1>2, <1>3, <1>5, <2>1 DEF Workflow, TasksOf
<1>6. Change(w, v)
  BY <1>1, <1>4, <1>5 DEF Change
<1> QED
  BY <1>1, <1>6 DEF v

LEMMA CommitPhaseChange ==
  ASSUME NEW w \in Workflow, NEW p \in Phases, NEW o \in Outcomes, NEW verdict \in Verdicts
  PROVE  /\ CommitPhase(w, p, o, verdict) \in Workflow
         /\ Change(w, CommitPhase(w, p, o, verdict))
<1> DEFINE v == CommitPhase(w, p, o, verdict)
           s == StatusFromOutcome(o)
<1>1. /\ v \in Workflow
      /\ v.phase = [w.phase EXCEPT ![p] = s]
      /\ v.task = [t \in Tasks |-> IF t \in TasksOf(p) /\ w.task[t] \notin Done
                                    THEN s ELSE w.task[t]]
      /\ v.attempt = w.attempt
  BY CommitPhaseEffect
<1> HIDE DEF v, s
<1>2. Change(w, v)
  BY <1>1, PlanShape DEF Change, Workflow, TasksOf, Done
<1> QED
  BY <1>1, <1>2 DEF v

LEMMA CommitFinalChange ==
  ASSUME NEW w \in Workflow, NEW o \in Outcomes, NEW verdict \in Verdicts
  PROVE  CommitFinal(w, o, verdict) \in Workflow /\ Change(w, CommitFinal(w, o, verdict))
  BY CommitFinalEffect DEF Change

\* Every step starts a new workflow or is a Change.
LEMMA StepChange ==
  ASSUME wf \in Workflow, Next
  PROVE  wf' \in Workflow /\ (wf' = NewWorkflow \/ Change(wf, wf'))
<1>1. ASSUME NEW v \in Workflow, Change(wf, v), Write(v)
      PROVE  wf' \in Workflow /\ Change(wf, wf')
  BY <1>1, NormalizedType DEF Write, Change
<1>2. \A verdict \in VerdictsFor(wf) : verdict \in Verdicts
  BY InputShape DEF VerdictsFor, Verdicts
<1>3. CASE WorkflowStart
  BY <1>3, NewWorkflowType DEF WorkflowStart, Write
<1>4. CASE Judge
  <2>1. PICK verdict \in FreshVerdicts : Write([wf EXCEPT !.judgment = verdict])
    BY <1>4 DEF Judge
  <2>2. [wf EXCEPT !.judgment = verdict] \in Workflow
    BY InputShape DEF Workflow, Verdicts
  <2>3. Change(wf, [wf EXCEPT !.judgment = verdict])
    BY DEF Change, Workflow
  <2> QED
    BY <1>1, <2>1, <2>2, <2>3
<1>5. ASSUME NEW p \in Phases, PhaseStart(p)
      PROVE  wf' \in Workflow /\ Change(wf, wf')
  BY <1>1, <1>5, StartPhaseChange DEF PhaseStart
<1>6. ASSUME NEW p \in CheckpointPhases, RuntimeCheckpoint(p)
      PROVE  wf' \in Workflow /\ Change(wf, wf')
  <2> DEFINE v == [wf EXCEPT !.bound = @ \cup {p}]
  <2>1. v \in Workflow
    <3>1. p \in Phases
      BY InputShape
    <3> QED
      BY <3>1 DEF Workflow
  <2>2. Change(wf, v)
    BY DEF Change, Workflow
  <2> QED
    BY <1>1, <1>6, <2>1, <2>2 DEF RuntimeCheckpoint
<1>7. ASSUME NEW p \in Phases, NEW o \in Outcomes, PhaseCommit(p, o)
      PROVE  wf' \in Workflow /\ Change(wf, wf')
  BY <1>1, <1>2, <1>7, CommitPhaseChange DEF PhaseCommit
<1>8. ASSUME NEW t \in Tasks, TaskStart(t)
      PROVE  wf' \in Workflow /\ Change(wf, wf')
  BY <1>1, <1>8, StartTaskChange DEF TaskStart
<1>9. ASSUME NEW t \in Tasks, NEW o \in Outcomes, TaskCommit(t, o)
      PROVE  wf' \in Workflow /\ Change(wf, wf')
  BY <1>1, <1>9, CommitTaskChange DEF TaskCommit
<1>10. ASSUME NEW t \in Tasks, NEW option \in Tasks \cup {None}, TaskRetry(t, option)
       PROVE  wf' \in Workflow /\ Change(wf, wf')
  BY <1>1, <1>10, RetryTaskChange DEF TaskRetry
<1>11. ASSUME NEW o \in Outcomes, FinalCommit(o)
       PROVE  wf' \in Workflow /\ Change(wf, wf')
  BY <1>1, <1>2, <1>11, CommitFinalChange DEF FinalCommit
<1> QED
  BY <1>3, <1>4, <1>5, <1>6, <1>7, <1>8, <1>9, <1>10, <1>11 DEF Next

-----------------------------------------------------------------------------
(* The inductive invariant, on the content of the file: it is stated of any  *)
(* workflow w, so that it also holds of the copies that processes write.     *)

\* A receipt belongs to the attempt it is kept with, in the task and in each
\* record of its history, and a completed task has the one it asks for.
ReceiptsMatch(w) ==
  \A t \in Tasks :
    /\ w.receipt[t] # 0 => t \in ContextTasks /\ w.receipt[t] = w.attempt[t]
    /\ t \in ContextTasks /\ w.task[t] = "completed" => ContextLoaded(w, t)
    /\ \A i \in DOMAIN w.history[t] : w.history[t][i].receipt \in {0, w.history[t][i].attempt}

\* The records of a task are in order and none is beyond its counter; a blocked
\* task has the record of its last attempt, a running one has none yet.
HistoryInOrder(w) ==
  \A t \in Tasks :
    /\ \A i \in DOMAIN w.history[t] : /\ w.history[t][i].attempt <= w.attempt[t]
                                      /\ w.history[t][i].status \in Done \cup {"blocked"}
    /\ \A i, j \in DOMAIN w.history[t] :
         i < j => w.history[t][i].attempt < w.history[t][j].attempt
    /\ w.task[t] = "blocked" /\ w.attempt[t] > 0 => Recorded(w, t)
    /\ w.task[t] = "in_progress" => w.attempt[t] > 0 /\ ~Recorded(w, t)

\* The pointers name open work, the one of a phase a task of that phase.
PointersAreOpen(w) ==
  /\ w.current # None => w.phase[w.current] \notin Done
  /\ \A p \in Phases : w.currentTask[p] # None => w.currentTask[p] \in OpenTasks(w, p)

\* A workflow with context tasks is completed with all its phases only.
ClosesWhole(w) ==
  w.status = "completed" /\ ContextTasks # {} => \A p \in Phases : w.phase[p] \in Done

\* A closed phase has only settled tasks: the work behind a closed dependency
\* phase is settled when an attempt is spent.
PhasesCloseWhole(w) ==
  \A t \in Tasks : w.phase[PhaseOf[t]] \in Done => w.task[t] \in Done

\* No task has spent more than its budget; what was attempted had the work it
\* depends on settled, and still has.
AttemptsInOrder(w) ==
  \A t \in Tasks :
    /\ w.attempt[t] <= MaxAttempts[t]
    /\ w.attempt[t] > 0 =>
         \A d \in DependsOn[t] \cup DependsOn[PhaseOf[t]] :
           \A u \in WorkOf(d) : w.task[u] \in Done

Sound(w) ==
  /\ w \in Workflow
  /\ PhasesCloseWhole(w)
  /\ AttemptsInOrder(w)
  /\ ReceiptsMatch(w)
  /\ HistoryInOrder(w)
  /\ PointersAreOpen(w)
  /\ ClosesWhole(w)

\* First returns what it is asked for: a member of the set, or None.
LEMMA FirstIn ==
  ASSUME NEW S \in SUBSET Ids, First(S) # None
  PROVE  First(S) \in S
BY FirstType

LEMMA NormalizedPointers ==
  ASSUME NEW w \in Workflow, PointersAreOpen(w)
  PROVE  PointersAreOpen(Normalized(w))
<1> DEFINE n == Normalized(w)
<1>1. /\ n.current = w.current /\ n.phase = w.phase /\ n.task = w.task
  BY NormalizedType
<1>2. n.currentTask = [p \in Phases |-> IF w.currentTask[p] # None THEN w.currentTask[p]
                                        ELSE DefaultTask(w, p)]
  BY DEF Normalized, Workflow
<1>3. \A p \in Phases : OpenTasks(n, p) = OpenTasks(w, p)
  BY <1>1 DEF OpenTasks
<1>4. ASSUME NEW p \in Phases, DefaultTask(w, p) # None
      PROVE  DefaultTask(w, p) \in OpenTasks(w, p)
  <2>1. CASE InProgress(w, p) # {}
    <3>1. InProgress(w, p) \in SUBSET Ids /\ InProgress(w, p) \subseteq OpenTasks(w, p)
      BY DEF InProgress, OpenTasks, TasksOf, Ids, Done
    <3> QED
      BY <2>1, <3>1, FirstType DEF DefaultTask
  <2>2. CASE InProgress(w, p) = {}
    <3> DEFINE S == {t \in TasksOf(p) : w.task[t] \in {"pending", "blocked"}}
    <3>1. S \in SUBSET Ids /\ S \subseteq OpenTasks(w, p)
      BY DEF OpenTasks, TasksOf, Ids, Done
    <3>2. DefaultTask(w, p) = First(S)
      BY <2>2 DEF DefaultTask
    <3> QED
      BY <1>4, <3>1, <3>2, FirstIn
  <2> QED
    BY <2>1, <2>2
<1> HIDE DEF n
<1>5. PointersAreOpen(n)
  BY <1>1, <1>2, <1>3, <1>4 DEF PointersAreOpen
<1> QED
  BY <1>5 DEF n

\* Whatever is sound before it is normalized is sound after.
LEMMA NormalizedSound ==
  ASSUME NEW w, Sound(w)
  PROVE  Sound(Normalized(w))
<1> DEFINE n == Normalized(w)
<1>1. w \in Workflow
  BY DEF Sound
<1>2. /\ n \in Workflow
      /\ n.status = w.status /\ n.phase = w.phase /\ n.task = w.task
      /\ n.attempt = w.attempt /\ n.receipt = w.receipt /\ n.history = w.history
  BY <1>1, NormalizedType
<1>3. PointersAreOpen(n)
  BY <1>1, NormalizedPointers DEF Sound
<1> HIDE DEF n
<1>4. PhasesCloseWhole(n) /\ AttemptsInOrder(n) /\ ClosesWhole(n)
  BY <1>2 DEF Sound, PhasesCloseWhole, AttemptsInOrder, ClosesWhole
<1>5. ReceiptsMatch(n) /\ HistoryInOrder(n)
  BY <1>2 DEF Sound, ReceiptsMatch, HistoryInOrder, ContextLoaded, Recorded
<1> QED
  BY <1>2, <1>3, <1>4, <1>5 DEF Sound, n

LEMMA StartTaskFields ==
  ASSUME NEW w \in Workflow, NEW t \in Tasks
  PROVE  /\ StartTask(w, t).receipt = [w.receipt EXCEPT ![t] =
                                         IF t \in ContextTasks THEN w.attempt[t] + 1 ELSE @]
         /\ StartTask(w, t).history = w.history
         /\ StartTask(w, t).currentTask = [w.currentTask EXCEPT ![PhaseOf[t]] = t]
         /\ StartTask(w, t).current = PhaseOf[t]
         /\ StartTask(w, t).status = "active"
BY DEF StartTask, Workflow

LEMMA StartPhaseFields ==
  ASSUME NEW w \in Workflow, NEW p \in Phases, ~HasContext(p)
  PROVE  /\ StartPhase(w, p).receipt = w.receipt
         /\ StartPhase(w, p).history = w.history
         /\ StartPhase(w, p).currentTask = w.currentTask
         /\ StartPhase(w, p).current = p
         /\ StartPhase(w, p).status = "active"
BY DEF StartPhase, Workflow

\* What task-commit, task-retry and phase-commit write besides the statuses.
CommittedTask(w, v, t, o) ==
  /\ v.receipt = w.receipt
  /\ v.history = [w.history EXCEPT ![t] = Append(@, [attempt |-> w.attempt[t],
                                                    status  |-> StatusFromOutcome(o),
                                                    receipt |-> w.receipt[t]])]
  /\ v.current = PhaseOf[t]
  /\ v.status \in {"blocked", "active"}
  /\ \A p \in Phases \ {PhaseOf[t]} : v.currentTask[p] = w.currentTask[p]
  /\ v.currentTask[PhaseOf[t]] # None =>
       /\ v.currentTask[PhaseOf[t]] \in TasksOf(PhaseOf[t])
       /\ v.task[v.currentTask[PhaseOf[t]]] = "pending"

RetriedTask(w, v, t) ==
  /\ v.receipt = w.receipt
  /\ v.history = [w.history EXCEPT ![t] = KeepRecord(w, t)]
  /\ v.current = PhaseOf[t]
  /\ v.status = "active"
  /\ \E r \in TasksOf(PhaseOf[t]) :
       /\ w.task[r] \notin Done
       /\ v.task = [w.task EXCEPT ![r] = "pending"]
       /\ v.currentTask = [w.currentTask EXCEPT ![PhaseOf[t]] = r]

CommittedPhase(w, v, p, o) ==
  /\ v.receipt = w.receipt /\ v.attempt = w.attempt
  /\ \A t \in Tasks : v.task[t] = IF t \in OpenTasks(w, p) THEN StatusFromOutcome(o) ELSE w.task[t]
  /\ v.history = [t \in Tasks |->
                    IF t \in OpenTasks(w, p) /\ w.attempt[t] > 0 /\ ~Recorded(w, t)
                      THEN Append(w.history[t], [attempt |-> w.attempt[t],
                                                 status  |-> StatusFromOutcome(o),
                                                 receipt |-> w.receipt[t]])
                      ELSE w.history[t]]
  /\ v.currentTask = [w.currentTask EXCEPT ![p] = None]
  /\ v.current # None => v.phase[v.current] \in {"pending", "blocked"}
  /\ v.status \in {"completed", "blocked", "active"}
  /\ v.status = "completed" => \A q \in Phases : v.phase[q] \in Done

LEMMA CommitTaskFields ==
  ASSUME NEW w \in Workflow, NEW t \in Tasks, NEW o \in Outcomes
  PROVE  CommittedTask(w, CommitTask(w, t, o), t, o)
<1> DEFINE p      == PhaseOf[t]
           halted == StatusFromOutcome(o) = "blocked"
           closed == [w EXCEPT !.task[t]  = StatusFromOutcome(o),
                               !.phase[p] = IF halted THEN "blocked" ELSE "in_progress",
                               !.status   = IF halted THEN "blocked" ELSE "active",
                               !.current  = p]
           v == CommitTask(w, t, o)
<1>1. p \in Phases
  BY PlanShape
<1>2. v = [closed EXCEPT !.history[t] = Append(@, RecordOf(closed, t)),
                         !.currentTask[p] = NextEligible(closed, p)]
  BY DEF CommitTask
<1>3. /\ closed.history = w.history /\ closed.receipt = w.receipt
      /\ closed.currentTask = w.currentTask
      /\ closed.current = p /\ closed.status \in {"blocked", "active"}
      /\ closed.task = [w.task EXCEPT ![t] = StatusFromOutcome(o)]
      /\ closed.attempt = w.attempt
  BY DEF Workflow
<1>4. RecordOf(closed, t) = [attempt |-> w.attempt[t], status |-> StatusFromOutcome(o),
                             receipt |-> w.receipt[t]]
  BY <1>3 DEF RecordOf, Workflow
<1>5. DOMAIN closed = DOMAIN w
  OBVIOUS
<1> DEFINE S == {u \in TasksOf(p) : closed.task[u] = "pending" /\ TaskDependenciesReady(closed, u)}
<1>6. NextEligible(closed, p) = First(S)
  BY DEF NextEligible
<1>7. S \in SUBSET Ids
  BY DEF TasksOf, Ids
<1>8. First(S) # None => First(S) \in TasksOf(p) /\ closed.task[First(S)] = "pending"
  BY <1>7, FirstIn
<1> HIDE DEF closed
<1>9. /\ v.receipt = closed.receipt /\ v.current = closed.current /\ v.status = closed.status
      /\ v.task = closed.task
      /\ v.history = [closed.history EXCEPT ![t] = Append(@, RecordOf(closed, t))]
      /\ v.currentTask = [closed.currentTask EXCEPT ![p] = NextEligible(closed, p)]
  BY <1>2, <1>5 DEF Workflow
<1> HIDE DEF S, v
<1>10. v.currentTask = [w.currentTask EXCEPT ![p] = First(S)]
  BY <1>3, <1>6, <1>9
<1>11. v.currentTask[p] = First(S)
  BY <1>1, <1>10 DEF Workflow
<1>12. \A q \in Phases \ {p} : v.currentTask[q] = w.currentTask[q]
  BY <1>10 DEF Workflow
<1>13. v.history = [w.history EXCEPT ![t] = Append(@, [attempt |-> w.attempt[t],
                                   status  |-> StatusFromOutcome(o), receipt |-> w.receipt[t]])]
  BY <1>3, <1>4, <1>9
<1> QED
  BY <1>3, <1>8, <1>9, <1>11, <1>12, <1>13 DEF v, CommittedTask

LEMMA RetryTaskFields ==
  ASSUME NEW w \in Workflow, NEW t \in Tasks, NEW option \in Tasks \cup {None},
         CanRetryTask(w, t, option)
  PROVE  RetriedTask(w, RetryTask(w, t, option), t)
<1> DEFINE r == RecoveryTask(t, option)
           v == RetryTask(w, t, option)
<1>1. r \in TasksOf(PhaseOf[t]) /\ w.task[r] \notin Done
  BY DEF CanRetryTask
<1> HIDE DEF r
<1>2. v = [w EXCEPT !.history[t]     = KeepRecord(w, t),
                    !.task[r]        = "pending",
                    !.phase[PhaseOf[t]] = "in_progress",
                    !.currentTask[PhaseOf[t]] = r,
                    !.current        = PhaseOf[t],
                    !.status         = "active"]
  BY DEF RetryTask, r
<1>3. /\ v.receipt = w.receipt
      /\ v.history = [w.history EXCEPT ![t] = KeepRecord(w, t)]
      /\ v.current = PhaseOf[t] /\ v.status = "active"
      /\ v.task = [w.task EXCEPT ![r] = "pending"]
      /\ v.currentTask = [w.currentTask EXCEPT ![PhaseOf[t]] = r]
  BY <1>2 DEF Workflow
<1> QED
  BY <1>1, <1>3 DEF RetriedTask

LEMMA CommitPhaseFields ==
  ASSUME NEW w \in Workflow, NEW p \in Phases, NEW o \in Outcomes, NEW verdict \in Verdicts
  PROVE  CommittedPhase(w, CommitPhase(w, p, o, verdict), p, o)
<1> DEFINE s      == StatusFromOutcome(o)
           open   == OpenTasks(w, p)
           closed == [w EXCEPT !.phase[p] = s,
                               !.task     = [t \in Tasks |-> IF t \in open THEN s ELSE @[t]]]
           h      == [t \in Tasks |-> IF t \in open /\ w.attempt[t] > 0
                                       THEN KeepRecord(closed, t) ELSE closed.history[t]]
           over   == IF \A q \in Phases : closed.phase[q] \in Done THEN "completed"
                     ELSE IF s = "blocked" THEN "blocked" ELSE "active"
           v      == CommitPhase(w, p, o, verdict)
<1>1. v = [closed EXCEPT !.history        = h,
                         !.currentTask[p] = None,
                         !.current        = NextOpenPhase(closed),
                         !.status         = over,
                         !.judgment       = verdict]
  BY DEF CommitPhase
<1>2. /\ closed.history = w.history /\ closed.receipt = w.receipt /\ closed.attempt = w.attempt
      /\ closed.currentTask = w.currentTask
      /\ closed.task = [t \in Tasks |-> IF t \in open THEN s ELSE w.task[t]]
  BY DEF Workflow
<1>3. DOMAIN closed = DOMAIN w
  OBVIOUS
<1> HIDE DEF closed, h, over, s
<1>4. /\ v.receipt = closed.receipt /\ v.phase = closed.phase /\ v.history = h
      /\ v.currentTask = [closed.currentTask EXCEPT ![p] = None]
      /\ v.current = NextOpenPhase(closed) /\ v.status = over
  BY <1>1, <1>3 DEF Workflow
<1>5. \A t \in Tasks : KeepRecord(closed, t) =
        IF Recorded(w, t) THEN w.history[t]
        ELSE Append(w.history[t], [attempt |-> w.attempt[t], status |-> closed.task[t],
                                   receipt |-> w.receipt[t]])
  BY <1>2 DEF KeepRecord, Recorded, RecordOf
<1>6. h = [t \in Tasks |->
             IF t \in open /\ w.attempt[t] > 0 /\ ~Recorded(w, t)
               THEN Append(w.history[t], [attempt |-> w.attempt[t], status |-> s,
                                          receipt |-> w.receipt[t]])
               ELSE w.history[t]]
  <2>1. ASSUME NEW t \in Tasks
        PROVE  (IF t \in open /\ w.attempt[t] > 0 THEN KeepRecord(closed, t) ELSE closed.history[t])
                 = IF t \in open /\ w.attempt[t] > 0 /\ ~Recorded(w, t)
                     THEN Append(w.history[t], [attempt |-> w.attempt[t], status |-> s,
                                                receipt |-> w.receipt[t]])
                     ELSE w.history[t]
    <3>1. CASE t \in open /\ w.attempt[t] > 0
      <4>1. closed.task[t] = s
        BY <1>2, <3>1
      <4> QED
        BY <1>5, <3>1, <4>1
    <3>2. CASE ~(t \in open /\ w.attempt[t] > 0)
      BY <1>2, <3>2
    <3> QED
      BY <3>1, <3>2
  <2> QED
    BY <2>1 DEF h
<1>7. v.current # None => v.phase[v.current] \in {"pending", "blocked"}
  <2> DEFINE P == {q \in Phases : closed.phase[q] \in {"pending", "blocked"}}
  <2>1. P \in SUBSET Ids
    BY DEF Ids
  <2>2. NextOpenPhase(closed) = First(P)
    BY DEF NextOpenPhase
  <2> QED
    BY <1>4, <2>1, <2>2, FirstIn
<1>8. v.status = "completed" => \A q \in Phases : v.phase[q] \in Done
  BY <1>4 DEF over
<1>9. v.currentTask = [w.currentTask EXCEPT ![p] = None] /\ v.receipt = w.receipt
  BY <1>2, <1>4
<1>10. v.status \in {"completed", "blocked", "active"}
  BY <1>4 DEF over
<1>11. v.attempt = w.attempt /\ \A t \in Tasks : v.task[t] = IF t \in open THEN s ELSE w.task[t]
  <2>1. v.attempt = closed.attempt /\ v.task = closed.task
    BY <1>1, <1>3 DEF Workflow
  <2> QED
    BY <1>2, <2>1
<1> HIDE DEF v, open
<1> QED
  BY <1>4, <1>6, <1>7, <1>8, <1>9, <1>10, <1>11 DEF v, open, s, CommittedPhase

-----------------------------------------------------------------------------
\* The fields of a workflow, one by one.
LEMMA WorkflowFields ==
  ASSUME NEW w \in Workflow
  PROVE  /\ w.phase \in [Phases -> Statuses] /\ w.task \in [Tasks -> Statuses]
         /\ w.attempt \in [Tasks -> 0..AttemptCap] /\ w.receipt \in [Tasks -> 0..AttemptCap]
         /\ w.history \in [Tasks -> Seq(AttemptRecord)]
         /\ w.currentTask \in [Phases -> Tasks \cup {None}]
         /\ w.current \in Phases \cup {None}
         /\ \A t \in Tasks : /\ w.attempt[t] \in Nat /\ w.receipt[t] \in Nat
                             /\ Len(w.history[t]) \in Nat
<1>1. /\ w.phase \in [Phases -> Statuses] /\ w.task \in [Tasks -> Statuses]
      /\ w.attempt \in [Tasks -> 0..AttemptCap] /\ w.receipt \in [Tasks -> 0..AttemptCap]
      /\ w.history \in [Tasks -> Seq(AttemptRecord)]
      /\ w.currentTask \in [Phases -> Tasks \cup {None}]
      /\ w.current \in Phases \cup {None}
  BY DEF Workflow
<1>2. \A t \in Tasks : w.history[t] \in Seq(AttemptRecord)
  BY <1>1
<1>3. \A t \in Tasks : Len(w.history[t]) \in Nat
  BY <1>2
<1>4. 0..AttemptCap \subseteq Nat
  BY DEF AttemptCap
<1>5. \A t \in Tasks : w.attempt[t] \in 0..AttemptCap /\ w.receipt[t] \in 0..AttemptCap
  BY <1>1
<1>6. \A t \in Tasks : w.attempt[t] \in Nat /\ w.receipt[t] \in Nat
  BY <1>4, <1>5
<1> QED
  BY <1>1, <1>3, <1>6

\* What a Change leaves of the order of the work.
LEMMA ChangeKeepsOrder ==
  ASSUME NEW w, Sound(w), NEW v \in Workflow, Change(w, v)
  PROVE  PhasesCloseWhole(v) /\ AttemptsInOrder(v)
<1>1. PhasesCloseWhole(v)
  <2> SUFFICES ASSUME NEW t \in Tasks, v.phase[PhaseOf[t]] \in Done
               PROVE  v.task[t] \in Done
    BY DEF PhasesCloseWhole
  <2>1. PhaseOf[t] \in Phases /\ t \in TasksOf(PhaseOf[t])
    BY PlanShape DEF TasksOf
  <2> QED
    BY <2>1 DEF Change, Sound, PhasesCloseWhole
<1>2. AttemptsInOrder(v)
  <2> SUFFICES ASSUME NEW t \in Tasks, v.attempt[t] > 0,
                      NEW d \in DependsOn[t] \cup DependsOn[PhaseOf[t]],
                      NEW u \in WorkOf(d)
               PROVE  v.task[u] \in Done
    <3>1. \A x \in Tasks : v.attempt[x] <= MaxAttempts[x]
      BY DEF Change, Sound, AttemptsInOrder
    <3> QED
      BY <3>1 DEF AttemptsInOrder
  <2>1. d \in Ids
    BY PlanShape DEF Ids
  <2>2. u \in Tasks
    BY <2>1 DEF WorkOf, TasksOf, Ids
  <2>3. w.task[u] \in Done
    <3>1. CASE v.attempt[t] = w.attempt[t]
      BY <3>1 DEF Sound, AttemptsInOrder
    <3>2. CASE v.attempt[t] # w.attempt[t]
      <4>1. Settled(w, d)
        BY <3>2 DEF Change, TaskDependenciesReady, PhaseDependenciesReady
      <4> QED
        BY <2>2, <4>1 DEF Settled, WorkOf, TasksOf, Sound, PhasesCloseWhole
    <3> QED
      BY <3>1, <3>2
  <2> QED
    BY <2>2, <2>3 DEF Change
<1> QED
  BY <1>1, <1>2

LEMMA HistoryTypes ==
  ASSUME NEW w \in Workflow, NEW t \in Tasks
  PROVE  /\ w.history[t] \in Seq(AttemptRecord)
         /\ \A i \in DOMAIN w.history[t] : w.history[t][i].attempt \in Nat
<1>1. w.history[t] \in Seq(AttemptRecord)
  BY WorkflowFields
<1>2. \A i \in DOMAIN w.history[t] : w.history[t][i] \in AttemptRecord
  BY <1>1
<1>3. \A x \in AttemptRecord : x.attempt \in Nat
  BY DEF AttemptRecord
<1> QED
  BY <1>1, <1>2, <1>3

RecordsUpTo(h, a) ==
  /\ \A i \in DOMAIN h : /\ h[i].attempt <= a
                         /\ h[i].status \in Done \cup {"blocked"}
                         /\ h[i].receipt \in {0, h[i].attempt}
  /\ \A i, j \in DOMAIN h : i < j => h[i].attempt < h[j].attempt

\* A record of the attempt that is ending, added to a history in order that has
\* none of it.
Longer(h, k, a) ==
  /\ RecordsUpTo(k, a)
  /\ \E i \in DOMAIN k : k[i].attempt = a
  /\ Len(h) <= Len(k)
  /\ \A i \in DOMAIN h : k[i] = h[i]

LEMMA RecordAdded ==
  ASSUME NEW h \in Seq(AttemptRecord), NEW a \in 0..AttemptCap, NEW s \in Done \cup {"blocked"},
         NEW c \in {0, a},
         RecordsUpTo(h, a), \A i \in DOMAIN h : h[i].attempt # a
  PROVE  Longer(h, Append(h, [attempt |-> a, status |-> s, receipt |-> c]), a)
<1> DEFINE r == [attempt |-> a, status |-> s, receipt |-> c]
           k == Append(h, r)
<1>1. /\ DOMAIN k = 1..(Len(h) + 1) /\ DOMAIN h = 1..Len(h) /\ Len(h) \in Nat
      /\ Len(k) = Len(h) + 1
      /\ \A i \in DOMAIN h : k[i] = h[i]
      /\ k[Len(h) + 1] = r
  BY DEF AttemptRecord, Statuses, Done
<1>2. r.attempt = a /\ r.status = s /\ r.receipt = c
  OBVIOUS
<1>3. \A i \in DOMAIN h : h[i].attempt \in 0..AttemptCap
  <2>1. \A i \in DOMAIN h : h[i] \in AttemptRecord
    OBVIOUS
  <2>2. \A x \in AttemptRecord : x.attempt \in 0..AttemptCap
    BY DEF AttemptRecord
  <2> QED
    BY <2>1, <2>2
<1> HIDE DEF r, k
<1>4. \A i \in DOMAIN k : i \in DOMAIN h \/ i = Len(h) + 1
  BY <1>1
<1>5. \A i \in DOMAIN k : /\ k[i].attempt <= a
                          /\ k[i].status \in Done \cup {"blocked"}
                          /\ k[i].receipt \in {0, k[i].attempt}
  BY <1>1, <1>2, <1>4 DEF RecordsUpTo
<1>6. ASSUME NEW i \in DOMAIN k, NEW j \in DOMAIN k, i < j
      PROVE  k[i].attempt < k[j].attempt
  <2>1. i \in DOMAIN h
    BY <1>1, <1>6
  <2>2. h[i].attempt \in Int /\ h[i].attempt <= a /\ h[i].attempt # a
    BY <1>3, <2>1 DEF RecordsUpTo
  <2> QED
    BY <1>1, <1>2, <1>4, <1>6, <2>1, <2>2 DEF RecordsUpTo
<1>7. \E i \in DOMAIN k : k[i].attempt = a
  BY <1>1, <1>2
<1> QED
  BY <1>1, <1>5, <1>6, <1>7 DEF RecordsUpTo, Longer, k, r

\* What one command does to the memory of attempts.
Remembers(w, v) ==
  \A t \in Tasks :
    /\ v.attempt[t] >= w.attempt[t]
    /\ Len(w.history[t]) <= Len(v.history[t])
    /\ \A i \in DOMAIN w.history[t] : v.history[t][i] = w.history[t][i]
    /\ w.task[t] = "in_progress" /\ v.task[t] \in Done \cup {"blocked"} => Recorded(v, t)

\* Every command but a start leaves the attempt counters and the receipts
\* alone.  It may add the record of the last attempt, where there is none, to
\* the history of a task it leaves closed, blocked or pending; a task whose
\* history it leaves alone keeps its status, goes back to pending, or was not
\* running and has no unrecorded attempt.
Keeps(w, v, u) ==
  /\ v.history[u] = w.history[u]
  /\ \/ v.task[u] \in {w.task[u], "pending"}
     \/ /\ v.task[u] # "in_progress" /\ w.task[u] # "in_progress"
        /\ w.attempt[u] = 0 \/ Recorded(w, u)

Adds(w, v, u) ==
  /\ ~Recorded(w, u)
  /\ v.task[u] # "in_progress"
  /\ \E s \in Done \cup {"blocked"} :
       v.history[u] = Append(w.history[u], [attempt |-> w.attempt[u], status |-> s,
                                            receipt |-> w.receipt[u]])

LEMMA CommandKeepsHistory ==
  ASSUME NEW w, Sound(w), NEW v \in Workflow,
         v.receipt = w.receipt, v.attempt = w.attempt,
         \A u \in Tasks : Keeps(w, v, u) \/ Adds(w, v, u),
         \A u \in ContextTasks : v.task[u] = "completed" =>
           w.task[u] = "completed" \/ ContextLoaded(w, u)
  PROVE  ReceiptsMatch(v) /\ HistoryInOrder(v) /\ Remembers(w, v)
<1>0. w \in Workflow
  BY DEF Sound
<1> SUFFICES ASSUME NEW u \in Tasks
             PROVE  /\ v.receipt[u] # 0 => u \in ContextTasks /\ v.receipt[u] = v.attempt[u]
                    /\ u \in ContextTasks /\ v.task[u] = "completed" => ContextLoaded(v, u)
                    /\ \A i \in DOMAIN v.history[u] :
                         /\ v.history[u][i].receipt \in {0, v.history[u][i].attempt}
                         /\ v.history[u][i].attempt <= v.attempt[u]
                         /\ v.history[u][i].status \in Done \cup {"blocked"}
                    /\ \A i, j \in DOMAIN v.history[u] :
                         i < j => v.history[u][i].attempt < v.history[u][j].attempt
                    /\ v.task[u] = "blocked" /\ v.attempt[u] > 0 => Recorded(v, u)
                    /\ v.task[u] = "in_progress" => v.attempt[u] > 0 /\ ~Recorded(v, u)
                    /\ v.attempt[u] >= w.attempt[u]
                    /\ Len(w.history[u]) <= Len(v.history[u])
                    /\ \A i \in DOMAIN w.history[u] : v.history[u][i] = w.history[u][i]
                    /\ w.task[u] = "in_progress" /\ v.task[u] \in Done \cup {"blocked"}
                         => Recorded(v, u)
  BY DEF ReceiptsMatch, HistoryInOrder, Remembers
<1>1. /\ w.receipt[u] # 0 => u \in ContextTasks /\ w.receipt[u] = w.attempt[u]
      /\ u \in ContextTasks /\ w.task[u] = "completed" => ContextLoaded(w, u)
      /\ \A i \in DOMAIN w.history[u] :
           /\ w.history[u][i].receipt \in {0, w.history[u][i].attempt}
           /\ w.history[u][i].attempt <= w.attempt[u]
           /\ w.history[u][i].status \in Done \cup {"blocked"}
      /\ \A i, j \in DOMAIN w.history[u] :
           i < j => w.history[u][i].attempt < w.history[u][j].attempt
      /\ w.task[u] = "blocked" /\ w.attempt[u] > 0 => Recorded(w, u)
      /\ w.task[u] = "in_progress" => w.attempt[u] > 0 /\ ~Recorded(w, u)
  BY DEF Sound, ReceiptsMatch, HistoryInOrder
<1>2. w.attempt[u] \in Nat /\ Len(w.history[u]) \in Nat
  BY <1>0, WorkflowFields
<1>3. /\ v.receipt[u] # 0 => u \in ContextTasks /\ v.receipt[u] = v.attempt[u]
      /\ u \in ContextTasks /\ v.task[u] = "completed" => ContextLoaded(v, u)
      /\ v.attempt[u] = w.attempt[u] /\ v.attempt[u] >= w.attempt[u]
  BY <1>1, <1>2 DEF ContextLoaded
<1>4. CASE Keeps(w, v, u)
  <2>1. v.history[u] = w.history[u] /\ Recorded(v, u) = Recorded(w, u)
    BY <1>3, <1>4 DEF Keeps, Recorded
  <2>2. \/ v.task[u] \in {w.task[u], "pending"}
        \/ /\ v.task[u] # "in_progress" /\ w.task[u] # "in_progress"
           /\ w.attempt[u] = 0 \/ Recorded(w, u)
    BY <1>4 DEF Keeps
  <2>3. /\ v.task[u] = "blocked" /\ v.attempt[u] > 0 => Recorded(v, u)
        /\ v.task[u] = "in_progress" => v.attempt[u] > 0 /\ ~Recorded(v, u)
        /\ w.task[u] = "in_progress" /\ v.task[u] \in Done \cup {"blocked"} => Recorded(v, u)
    BY <1>1, <1>2, <1>3, <2>1, <2>2 DEF Done
  <2> QED
    BY <1>1, <1>2, <1>3, <2>1, <2>3
<1>5. CASE Adds(w, v, u)
  <2> DEFINE h == w.history[u]
             k == v.history[u]
             a == w.attempt[u]
             c == w.receipt[u]
  <2>1. h \in Seq(AttemptRecord) /\ a \in 0..AttemptCap
    BY <1>0, WorkflowFields
  <2>2. c \in {0, a}
    BY <1>1
  <2>3. PICK s \in Done \cup {"blocked"} :
          k = Append(h, [attempt |-> a, status |-> s, receipt |-> c])
    BY <1>5 DEF Adds
  <2>4. \A i \in DOMAIN h : h[i].attempt # a
    BY <1>5 DEF Adds, Recorded
  <2> HIDE DEF h, k, a, c
  <2>5. RecordsUpTo(h, a)
    BY <1>1 DEF RecordsUpTo, h, a
  <2>6. /\ RecordsUpTo(k, a)
        /\ \E i \in DOMAIN k : k[i].attempt = a
        /\ Len(h) <= Len(k)
        /\ \A i \in DOMAIN h : k[i] = h[i]
    <3>1. Longer(h, Append(h, [attempt |-> a, status |-> s, receipt |-> c]), a)
      BY <2>1, <2>2, <2>4, <2>5, RecordAdded
    <3>2. Longer(h, k, a)
      BY <2>3, <3>1
    <3> QED
      BY <3>2 DEF Longer
  <2>7. Recorded(v, u)
    BY <1>3, <2>6 DEF Recorded, k, a
  <2>8. v.task[u] # "in_progress"
    BY <1>5 DEF Adds
  <2> QED
    BY <1>3, <2>6, <2>7, <2>8 DEF h, k, a, RecordsUpTo
<1> QED
  BY <1>4, <1>5

LEMMA StartTaskSound ==
  ASSUME NEW w, Sound(w), NEW t \in Tasks, CanStartTask(w, t)
  PROVE  Sound(StartTask(w, t)) /\ Remembers(w, StartTask(w, t))
<1> DEFINE v == StartTask(w, t)
           p == PhaseOf[t]
<1>1. w \in Workflow
  BY DEF Sound
<1>2. v \in Workflow /\ Change(w, v)
  BY <1>1, StartTaskChange
<1>3. /\ v.phase = [w.phase EXCEPT ![p] = "in_progress"]
      /\ v.task = [w.task EXCEPT ![t] = "in_progress"]
      /\ v.attempt = [w.attempt EXCEPT ![t] = @ + 1]
      /\ v.receipt = [w.receipt EXCEPT ![t] = IF t \in ContextTasks THEN w.attempt[t] + 1 ELSE @]
      /\ v.history = w.history
      /\ v.currentTask = [w.currentTask EXCEPT ![p] = t]
      /\ v.current = p
      /\ v.status = "active"
  BY <1>1, StartTaskEffect, StartTaskFields
<1>4. /\ p \in Phases /\ t \in TasksOf(p) /\ t # None
      /\ w.task[t] = "pending"
  BY PlanShape DEF TasksOf, CanStartTask, Ids
<1>5. /\ \A u \in Tasks : w.attempt[u] \in Nat
      /\ w.phase \in [Phases -> Statuses] /\ w.task \in [Tasks -> Statuses]
      /\ w.attempt \in [Tasks -> 0..AttemptCap] /\ w.receipt \in [Tasks -> 0..AttemptCap]
      /\ w.currentTask \in [Phases -> Tasks \cup {None}]
      /\ \A u \in Tasks : Len(w.history[u]) \in Nat
  BY <1>1, WorkflowFields
<1> HIDE DEF v, p
<1>6. PhasesCloseWhole(v) /\ AttemptsInOrder(v)
  BY <1>2, ChangeKeepsOrder
<1>7. ReceiptsMatch(v)
  <2> SUFFICES ASSUME NEW u \in Tasks
               PROVE  /\ v.receipt[u] # 0 => u \in ContextTasks /\ v.receipt[u] = v.attempt[u]
                      /\ u \in ContextTasks /\ v.task[u] = "completed" => ContextLoaded(v, u)
                      /\ \A i \in DOMAIN v.history[u] :
                           v.history[u][i].receipt \in {0, v.history[u][i].attempt}
    BY DEF ReceiptsMatch
  <2>1. /\ w.receipt[u] # 0 => u \in ContextTasks /\ w.receipt[u] = w.attempt[u]
        /\ u \in ContextTasks /\ w.task[u] = "completed" => ContextLoaded(w, u)
        /\ \A i \in DOMAIN w.history[u] :
             w.history[u][i].receipt \in {0, w.history[u][i].attempt}
    BY DEF Sound, ReceiptsMatch
  <2>2. CASE u = t
    BY <1>3, <1>5, <2>1, <2>2
  <2>3. CASE u # t
    BY <1>3, <1>5, <2>1, <2>3 DEF ContextLoaded
  <2> QED
    BY <2>2, <2>3
<1>8. HistoryInOrder(v)
  <2> SUFFICES ASSUME NEW u \in Tasks
               PROVE  /\ \A i \in DOMAIN v.history[u] :
                           /\ v.history[u][i].attempt <= v.attempt[u]
                           /\ v.history[u][i].status \in Done \cup {"blocked"}
                      /\ \A i, j \in DOMAIN v.history[u] :
                           i < j => v.history[u][i].attempt < v.history[u][j].attempt
                      /\ v.task[u] = "blocked" /\ v.attempt[u] > 0 => Recorded(v, u)
                      /\ v.task[u] = "in_progress" => v.attempt[u] > 0 /\ ~Recorded(v, u)
    BY DEF HistoryInOrder
  <2>1. /\ \A i \in DOMAIN w.history[u] :
             /\ w.history[u][i].attempt <= w.attempt[u]
             /\ w.history[u][i].status \in Done \cup {"blocked"}
        /\ \A i, j \in DOMAIN w.history[u] :
             i < j => w.history[u][i].attempt < w.history[u][j].attempt
        /\ w.task[u] = "blocked" /\ w.attempt[u] > 0 => Recorded(w, u)
        /\ w.task[u] = "in_progress" => w.attempt[u] > 0 /\ ~Recorded(w, u)
    BY DEF Sound, HistoryInOrder
  <2>2. CASE u = t
    <3>1. /\ v.task[u] = "in_progress" /\ v.attempt[u] = w.attempt[u] + 1
          /\ v.history[u] = w.history[u]
      BY <1>3, <1>5, <2>2
    <3>2. \A i \in DOMAIN w.history[u] : w.history[u][i].attempt \in Nat
      BY <1>1, HistoryTypes
    <3>3. \A i \in DOMAIN v.history[u] :
            v.history[u][i].attempt <= v.attempt[u] /\ v.history[u][i].attempt # v.attempt[u]
      BY <1>5, <2>1, <2>2, <3>1, <3>2
    <3>4. ~Recorded(v, u)
      BY <3>3 DEF Recorded
    <3>5. v.attempt[u] > 0
      BY <1>5, <3>1
    <3> QED
      BY <2>1, <3>1, <3>3, <3>4, <3>5
  <2>3. CASE u # t
    <3>1. v.task[u] = w.task[u] /\ v.attempt[u] = w.attempt[u] /\ v.history[u] = w.history[u]
      BY <1>3, <1>5, <2>3
    <3> QED
      BY <2>1, <3>1 DEF Recorded
  <2> QED
    BY <2>2, <2>3
<1>9. PointersAreOpen(v)
  <2>1. v.phase[v.current] \notin Done
    BY <1>3, <1>4, <1>5 DEF Done
  <2>2. ASSUME NEW q \in Phases, v.currentTask[q] # None
        PROVE  v.currentTask[q] \in OpenTasks(v, q)
    <3>1. CASE q = p
      BY <1>3, <1>4, <1>5, <3>1 DEF OpenTasks, TasksOf, Done
    <3>2. CASE q # p
      <4>1. w.currentTask[q] \in OpenTasks(w, q) /\ v.currentTask[q] = w.currentTask[q]
        BY <1>3, <1>4, <1>5, <2>2, <3>2 DEF Sound, PointersAreOpen
      <4> QED
        BY <1>3, <1>4, <1>5, <4>1 DEF OpenTasks, TasksOf, Done
    <3> QED
      BY <3>1, <3>2
  <2> QED
    BY <2>1, <2>2 DEF PointersAreOpen
<1>10. ClosesWhole(v)
  BY <1>3 DEF ClosesWhole
<1>11. Remembers(w, v)
  <2> SUFFICES ASSUME NEW u \in Tasks
               PROVE  /\ v.attempt[u] >= w.attempt[u]
                      /\ w.task[u] = "in_progress" => v.task[u] = "in_progress"
    BY <1>3, <1>5 DEF Remembers, Done
  <2> QED
    BY <1>3, <1>5
<1>12. Sound(v)
  BY <1>2, <1>6, <1>7, <1>8, <1>9, <1>10 DEF Sound
<1> QED
  BY <1>11, <1>12 DEF v

LEMMA StartPhaseSound ==
  ASSUME NEW w, Sound(w), NEW p \in Phases, CanStartPhase(w, p)
  PROVE  Sound(StartPhase(w, p)) /\ Remembers(w, StartPhase(w, p))
<1>1. w \in Workflow
  BY DEF Sound
<1>2. CASE HasContext(p)
  <2>1. NextEligible(w, p) \in Tasks /\ CanStartTask(w, NextEligible(w, p))
    BY <1>1, <1>2, NextEligibleType DEF CanStartPhase
  <2> QED
    BY <1>2, <2>1, StartTaskSound DEF StartPhase
<1>3. CASE ~HasContext(p)
  <2> DEFINE v == StartPhase(w, p)
  <2>1. v \in Workflow /\ Change(w, v)
    BY <1>1, StartPhaseChange
  <2>2. /\ v.phase = [w.phase EXCEPT ![p] = "in_progress"]
        /\ v.task = w.task /\ v.attempt = w.attempt /\ v.receipt = w.receipt
        /\ v.history = w.history /\ v.currentTask = w.currentTask
        /\ v.current = p /\ v.status = "active"
    BY <1>1, <1>3, StartPhaseEffect, StartPhaseFields
  <2> HIDE DEF v
  <2>3. PhasesCloseWhole(v) /\ AttemptsInOrder(v)
    BY <2>1, ChangeKeepsOrder
  <2>4. ReceiptsMatch(v) /\ HistoryInOrder(v) /\ Remembers(w, v)
    <3>1. \A u \in Tasks : Keeps(w, v, u)
      BY <2>2 DEF Keeps
    <3> QED
      BY <2>1, <2>2, <3>1, CommandKeepsHistory
  <2>5. PointersAreOpen(v)
    BY <1>1, <2>2, WorkflowFields DEF Sound, PointersAreOpen, OpenTasks, Done
  <2>6. ClosesWhole(v)
    BY <2>2 DEF ClosesWhole
  <2> QED
    BY <2>1, <2>3, <2>4, <2>5, <2>6 DEF Sound, v
<1> QED
  BY <1>2, <1>3

LEMMA CommitTaskSound ==
  ASSUME NEW w, Sound(w), NEW t \in Tasks, NEW o \in Outcomes, CanCommitTask(w, t, o)
  PROVE  Sound(CommitTask(w, t, o)) /\ Remembers(w, CommitTask(w, t, o))
<1> DEFINE v == CommitTask(w, t, o)
           ph == PhaseOf[t]
           st == StatusFromOutcome(o)
<1>0. w \in Workflow
  BY DEF Sound
<1>1. w \in Workflow /\ v \in Workflow /\ Change(w, v)
  BY <1>0, CommitTaskChange
<1>2. /\ \E x \in {"in_progress", "blocked"} : v.phase = [w.phase EXCEPT ![ph] = x]
      /\ v.task = [w.task EXCEPT ![t] = st]
      /\ v.attempt = w.attempt
  BY <1>0, CommitTaskEffect
<1>3. /\ v.task = [w.task EXCEPT ![t] = st]
      /\ v.attempt = w.attempt /\ v.receipt = w.receipt
      /\ v.history = [w.history EXCEPT ![t] = Append(@, [attempt |-> w.attempt[t],
                                                        status  |-> st,
                                                        receipt |-> w.receipt[t]])]
      /\ v.current = ph /\ v.status \in {"blocked", "active"}
      /\ \A q \in Phases \ {ph} : v.currentTask[q] = w.currentTask[q]
      /\ v.currentTask[ph] # None => /\ v.currentTask[ph] \in TasksOf(ph)
                                    /\ v.task[v.currentTask[ph]] = "pending"
  <2>1. CommittedTask(w, v, t, o)
    BY <1>0, CommitTaskFields
  <2> QED
    BY <1>2, <2>1 DEF CommittedTask
<1>4. st \in Done \cup {"blocked"} /\ (st = "completed" => o = "completed")
  BY DEF StatusFromOutcome, Outcomes, Done
<1>5. /\ ph \in Phases /\ t \in TasksOf(ph) /\ w.task[t] = "in_progress"
      /\ o = "completed" /\ t \in ContextTasks => ContextLoaded(w, t)
  BY PlanShape DEF TasksOf, CanCommitTask
<1>6. /\ w.phase \in [Phases -> Statuses] /\ w.task \in [Tasks -> Statuses]
      /\ w.history \in [Tasks -> Seq(AttemptRecord)]
  BY <1>1, WorkflowFields
<1> HIDE DEF v, ph, st
<1>7. PhasesCloseWhole(v) /\ AttemptsInOrder(v)
  BY <1>1, ChangeKeepsOrder
<1>8. ReceiptsMatch(v) /\ HistoryInOrder(v) /\ Remembers(w, v)
  <2>1. ASSUME NEW u \in Tasks, u # t
        PROVE  Keeps(w, v, u)
    BY <1>3, <1>6, <2>1 DEF Keeps
  <2>2. Adds(w, v, t)
    <3>1. ~Recorded(w, t)
      BY <1>5 DEF Sound, HistoryInOrder
    <3> QED
      BY <1>3, <1>4, <1>6, <3>1 DEF Adds, Done
  <2>3. \A u \in ContextTasks : v.task[u] = "completed" =>
          w.task[u] = "completed" \/ ContextLoaded(w, u)
    BY <1>3, <1>4, <1>5, <1>6, PlanShape
  <2>4. \A u \in Tasks : Keeps(w, v, u) \/ Adds(w, v, u)
    BY <2>1, <2>2
  <2> QED
    BY <1>1, <1>3, <2>3, <2>4, CommandKeepsHistory
<1>9. PointersAreOpen(v)
  <2>1. v.phase[v.current] \notin Done
    BY <1>2, <1>3, <1>5, <1>6 DEF Done
  <2>2. ASSUME NEW q \in Phases, v.currentTask[q] # None
        PROVE  v.currentTask[q] \in OpenTasks(v, q)
    <3>1. CASE q = ph
      BY <1>3, <2>2, <3>1 DEF OpenTasks, Done
    <3>2. CASE q # ph
      <4>1. w.currentTask[q] \in OpenTasks(w, q) /\ v.currentTask[q] = w.currentTask[q]
        BY <1>3, <2>2, <3>2 DEF Sound, PointersAreOpen
      <4> QED
        BY <1>3, <1>5, <1>6, <3>2, <4>1 DEF OpenTasks, TasksOf
    <3> QED
      BY <3>1, <3>2
  <2> QED
    BY <2>1, <2>2 DEF PointersAreOpen
<1>10. ClosesWhole(v)
  BY <1>3 DEF ClosesWhole
<1> QED
  BY <1>1, <1>7, <1>8, <1>9, <1>10 DEF Sound, v

LEMMA RetryTaskSound ==
  ASSUME NEW w, Sound(w), NEW t \in Tasks, NEW option \in Tasks \cup {None},
         CanRetryTask(w, t, option)
  PROVE  Sound(RetryTask(w, t, option)) /\ Remembers(w, RetryTask(w, t, option))
<1> DEFINE v == RetryTask(w, t, option)
           p == PhaseOf[t]
<1>0. w \in Workflow
  BY DEF Sound
<1>1. w \in Workflow /\ v \in Workflow /\ Change(w, v)
  BY <1>0, RetryTaskChange
<1>r. RetriedTask(w, v, t)
  BY <1>0, RetryTaskFields
<1>2. PICK r \in TasksOf(p) : /\ w.task[r] \notin Done
                              /\ v.task = [w.task EXCEPT ![r] = "pending"]
                              /\ v.currentTask = [w.currentTask EXCEPT ![p] = r]
  BY <1>r DEF RetriedTask
<1>3. /\ v.phase = [w.phase EXCEPT ![p] = "in_progress"]
      /\ v.attempt = w.attempt /\ v.receipt = w.receipt
      /\ v.history = [w.history EXCEPT ![t] = KeepRecord(w, t)]
      /\ v.current = p /\ v.status = "active"
  BY <1>0, <1>r, RetryTaskEffect DEF RetriedTask
<1>4. /\ p \in Phases /\ r \in Tasks /\ PhaseOf[r] = p /\ r # None
      /\ w.task[t] = "blocked"
  BY PlanShape DEF TasksOf, CanRetryTask, Ids
<1>5. /\ w.phase \in [Phases -> Statuses] /\ w.task \in [Tasks -> Statuses]
      /\ w.history \in [Tasks -> Seq(AttemptRecord)]
      /\ w.currentTask \in [Phases -> Tasks \cup {None}]
  BY <1>1, WorkflowFields
<1> HIDE DEF v, p
<1>6. PhasesCloseWhole(v) /\ AttemptsInOrder(v)
  BY <1>1, ChangeKeepsOrder
<1>7. \A u \in Tasks : v.task[u] \in {w.task[u], "pending"}
  BY <1>2, <1>4, <1>5
<1>8. ReceiptsMatch(v) /\ HistoryInOrder(v) /\ Remembers(w, v)
  <2>1. ASSUME NEW u \in Tasks, u # t \/ Recorded(w, u)
        PROVE  Keeps(w, v, u)
    BY <1>3, <1>5, <1>7, <2>1 DEF Keeps, KeepRecord
  <2>2. ASSUME ~Recorded(w, t)
        PROVE  Adds(w, v, t)
    <3>1. v.history[t] = Append(w.history[t], [attempt |-> w.attempt[t], status |-> "blocked",
                                               receipt |-> w.receipt[t]])
      BY <1>3, <1>4, <1>5, <2>2 DEF KeepRecord, RecordOf
    <3>2. v.task[t] # "in_progress"
      BY <1>4, <1>7
    <3> QED
      BY <2>2, <3>1, <3>2 DEF Adds
  <2>3. \A u \in ContextTasks : v.task[u] = "completed" => w.task[u] = "completed"
    BY <1>7, PlanShape
  <2>4. \A u \in Tasks : Keeps(w, v, u) \/ Adds(w, v, u)
    BY <2>1, <2>2
  <2> QED
    BY <1>1, <1>3, <2>3, <2>4, CommandKeepsHistory
<1>9. PointersAreOpen(v)
  <2>1. v.phase[v.current] \notin Done
    BY <1>3, <1>4, <1>5 DEF Done
  <2>2. ASSUME NEW q \in Phases, v.currentTask[q] # None
        PROVE  v.currentTask[q] \in OpenTasks(v, q)
    <3>1. CASE q = p
      BY <1>2, <1>4, <1>5, <3>1 DEF OpenTasks, TasksOf, Done
    <3>2. CASE q # p
      <4>1. w.currentTask[q] \in OpenTasks(w, q) /\ v.currentTask[q] = w.currentTask[q]
        BY <1>2, <1>4, <1>5, <2>2, <3>2 DEF Sound, PointersAreOpen
      <4> QED
        BY <1>7, <4>1 DEF OpenTasks, TasksOf, Done
    <3> QED
      BY <3>1, <3>2
  <2> QED
    BY <2>1, <2>2 DEF PointersAreOpen
<1>10. ClosesWhole(v)
  BY <1>3 DEF ClosesWhole
<1> QED
  BY <1>1, <1>6, <1>8, <1>9, <1>10 DEF Sound, v

LEMMA CommitPhaseSound ==
  ASSUME NEW w, Sound(w), NEW p \in Phases, NEW o \in Outcomes, NEW strict \in BOOLEAN,
         NEW verdict \in Verdicts, CanCommitPhase(w, p, o, strict)
  PROVE  /\ Sound(CommitPhase(w, p, o, verdict))
         /\ Remembers(w, CommitPhase(w, p, o, verdict))
<1> DEFINE v == CommitPhase(w, p, o, verdict)
           st == StatusFromOutcome(o)
<1>0. w \in Workflow
  BY DEF Sound
<1>1. v \in Workflow /\ Change(w, v)
  BY <1>0, CommitPhaseChange
<1>2. CommittedPhase(w, v, p, o)
  BY <1>0, CommitPhaseFields
<1>3. /\ v.phase = [w.phase EXCEPT ![p] = st]
      /\ v.task = [t \in Tasks |-> IF t \in TasksOf(p) /\ w.task[t] \notin Done
                                    THEN st ELSE w.task[t]]
      /\ v.attempt = w.attempt
  BY <1>0, CommitPhaseEffect
<1>4. /\ v.receipt = w.receipt
      /\ v.history = [t \in Tasks |->
            IF t \in OpenTasks(w, p) /\ w.attempt[t] > 0 /\ ~Recorded(w, t)
              THEN Append(w.history[t], [attempt |-> w.attempt[t], status |-> st,
                                         receipt |-> w.receipt[t]])
              ELSE w.history[t]]
      /\ v.currentTask = [w.currentTask EXCEPT ![p] = None]
  BY <1>2 DEF CommittedPhase
<1>5. st \in Done \cup {"blocked"} /\ st # "in_progress" /\ (st = "completed" => o = "completed")
  BY DEF StatusFromOutcome, Outcomes, Done
<1>6. /\ w.phase \in [Phases -> Statuses]
      /\ w.currentTask \in [Phases -> Tasks \cup {None}]
      /\ \A t \in Tasks : w.attempt[t] \in Nat
  BY <1>0, WorkflowFields
<1> HIDE DEF v, st
<1>7. PhasesCloseWhole(v) /\ AttemptsInOrder(v)
  BY <1>1, ChangeKeepsOrder
<1>8. ReceiptsMatch(v) /\ HistoryInOrder(v) /\ Remembers(w, v)
  <2>1. ASSUME NEW u \in Tasks
        PROVE  Keeps(w, v, u) \/ Adds(w, v, u)
    <3>1. CASE u \notin OpenTasks(w, p)
      <4>1. v.history[u] = w.history[u] /\ v.task[u] = w.task[u]
        BY <1>3, <1>4, <3>1 DEF OpenTasks
      <4> QED
        BY <4>1 DEF Keeps
    <3>2. CASE u \in OpenTasks(w, p) /\ w.attempt[u] > 0 /\ ~Recorded(w, u)
      <4>1. v.task[u] = st
        BY <1>3, <3>2 DEF OpenTasks
      <4>2. v.history[u] = Append(w.history[u], [attempt |-> w.attempt[u], status |-> st,
                                                 receipt |-> w.receipt[u]])
        BY <1>4, <3>2
      <4> QED
        BY <1>5, <3>2, <4>1, <4>2 DEF Adds
    <3>3. CASE u \in OpenTasks(w, p) /\ (w.attempt[u] = 0 \/ Recorded(w, u))
      <4>1. v.task[u] = st
        BY <1>3, <3>3 DEF OpenTasks
      <4>2. v.history[u] = w.history[u]
        BY <1>4, <3>3
      <4>3. w.task[u] # "in_progress"
        BY <1>6, <3>3 DEF Sound, HistoryInOrder
      <4> QED
        BY <1>5, <3>3, <4>1, <4>2, <4>3 DEF Keeps
    <3> QED
      BY <1>6, <3>1, <3>2, <3>3
  <2>2. ASSUME NEW u \in ContextTasks, v.task[u] = "completed", w.task[u] # "completed"
        PROVE  ContextLoaded(w, u)
    <3>1. u \in Tasks
      BY PlanShape
    <3>2. u \in TasksOf(p) /\ o = "completed" /\ w.task[u] # "skipped"
      BY <1>3, <1>5, <2>2, <3>1 DEF Done
    <3> QED
      BY <2>2, <3>2 DEF CanCommitPhase
  <2> QED
    BY <1>1, <1>3, <1>4, <2>1, <2>2, CommandKeepsHistory
<1>9. PointersAreOpen(v)
  <2>1. v.current # None => v.phase[v.current] \notin Done
    BY <1>2 DEF CommittedPhase, Done
  <2>2. ASSUME NEW q \in Phases, v.currentTask[q] # None
        PROVE  v.currentTask[q] \in OpenTasks(v, q)
    <3>1. q # p
      BY <1>4, <1>6, <2>2
    <3>2. w.currentTask[q] \in OpenTasks(w, q) /\ v.currentTask[q] = w.currentTask[q]
      BY <1>4, <1>6, <2>2, <3>1 DEF Sound, PointersAreOpen
    <3> QED
      BY <1>3, <3>1, <3>2 DEF OpenTasks, TasksOf
  <2> QED
    BY <2>1, <2>2 DEF PointersAreOpen
<1>10. ClosesWhole(v)
  BY <1>2 DEF ClosesWhole, CommittedPhase
<1> QED
  BY <1>1, <1>7, <1>8, <1>9, <1>10 DEF Sound, v

\* Commands that touch neither a status nor the memory of attempts.
LEMMA UntouchedWork ==
  ASSUME NEW w, Sound(w), NEW v \in Workflow,
         v.phase = w.phase, v.task = w.task, v.attempt = w.attempt, v.receipt = w.receipt,
         v.history = w.history, v.currentTask = w.currentTask,
         v.current \in {w.current, None}, ClosesWhole(v)
  PROVE  Sound(v) /\ Remembers(w, v)
<1>1. PhasesCloseWhole(v) /\ AttemptsInOrder(v)
  BY DEF Sound, PhasesCloseWhole, AttemptsInOrder
<1>2. ReceiptsMatch(v) /\ HistoryInOrder(v) /\ Remembers(w, v)
  <2>1. \A u \in Tasks : Keeps(w, v, u)
    BY DEF Keeps
  <2> QED
    BY <2>1, CommandKeepsHistory
<1>3. PointersAreOpen(v)
  BY DEF Sound, PointersAreOpen, OpenTasks
<1> QED
  BY <1>1, <1>2, <1>3 DEF Sound

LEMMA CommitFinalSound ==
  ASSUME NEW w, Sound(w), NEW o \in Outcomes, NEW verdict \in Verdicts, CanCommitFinal(w, o)
  PROVE  Sound(CommitFinal(w, o, verdict)) /\ Remembers(w, CommitFinal(w, o, verdict))
<1> DEFINE v == CommitFinal(w, o, verdict)
<1>1. w \in Workflow
  BY DEF Sound
<1>2. v \in Workflow
  BY <1>1, CommitFinalEffect
<1>3. /\ v.phase = w.phase /\ v.task = w.task /\ v.attempt = w.attempt
      /\ v.receipt = w.receipt /\ v.history = w.history /\ v.currentTask = w.currentTask
      /\ v.current \in {w.current, None}
      /\ v.status = "completed" => w.status = "completed" \/ o = "completed"
  BY <1>1 DEF CommitFinal, Workflow
<1> HIDE DEF v
<1>4. ClosesWhole(v)
  BY <1>3 DEF ClosesWhole, Sound, CanCommitFinal
<1> QED
  BY <1>2, <1>3, <1>4, UntouchedWork DEF v

LEMMA JudgedSound ==
  ASSUME NEW w, Sound(w), NEW verdict \in Verdicts
  PROVE  Sound([w EXCEPT !.judgment = verdict]) /\ Remembers(w, [w EXCEPT !.judgment = verdict])
<1> DEFINE v == [w EXCEPT !.judgment = verdict]
<1>1. w \in Workflow
  BY DEF Sound
<1>2. v \in Workflow
  BY <1>1 DEF Workflow
<1>3. /\ v.phase = w.phase /\ v.task = w.task /\ v.attempt = w.attempt
      /\ v.receipt = w.receipt /\ v.history = w.history /\ v.currentTask = w.currentTask
      /\ v.current = w.current /\ v.status = w.status
  BY <1>1 DEF Workflow
<1> HIDE DEF v
<1>4. ClosesWhole(v)
  BY <1>3 DEF ClosesWhole, Sound
<1> QED
  BY <1>2, <1>3, <1>4, UntouchedWork DEF v

LEMMA CheckpointedSound ==
  ASSUME NEW w, Sound(w), NEW p \in Phases
  PROVE  /\ Sound([w EXCEPT !.bound = @ \cup {p}])
         /\ Remembers(w, [w EXCEPT !.bound = @ \cup {p}])
<1> DEFINE v == [w EXCEPT !.bound = @ \cup {p}]
<1>1. w \in Workflow
  BY DEF Sound
<1>2. v \in Workflow
  BY <1>1 DEF Workflow
<1>3. /\ v.phase = w.phase /\ v.task = w.task /\ v.attempt = w.attempt
      /\ v.receipt = w.receipt /\ v.history = w.history /\ v.currentTask = w.currentTask
      /\ v.current = w.current /\ v.status = w.status
  BY <1>1 DEF Workflow
<1> HIDE DEF v
<1>4. ClosesWhole(v)
  BY <1>3 DEF ClosesWhole, Sound
<1> QED
  BY <1>2, <1>3, <1>4, UntouchedWork DEF v

\* What `workflow start` writes, and what there is before it.
LEMMA NewWorkflowSound == Sound(NewWorkflow) /\ Sound(NoWorkflow)
<1> DEFINE w == [status      |-> "active",
                 current     |-> First(Phases),
                 phase       |-> [p \in Phases |-> "pending"],
                 currentTask |-> [p \in Phases |-> None],
                 task        |-> [t \in Tasks |-> "pending"],
                 attempt     |-> [t \in Tasks |-> 0],
                 receipt     |-> [t \in Tasks |-> 0],
                 history     |-> [t \in Tasks |-> <<>>],
                 bound       |-> {},
                 judgment    |-> "none"]
<1>1. First(Phases) \in Phases
  BY FirstType, PlanShape DEF Ids
<1>2. w \in Workflow
  BY <1>1 DEF Workflow, Statuses, Verdicts, AttemptCap
<1>3. /\ w.status = "active" /\ w.current \in Phases
      /\ w.phase = [p \in Phases |-> "pending"]
      /\ w.currentTask = [p \in Phases |-> None]
      /\ w.task = [t \in Tasks |-> "pending"]
      /\ w.attempt = [t \in Tasks |-> 0]
      /\ w.receipt = [t \in Tasks |-> 0]
      /\ w.history = [t \in Tasks |-> <<>>]
  BY <1>1
<1>4. NewWorkflow = Normalized(w)
  BY DEF NewWorkflow
<1> HIDE DEF w
<1>5. PhasesCloseWhole(w) /\ AttemptsInOrder(w)
  BY <1>3, PlanShape DEF PhasesCloseWhole, AttemptsInOrder, Done
<1>6. ReceiptsMatch(w) /\ HistoryInOrder(w)
  BY <1>3 DEF ReceiptsMatch, HistoryInOrder, ContextLoaded, Recorded
<1>7. PointersAreOpen(w) /\ ClosesWhole(w)
  BY <1>3 DEF PointersAreOpen, ClosesWhole, Done
<1>8. Sound(NewWorkflow)
  BY <1>2, <1>4, <1>5, <1>6, <1>7, NormalizedSound DEF Sound
<1>9. Sound(NoWorkflow)
  <2> DEFINE n == NewWorkflow
             v == NoWorkflow
  <2>1. n \in Workflow
    BY NewWorkflowType
  <2>2. v = [n EXCEPT !.status = "absent"]
    BY DEF NoWorkflow
  <2> HIDE DEF n, v
  <2>3. /\ v \in Workflow
        /\ v.phase = n.phase /\ v.task = n.task /\ v.attempt = n.attempt
        /\ v.receipt = n.receipt /\ v.history = n.history /\ v.currentTask = n.currentTask
        /\ v.current = n.current /\ v.status = "absent"
    BY <2>1, <2>2 DEF Workflow
  <2>4. Sound(n)
    BY <1>8 DEF n
  <2>5. ClosesWhole(v)
    BY <2>3 DEF ClosesWhole
  <2> QED
    BY <2>3, <2>4, <2>5, UntouchedWork DEF v
<1> QED
  BY <1>8, <1>9

\* Every step starts a new workflow, or keeps a sound one sound and forgets no
\* attempt.
LEMMA StepSound ==
  ASSUME Sound(wf), Next
  PROVE  Sound(wf') /\ (wf' = NewWorkflow \/ Remembers(wf, wf'))
<1>0. wf \in Workflow
  BY DEF Sound
<1>1. ASSUME NEW v, Sound(v), Remembers(wf, v), Write(v)
      PROVE  Sound(wf') /\ Remembers(wf, wf')
  <2>1. v \in Workflow /\ wf' = Normalized(v)
    BY <1>1 DEF Sound, Write
  <2>2. wf'.task = v.task /\ wf'.attempt = v.attempt /\ wf'.history = v.history
    BY <2>1, NormalizedType
  <2>3. Remembers(wf, wf')
    BY <1>1, <2>2 DEF Remembers, Recorded
  <2> QED
    BY <1>1, <2>1, <2>3, NormalizedSound
<1>2. \A verdict \in VerdictsFor(wf) : verdict \in Verdicts
  BY InputShape DEF VerdictsFor, Verdicts
<1>3. CASE WorkflowStart
  BY <1>3, NewWorkflowType, NewWorkflowSound DEF WorkflowStart, Write
<1>4. CASE Judge
  <2>1. PICK verdict \in FreshVerdicts : Write([wf EXCEPT !.judgment = verdict])
    BY <1>4 DEF Judge
  <2>2. verdict \in Verdicts
    BY InputShape DEF Verdicts
  <2> QED
    BY <1>1, <2>1, <2>2, JudgedSound
<1>5. ASSUME NEW p \in Phases, PhaseStart(p)
      PROVE  Sound(wf') /\ Remembers(wf, wf')
  BY <1>1, <1>5, StartPhaseSound DEF PhaseStart
<1>6. ASSUME NEW p \in CheckpointPhases, RuntimeCheckpoint(p)
      PROVE  Sound(wf') /\ Remembers(wf, wf')
  BY <1>1, <1>6, InputShape, CheckpointedSound DEF RuntimeCheckpoint
<1>7. ASSUME NEW p \in Phases, NEW o \in Outcomes, PhaseCommit(p, o)
      PROVE  Sound(wf') /\ Remembers(wf, wf')
  BY <1>1, <1>2, <1>7, CommitPhaseSound DEF PhaseCommit
<1>8. ASSUME NEW t \in Tasks, TaskStart(t)
      PROVE  Sound(wf') /\ Remembers(wf, wf')
  BY <1>1, <1>8, StartTaskSound DEF TaskStart
<1>9. ASSUME NEW t \in Tasks, NEW o \in Outcomes, TaskCommit(t, o)
      PROVE  Sound(wf') /\ Remembers(wf, wf')
  BY <1>1, <1>9, CommitTaskSound DEF TaskCommit
<1>10. ASSUME NEW t \in Tasks, NEW option \in Tasks \cup {None}, TaskRetry(t, option)
       PROVE  Sound(wf') /\ Remembers(wf, wf')
  BY <1>1, <1>10, RetryTaskSound DEF TaskRetry
<1>11. ASSUME NEW o \in Outcomes, FinalCommit(o)
       PROVE  Sound(wf') /\ Remembers(wf, wf')
  BY <1>1, <1>2, <1>11, CommitFinalSound DEF FinalCommit
<1> QED
  BY <1>3, <1>4, <1>5, <1>6, <1>7, <1>8, <1>9, <1>10, <1>11 DEF Next

LEMMA SoundIsAccepted ==
  ASSUME NEW w, Sound(w)
  PROVE  CaptureAccepts(w)
  BY DEF Sound, ReceiptsMatch, CaptureAccepts, ContextLoaded

\* Records of distinct attempts in order: the i-th is of attempt i - 1 or later.
LEMMA RecordsAreFew ==
  ASSUME NEW h \in Seq(AttemptRecord), NEW a \in Nat,
         \A i \in DOMAIN h : h[i].attempt <= a,
         \A i, j \in DOMAIN h : i < j => h[i].attempt < h[j].attempt
  PROVE  Len(h) <= a + 1
<1>1. /\ Len(h) \in Nat /\ DOMAIN h = 1..Len(h)
      /\ \A i \in DOMAIN h : h[i].attempt \in Nat
  <2>1. \A i \in DOMAIN h : h[i] \in AttemptRecord
    OBVIOUS
  <2>2. \A x \in AttemptRecord : x.attempt \in Nat
    BY DEF AttemptRecord
  <2> QED
    BY <2>1, <2>2
<1> DEFINE Early == {i \in DOMAIN h : h[i].attempt < i - 1}
<1>2. Early = {}
  <2> SUFFICES ASSUME Early # {} PROVE FALSE
    OBVIOUS
  <2>1. Early \in SUBSET Nat
    BY <1>1
  <2>2. PICK m \in Early : \A n \in Early : m <= n
    BY <2>1, SmallestNumber
  <2>3. m \in 1..Len(h) /\ m # 1 /\ h[m].attempt < m - 1
    BY <1>1, <2>2
  <2>4. PICK j \in 1..Len(h) : m = j + 1
    BY <1>1, <2>3
  <2>5. j \notin Early
    BY <2>2, <2>4
  <2>6. h[j].attempt >= j - 1 /\ h[j].attempt < h[m].attempt
    BY <1>1, <2>3, <2>4, <2>5
  <2> QED
    BY <1>1, <2>3, <2>4, <2>6
<1>3. CASE Len(h) > 0
  <2>1. Len(h) \in DOMAIN h /\ Len(h) \notin Early
    BY <1>1, <1>2, <1>3
  <2>2. h[Len(h)].attempt >= Len(h) - 1 /\ h[Len(h)].attempt <= a
    BY <1>1, <2>1
  <2> QED
    BY <1>1, <2>1, <2>2
<1> QED
  BY <1>1, <1>3

\* What a sound file remembers is bounded by its plan.
LEMMA SoundIsBounded == Sound(wf) => HistoryFitsTheBudget
<1> SUFFICES ASSUME Sound(wf), NEW t \in Tasks
             PROVE  /\ wf.attempt[t] <= MaxAttempts[t]
                    /\ Len(wf.history[t]) <= wf.attempt[t] + 1
  BY DEF HistoryFitsTheBudget
<1>1. wf \in Workflow
  BY DEF Sound
<1>2. wf.history[t] \in Seq(AttemptRecord) /\ wf.attempt[t] \in Nat
  BY <1>1, HistoryTypes, WorkflowFields
<1> DEFINE h == wf.history[t]
           a == wf.attempt[t]
<1>3. /\ \A i \in DOMAIN h : h[i].attempt <= a
      /\ \A i, j \in DOMAIN h : i < j => h[i].attempt < h[j].attempt
  BY DEF Sound, HistoryInOrder
<1>4. h \in Seq(AttemptRecord) /\ a \in Nat
  BY <1>2
<1>5. a <= MaxAttempts[t]
  BY DEF Sound, AttemptsInOrder
<1> HIDE DEF h, a
<1>6. Len(h) <= a + 1
  BY <1>3, <1>4, RecordsAreFew
<1> QED
  BY <1>5, <1>6 DEF h, a

\* What a command makes of a sound file is accepted.
LEMMA SoundIsNeverRefused == Sound(wf) => CaptureNeverRefuses
<1> SUFFICES ASSUME Sound(wf) PROVE CaptureNeverRefuses
  OBVIOUS
<1>1. wf.judgment \in Verdicts /\ FALSE \in BOOLEAN
  BY DEF Sound, Workflow
<1>2. \A t \in Tasks : CanStartTask(wf, t) => CaptureAccepts(StartTask(wf, t))
  BY StartTaskSound, SoundIsAccepted
<1>3. \A t \in Tasks, o \in Outcomes :
        CanCommitTask(wf, t, o) => CaptureAccepts(CommitTask(wf, t, o))
  BY CommitTaskSound, SoundIsAccepted
<1>4. \A t, r \in Tasks : CanRetryTask(wf, t, r) => CaptureAccepts(RetryTask(wf, t, r))
  BY RetryTaskSound, SoundIsAccepted
<1>5. \A p \in Phases, o \in Outcomes :
        CanCommitPhase(wf, p, o, FALSE) => CaptureAccepts(CommitPhase(wf, p, o, wf.judgment))
  BY <1>1, CommitPhaseSound, SoundIsAccepted
<1> QED
  BY <1>2, <1>3, <1>4, <1>5 DEF CaptureNeverRefuses

\* An acyclic plan leaves no workflow stuck.  Take the open ids; one of them
\* waits for no other open id (PlanIsAcyclic).
LEMMA AcyclicIsNeverStuck == TypeOK => NoDependencyDeadlock
<1> SUFFICES ASSUME TypeOK,
                    NEW q \in Phases, wf.phase[q] \notin Done,
                    \A t \in Tasks : wf.task[t] \notin {"in_progress", "blocked"},
                    \A p \in Phases : \/ wf.phase[p] \in Done
                                      \/ ~PhaseDependenciesReady(wf, p)
                                      \/ ~\A t \in TasksOf(p) : wf.task[t] \in Done
             PROVE  \E t \in Tasks : wf.task[t] = "pending" /\ TaskDependenciesReady(wf, t)
  BY DEF NoDependencyDeadlock
<1> DEFINE S == {x \in Ids : ~Settled(wf, x)}
<1>1. q \in S
  BY DEF Settled, Ids
<1>2. PICK x \in S : Edges(x) \cap S = {}
  BY <1>1, PlanIsAcyclic DEF Acyclic
<1>3. \A y \in Edges(x) : y \in Ids
  BY PlanShape DEF Edges, TasksOf, Ids
<1>4. \A y \in Edges(x) : Settled(wf, y)
  BY <1>2, <1>3
<1>5. CASE x \in Phases
  <2>1. PhaseDependenciesReady(wf, x)
    BY <1>4, <1>5 DEF PhaseDependenciesReady, Edges
  <2>2. \A t \in TasksOf(x) : wf.task[t] \in Done
    BY <1>4, <1>5, PlanShape DEF Edges, Settled, TasksOf
  <2>3. wf.phase[x] \notin Done
    BY <1>5 DEF Settled
  <2> QED
    BY <1>5, <2>1, <2>2, <2>3
<1>6. CASE x \notin Phases
  <2>1. x \in Tasks /\ wf.task[x] \notin Done
    BY <1>6 DEF Settled, Ids
  <2>2. wf.task[x] = "pending"
    BY <2>1 DEF TypeOK, Workflow, Statuses, Done
  <2>3. TaskDependenciesReady(wf, x)
    BY <1>4, <1>6 DEF TaskDependenciesReady, PhaseDependenciesReady, Edges
  <2> QED
    BY <2>1, <2>2, <2>3
<1> QED
  BY <1>5, <1>6

-----------------------------------------------------------------------------
(* The theorems. *)

\* Type correctness: whatever commands run, the file holds a well-formed
\* workflow.
THEOREM TypeCorrect == Spec => []TypeOK
<1>1. Init => TypeOK
  BY NoWorkflowType DEF Init, TypeOK
<1>2. TypeOK /\ [Next]_wf => TypeOK'
  BY StepChange DEF TypeOK
<1> QED
  BY <1>1, <1>2, PTL DEF Spec

\* A completed or skipped task keeps its status until a new workflow starts:
\* every command other than `workflow start` leaves it alone.
THEOREM SettledTasksAreFinal == Spec => SettledTasksStay
<1>1. TypeOK /\ [Next]_wf =>
        [wf' # NewWorkflow =>
           \A t \in Tasks : wf.task[t] \in Done => wf'.task[t] = wf.task[t]]_wf
  BY StepChange DEF TypeOK, Change
<1> QED
  BY <1>1, TypeCorrect, PTL DEF Spec, SettledTasksStay

\* The invariant holds: whatever the commands, the file is sound.
THEOREM AlwaysSound == Spec => []Sound(wf)
<1>1. Init => Sound(wf)
  BY NewWorkflowSound DEF Init
<1>2. Sound(wf) /\ [Next]_wf => Sound(wf)'
  <2> SUFFICES ASSUME Sound(wf), [Next]_wf PROVE Sound(wf')
    BY DEF Sound, PhasesCloseWhole, AttemptsInOrder, ReceiptsMatch, HistoryInOrder,
           PointersAreOpen, ClosesWhole, ContextLoaded, Recorded, OpenTasks
  <2> QED
    BY StepSound
<1> QED
  BY <1>1, <1>2, PTL DEF Spec

\* No attempt is spent before the work it depends on is settled, and that work
\* stays settled for as long as the workflow lasts.
THEOREM DependenciesComeFirst == Spec => []SettledInOrder
<1>1. Sound(wf) => SettledInOrder
  BY DEF Sound, PhasesCloseWhole, AttemptsInOrder, SettledInOrder,
         ClosedPhasesHaveNoOpenTask, AttemptsFollowDependencies
<1> QED
  BY <1>1, AlwaysSound, PTL

\* Attempts stay within the budget of their task, and the records of a task
\* within its attempts, so that the file cannot outgrow its plan by them.
THEOREM HistoryIsBounded == Spec => []HistoryFitsTheBudget
  BY AlwaysSound, SoundIsBounded, PTL

\* No command that passed its checks is refused by the continuity capture.
THEOREM CapturesAreAccepted == Spec => []CaptureNeverRefuses
  BY AlwaysSound, SoundIsNeverRefused, PTL

\* A workflow that calls itself completed has nothing open, and a completed
\* task had the context of its last attempt.
THEOREM CompletedIsDone == Spec => []CompletedMeansDone
<1>1. Sound(wf) => CompletedMeansDone
  <2> SUFFICES ASSUME Sound(wf) PROVE CompletedMeansDone
    OBVIOUS
  <2>1. CompletedContextIsLoaded
    BY PlanShape DEF Sound, ReceiptsMatch, CompletedContextIsLoaded
  <2>2. CompletedMeansClosed
    BY PlanShape DEF Sound, ClosesWhole, PhasesCloseWhole, CompletedMeansClosed
  <2> QED
    BY <2>1, <2>2 DEF CompletedMeansDone
<1> QED
  BY <1>1, AlwaysSound, PTL

\* Neither the current phase nor the current task of a phase is settled.
THEOREM CurrentIsOpen == Spec => []CurrentWorkIsOpen
<1>1. Sound(wf) => CurrentWorkIsOpen
  BY DEF Sound, PointersAreOpen, CurrentWorkIsOpen, OpenTasks
<1> QED
  BY <1>1, AlwaysSound, PTL

\* No attempt is forgotten until a new workflow starts, and the histories stay
\* in order.
THEOREM HistoryIsKept == Spec => HistoryIsComplete
<1>1. Sound(wf) /\ [Next]_wf =>
        [/\ HistoryIsOrdered'
         /\ wf' # NewWorkflow =>
              \A t \in Tasks : LET h == wf.history[t] h2 == wf'.history[t] IN
                /\ wf'.attempt[t] >= wf.attempt[t]
                /\ Len(h) <= Len(h2)
                /\ \A i \in DOMAIN h : h2[i] = h[i]
                /\ wf.task[t] = "in_progress" /\ wf'.task[t] \in Done \cup {"blocked"}
                     => Recorded(wf', t)]_wf
  <2> SUFFICES ASSUME Sound(wf), Next
               PROVE  HistoryIsOrdered' /\ (wf' = NewWorkflow \/ Remembers(wf, wf'))
    BY DEF Remembers
  <2>1. Sound(wf') /\ (wf' = NewWorkflow \/ Remembers(wf, wf'))
    BY StepSound
  <2>2. HistoryIsOrdered'
    BY <2>1 DEF Sound, HistoryInOrder, HistoryIsOrdered, Recorded
  <2> QED
    BY <2>1, <2>2
<1> QED
  BY <1>1, AlwaysSound, PTL DEF Spec, HistoryIsComplete

\* An acyclic plan never deadlocks: as long as a phase is open there is a task
\* to finish, to retry or to start, or a phase to commit.
THEOREM NeverStuck == Spec => []NoDependencyDeadlock
  BY TypeCorrect, AcyclicIsNeverStuck, PTL

-----------------------------------------------------------------------------
(* Which blocked tasks come back. *)

\* Before a workflow is started no task is blocked.
Pristine == wf.status = "absent" => \A t \in Tasks : wf.task[t] = "pending"

\* No command leaves the project without a workflow.
LEMMA StepIsStarted ==
  ASSUME Sound(wf), Next
  PROVE  wf'.status # "absent"
<1>0. wf \in Workflow
  BY DEF Sound
<1>1. ASSUME NEW v \in Workflow, v.status # "absent", Write(v)
      PROVE  wf'.status # "absent"
  BY <1>1, NormalizedType DEF Write
<1>2. \A verdict \in VerdictsFor(wf) : verdict \in Verdicts
  BY InputShape DEF VerdictsFor, Verdicts
<1>3. CASE WorkflowStart
  <2>1. NewWorkflow.status = "active"
    BY DEF NewWorkflow, Normalized
  <2> QED
    BY <1>1, <1>3, <2>1, NewWorkflowType DEF WorkflowStart
<1>4. CASE Judge
  <2>1. PICK verdict \in FreshVerdicts : Write([wf EXCEPT !.judgment = verdict])
    BY <1>4 DEF Judge
  <2>2. verdict \in Verdicts
    BY InputShape DEF Verdicts
  <2>3. [wf EXCEPT !.judgment = verdict].status # "absent"
    BY <1>0, <1>4 DEF Judge, Workflow
  <2> QED
    BY <1>1, <2>1, <2>2, <2>3, JudgedSound DEF Sound
<1>5. ASSUME NEW p \in Phases, PhaseStart(p)
      PROVE  wf'.status # "absent"
  <2>1. StartPhase(wf, p).status = "active"
    BY <1>0 DEF StartPhase, StartTask, Workflow
  <2> QED
    BY <1>1, <1>5, <2>1, StartPhaseSound DEF PhaseStart, Sound
<1>6. ASSUME NEW p \in CheckpointPhases, RuntimeCheckpoint(p)
      PROVE  wf'.status # "absent"
  <2>1. [wf EXCEPT !.bound = @ \cup {p}].status # "absent"
    BY <1>0, <1>6 DEF RuntimeCheckpoint, Workflow
  <2> QED
    BY <1>1, <1>6, <2>1, InputShape, CheckpointedSound DEF RuntimeCheckpoint, Sound
<1>7. ASSUME NEW p \in Phases, NEW o \in Outcomes, PhaseCommit(p, o)
      PROVE  wf'.status # "absent"
  <2>1. PICK strict \in BOOLEAN, verdict \in VerdictsFor(wf) :
          CanCommitPhase(wf, p, o, strict) /\ Write(CommitPhase(wf, p, o, verdict))
    BY <1>7 DEF PhaseCommit
  <2>2. CommitPhase(wf, p, o, verdict).status # "absent"
    BY <1>0, <1>2, CommitPhaseFields DEF CommittedPhase
  <2> QED
    BY <1>1, <1>2, <2>1, <2>2, CommitPhaseSound DEF Sound
<1>8. ASSUME NEW t \in Tasks, TaskStart(t)
      PROVE  wf'.status # "absent"
  BY <1>0, <1>1, <1>8, StartTaskFields, StartTaskSound DEF TaskStart, Sound
<1>9. ASSUME NEW t \in Tasks, NEW o \in Outcomes, TaskCommit(t, o)
      PROVE  wf'.status # "absent"
  BY <1>0, <1>1, <1>9, CommitTaskFields, CommitTaskSound DEF TaskCommit, CommittedTask, Sound
<1>10. ASSUME NEW t \in Tasks, NEW option \in Tasks \cup {None}, TaskRetry(t, option)
       PROVE  wf'.status # "absent"
  BY <1>0, <1>1, <1>10, RetryTaskFields, RetryTaskSound DEF TaskRetry, RetriedTask, Sound
<1>11. ASSUME NEW o \in Outcomes, FinalCommit(o)
       PROVE  wf'.status # "absent"
  <2>1. PICK verdict \in VerdictsFor(wf) :
          CanCommitFinal(wf, o) /\ Write(CommitFinal(wf, o, verdict))
    BY <1>11 DEF FinalCommit
  <2>2. CommitFinal(wf, o, verdict).status # "absent"
    BY <1>0, <2>1 DEF CommitFinal, CanCommitFinal, Workflow
  <2> QED
    BY <1>1, <1>2, <2>1, <2>2, CommitFinalSound DEF Sound
<1> QED
  BY <1>3, <1>4, <1>5, <1>6, <1>7, <1>8, <1>9, <1>10, <1>11 DEF Next

LEMMA AlwaysPristine == Spec => []Pristine
<1>1. Init => Pristine
  BY NoWorkflowType DEF Init, Pristine
<1>2. Sound(wf) /\ Pristine /\ [Next]_wf => Pristine'
  BY StepIsStarted DEF Pristine
<1> QED
  BY <1>1, <1>2, AlwaysSound, PTL DEF Spec

\* A blocked task with attempts left can be retried as its own recovery: for
\* every plan, `task-retry --recovery-task-id` with the task itself goes through.
RetriedAsItself ==
  \A t \in Tasks :
    wf.task[t] = "blocked" /\ wf.attempt[t] < MaxAttempts[t] => CanRetryTask(wf, t, t)

THEOREM BlockedTasksComeBack == Spec => []RetriedAsItself
<1>1. Pristine => RetriedAsItself
  BY PlanShape DEF Pristine, RetriedAsItself, CanRetryTask, RecoveryTask, TasksOf, Ids, Done
<1> QED
  BY <1>1, AlwaysPristine, PTL

\* "A blocked task can be retried until `max_attempts`" holds of every plan in
\* which no task names another one as its recovery: a declared recovery task,
\* as the plan of the README has, is the only reason for a refusal.
THEOREM BlockedTasksAreRetried ==
  ASSUME \A t \in Tasks : Recovery[t] \in {None, t}
  PROVE  Spec => []BlockedTaskCanBeRetried
<1>1. RetriedAsItself => BlockedTaskCanBeRetried
  BY PlanShape DEF RetriedAsItself, BlockedTaskCanBeRetried, CanRetryTask, RecoveryTask
<1> QED
  BY <1>1, BlockedTasksComeBack, PTL
=============================================================================
