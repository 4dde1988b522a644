---------------------- MODULE WorkflowProcessesProofs ----------------------
(***************************************************************************)
(* Theorems about WorkflowProcesses, for any number of processes, any      *)
(* budgets and every plan the compiler accepts.                            *)
(***************************************************************************)
EXTENDS WorkflowProcesses, ManagedWorkflowProofs

-----------------------------------------------------------------------------
(* What a command makes of the copy it read. *)

\* The judgments a workflow can carry: none, or one that was resolved.
Judgeable(w) == w.judgment \in FreshVerdicts \cup {"none"}

\* The verdicts a command is run with.
VerdictOf(c) == IF c.op = "judge" THEN FreshVerdicts ELSE {None}

LEMMA FreshAreVerdicts ==
  /\ FreshVerdicts \subseteq Verdicts
  /\ \A w : VerdictsFor(w) \subseteq FreshVerdicts \cup {"none"}
  BY InputShape DEF Verdicts, VerdictsFor

\* The judgment a command writes is the one it read, none or a fresh one.
LEMMA ResultJudgeable ==
  ASSUME NEW w \in Workflow, Judgeable(w), NEW c \in Commands, Can(w, c),
         NEW verdict \in VerdictOf(c)
  PROVE  Judgeable(Result(w, c, verdict))
<1>1. w.judgment \in Verdicts
  BY DEF Workflow
<1>2. ASSUME NEW t \in Tasks PROVE StartTask(w, t).judgment = w.judgment
  BY DEF StartTask, Workflow
<1>3. ASSUME NEW t \in Tasks, NEW o PROVE CommitTask(w, t, o).judgment = w.judgment
  BY DEF CommitTask, Workflow
<1>4. ASSUME NEW t \in Tasks, NEW option PROVE RetryTask(w, t, option).judgment = w.judgment
  BY DEF RetryTask, Workflow
<1>5. ASSUME NEW p \in Phases, NEW o PROVE CommitPhase(w, p, o, w.judgment).judgment = w.judgment
  BY DEF CommitPhase, Workflow
<1>6. ASSUME NEW o PROVE CommitFinal(w, o, w.judgment).judgment = w.judgment
  BY DEF CommitFinal, Workflow
<1>7. ASSUME NEW p \in Phases, CanStartPhase(w, p) PROVE StartPhase(w, p).judgment = w.judgment
  <2>1. CASE HasContext(p)
    <3>1. NextEligible(w, p) \in Tasks
      BY <1>7, <2>1, NextEligibleType DEF CanStartPhase
    <3> QED
      BY <1>2, <2>1, <3>1 DEF StartPhase
  <2>2. CASE ~HasContext(p)
    BY <2>2 DEF StartPhase, Workflow
  <2> QED
    BY <2>1, <2>2
<1>8. NewWorkflow.judgment = "none"
  BY DEF NewWorkflow, Normalized
<1>9. CASE c.op = "start"
  BY <1>8, <1>9 DEF Result, Judgeable
<1>10. CASE c.op = "judge"
  BY <1>10 DEF Result, Judgeable, VerdictOf, Workflow
<1>11. CASE c.op = "phaseStart"
  BY <1>7, <1>11 DEF Result, Judgeable, Commands, Can
<1>12. CASE c.op = "runtimeCheckpoint"
  BY <1>12 DEF Result, Judgeable, Workflow
<1>13. CASE c.op = "phaseCommit"
  BY <1>5, <1>13 DEF Result, Judgeable, Commands
<1>14. CASE c.op = "taskStart"
  BY <1>2, <1>14 DEF Result, Judgeable, Commands
<1>15. CASE c.op = "taskCommit"
  BY <1>3, <1>15 DEF Result, Judgeable, Commands
<1>16. CASE c.op = "taskRetry"
  BY <1>4, <1>16 DEF Result, Judgeable, Commands
<1>17. CASE c.op = "finalCommit"
  BY <1>6, <1>17 DEF Result, Judgeable
<1> QED
  BY <1>9, <1>10, <1>11, <1>12, <1>13, <1>14, <1>15, <1>16, <1>17 DEF Commands

\* A command that was accepted on a sound copy makes a sound one of it.
LEMMA ResultSound ==
  ASSUME NEW w, Sound(w), NEW c \in Commands, Can(w, c), NEW verdict \in VerdictOf(c)
  PROVE  Sound(Result(w, c, verdict))
<1>1. w.judgment \in Verdicts
  BY DEF Sound, Workflow
<1>2. CASE c.op = "start"
  BY <1>2, NewWorkflowSound DEF Result
<1>3. CASE c.op = "judge"
  BY <1>3, FreshAreVerdicts, JudgedSound DEF Result, VerdictOf
<1>4. CASE c.op = "phaseStart"
  <2>1. c.phase \in Phases /\ CanStartPhase(w, c.phase)
    BY <1>4 DEF Commands, Can
  <2> QED
    BY <1>4, <2>1, StartPhaseSound DEF Result
<1>5. CASE c.op = "runtimeCheckpoint"
  <2>1. c.phase \in Phases
    BY <1>5, InputShape DEF Commands
  <2> QED
    BY <1>5, <2>1, CheckpointedSound DEF Result
<1>6. CASE c.op = "phaseCommit"
  <2>1. /\ c.phase \in Phases /\ c.outcome \in Outcomes /\ c.strict \in BOOLEAN
        /\ CanCommitPhase(w, c.phase, c.outcome, c.strict)
    BY <1>6 DEF Commands, Can
  <2> QED
    BY <1>1, <1>6, <2>1, CommitPhaseSound DEF Result
<1>7. CASE c.op = "taskStart"
  <2>1. c.task \in Tasks /\ CanStartTask(w, c.task)
    BY <1>7 DEF Commands, Can
  <2> QED
    BY <1>7, <2>1, StartTaskSound DEF Result
<1>8. CASE c.op = "taskCommit"
  <2>1. c.task \in Tasks /\ c.outcome \in Outcomes /\ CanCommitTask(w, c.task, c.outcome)
    BY <1>8 DEF Commands, Can
  <2> QED
    BY <1>8, <2>1, CommitTaskSound DEF Result
<1>9. CASE c.op = "taskRetry"
  <2>1. /\ c.task \in Tasks /\ c.option \in Tasks \cup {None}
        /\ CanRetryTask(w, c.task, c.option)
    BY <1>9 DEF Commands, Can
  <2> QED
    BY <1>9, <2>1, RetryTaskSound DEF Result
<1>10. CASE c.op = "finalCommit"
  <2>1. c.outcome \in Outcomes /\ CanCommitFinal(w, c.outcome)
    BY <1>10 DEF Commands, Can
  <2> QED
    BY <1>1, <1>10, <2>1, CommitFinalSound DEF Result
<1> QED
  BY <1>2, <1>3, <1>4, <1>5, <1>6, <1>7, <1>8, <1>9, <1>10 DEF Commands

\* No command that writes its copy again leaves the workflow absent.
LEMMA ResultPresent ==
  ASSUME NEW w \in Workflow, NEW c \in Commands, Can(w, c), WritesAgain(c),
         NEW verdict \in VerdictOf(c)
  PROVE  Result(w, c, verdict).status # "absent"
<1>1. CASE c.op = "start"
  <2>1. NewWorkflow.status = "active"
    BY DEF NewWorkflow, Normalized
  <2> QED
    BY <1>1, <2>1 DEF Result
<1>2. CASE c.op = "phaseCommit"
  BY <1>2 DEF Result, CommitPhase, Workflow, Commands
<1>3. CASE c.op = "finalCommit"
  BY <1>3 DEF Result, CommitFinal, Workflow, Commands, Can, CanCommitFinal
<1> QED
  BY <1>1, <1>2, <1>3 DEF WritesAgain

\* The judgment has no part in the pointers that normalizing fills in.
LEMMA NormalizedJudged ==
  ASSUME NEW w \in Workflow, NEW j
  PROVE  Normalized([w EXCEPT !.judgment = j]) = [Normalized(w) EXCEPT !.judgment = j]
<1> DEFINE v == [w EXCEPT !.judgment = j]
<1>1. v.task = w.task /\ v.currentTask = w.currentTask
  BY DEF Workflow
<1>2. \A p \in Phases : DefaultTask(v, p) = DefaultTask(w, p)
  BY <1>1 DEF DefaultTask, InProgress
<1>3. [p \in Phases |-> IF v.currentTask[p] # None THEN v.currentTask[p] ELSE DefaultTask(v, p)]
      = [p \in Phases |-> IF w.currentTask[p] # None THEN w.currentTask[p] ELSE DefaultTask(w, p)]
  BY <1>1, <1>2
<1> DEFINE k == [p \in Phases |-> IF w.currentTask[p] # None THEN w.currentTask[p]
                                  ELSE DefaultTask(w, p)]
<1>4. Normalized(v) = [v EXCEPT !.currentTask = k] /\ Normalized(w) = [w EXCEPT !.currentTask = k]
  BY <1>3 DEF Normalized
<1> HIDE DEF k
<1> QED
  BY <1>4 DEF Workflow

-----------------------------------------------------------------------------
(* The invariant of any interleaving: the file is sound, and so is the copy  *)
(* of every process, on which its command was accepted.  Nothing is said of  *)
(* how old the copy is.                                                      *)

Held ==
  {x \in [pc : {"resolving", "loading", "working", "closing"}, command : Commands,
          held : Workflow] :
     /\ Sound(x.held)
     /\ Judgeable(x.held)
     /\ x.pc = "resolving" => x.command.op = "finalCommit"
     /\ x.pc = "closing" => WritesAgain(x.command) /\ x.held.status # "absent"
     /\ x.pc # "closing" => Can(x.held, x.command)}

ProcessesSound ==
  /\ Sound(wf)
  /\ Judgeable(wf)
  /\ wf = Normalized(wf)
  /\ proc \in [Processes -> {Idle} \cup Held]

LEMMA HeldFields ==
  ASSUME NEW x \in Held
  PROVE  /\ x.pc \in {"resolving", "loading", "working", "closing"}
         /\ x.command \in Commands
         /\ x.held \in Workflow /\ Sound(x.held) /\ Judgeable(x.held)
         /\ x.pc = "resolving" => x.command.op = "finalCommit"
         /\ x.pc = "closing" => WritesAgain(x.command) /\ x.held.status # "absent"
         /\ x.pc # "closing" => Can(x.held, x.command)
  BY DEF Held

\* What a process holds is a record of three fields.
LEMMA HeldMoved ==
  ASSUME NEW x \in Held, NEW at
  PROVE  [x EXCEPT !.pc = at] = [pc |-> at, command |-> x.command, held |-> x.held]
<1>1. x \in [pc : {"resolving", "loading", "working", "closing"}, command : Commands,
             held : Workflow]
  BY DEF Held
<1> QED
  BY <1>1

LEMMA HeldReplaced ==
  ASSUME NEW x \in Held, NEW v
  PROVE  [x EXCEPT !.held = v] = [pc |-> x.pc, command |-> x.command, held |-> v]
<1>1. x \in [pc : {"resolving", "loading", "working", "closing"}, command : Commands,
             held : Workflow]
  BY DEF Held
<1> QED
  BY <1>1

LEMMA HeldMovedAndReplaced ==
  ASSUME NEW x \in Held, NEW at, NEW v
  PROVE  [x EXCEPT !.pc = at, !.held = v] = [pc |-> at, command |-> x.command, held |-> v]
<1> DEFINE y == [pc |-> at, command |-> x.command, held |-> x.held]
<1>1. [x EXCEPT !.pc = at] = y
  BY HeldMoved
<1>2. [y EXCEPT !.held = v] = [pc |-> at, command |-> x.command, held |-> v]
  OBVIOUS
<1>3. [x EXCEPT !.pc = at, !.held = v] = [[x EXCEPT !.pc = at] EXCEPT !.held = v]
  OBVIOUS
<1> QED
  BY <1>1, <1>2, <1>3

LEMMA BusyHolds ==
  ASSUME NEW p \in Processes, proc \in [Processes -> {Idle} \cup Held], proc[p].pc # "idle"
  PROVE  proc[p] \in Held
  BY DEF Idle

\* A process that moves on holds something sound, or nothing.
LEMMA MovedOn ==
  ASSUME NEW p \in Processes, proc \in [Processes -> {Idle} \cup Held],
         NEW to \in {Idle} \cup Held, NEW from, Step(p, from, to)
  PROVE  proc' \in [Processes -> {Idle} \cup Held]
  BY DEF Step

\* A sound copy can be written, and leaves a sound file.
LEMMA WritesSound ==
  ASSUME NEW v, Sound(v), Judgeable(v), Write(v)
  PROVE  Sound(wf') /\ Judgeable(wf') /\ wf' = Normalized(wf')
<1>1. v \in Workflow /\ wf' = Normalized(v)
  BY DEF Sound, Write
<1> QED
  BY <1>1, NormalizedSound, NormalizedTwice, NormalizedType DEF Judgeable

LEMMA ProcessInitSound == ProcessInit => ProcessesSound
<1> SUFFICES ASSUME ProcessInit PROVE ProcessesSound
  OBVIOUS
<1>1. wf = NoWorkflow /\ proc = [p \in Processes |-> Idle]
  BY DEF ProcessInit, Init
<1>2. NewWorkflow \in Workflow /\ Normalized(NewWorkflow) = NewWorkflow
  BY NewWorkflowType
<1>3. NewWorkflow.judgment = "none"
  BY DEF NewWorkflow, Normalized
<1> DEFINE n == NewWorkflow
           v == [n EXCEPT !.status = "absent"]
<1>4. \A p \in Phases : DefaultTask(v, p) = DefaultTask(n, p)
  BY <1>2 DEF DefaultTask, InProgress, Workflow
<1> DEFINE k == [p \in Phases |-> IF n.currentTask[p] # None THEN n.currentTask[p]
                                  ELSE DefaultTask(n, p)]
<1>5. v.currentTask = n.currentTask
  BY <1>2 DEF Workflow
<1>6. [p \in Phases |-> IF v.currentTask[p] # None THEN v.currentTask[p]
                        ELSE DefaultTask(v, p)] = k
  BY <1>4, <1>5
<1>7. Normalized(v) = [v EXCEPT !.currentTask = k] /\ n = [n EXCEPT !.currentTask = k]
  BY <1>2, <1>6 DEF Normalized
<1>8. v = NoWorkflow
  BY DEF NoWorkflow
<1>9. NoWorkflow = Normalized(NoWorkflow)
  <2> HIDE DEF n, k
  <2>1. [v EXCEPT !.currentTask = k] = v
    BY <1>2, <1>7 DEF Workflow, n
  <2> QED
    BY <1>7, <1>8, <2>1
<1>10. Judgeable(NoWorkflow)
  BY <1>2, <1>3 DEF Judgeable, NoWorkflow, Workflow
<1> QED
  BY <1>1, <1>9, <1>10, NewWorkflowSound DEF ProcessesSound

\* The steps, one by one: what the file and the process hold after it.
LEMMA BeginSound ==
  ASSUME ProcessesSound, NEW p \in Processes, NEW c \in Commands, Begin(p, c)
  PROVE  ProcessesSound'
<1>1. wf \in Workflow /\ Can(wf, c) /\ UNCHANGED wf
  BY DEF ProcessesSound, Sound, Begin
<1> DEFINE at == IF c.op = "finalCommit" /\ wf.judgment # "none" THEN "resolving"
                 ELSE IF LoadsContext(wf, c) THEN "loading" ELSE "working"
           x == [pc |-> at, command |-> c, held |-> wf]
<1>2. Step(p, "idle", x)
  BY DEF Begin
<1>3. at \in {"resolving", "loading", "working"} /\ (at = "resolving" => c.op = "finalCommit")
  OBVIOUS
<1> HIDE DEF at
<1>4. x \in Held
  BY <1>1, <1>3 DEF Held, ProcessesSound
<1> HIDE DEF x
<1>5. proc' \in [Processes -> {Idle} \cup Held]
  BY <1>2, <1>4, MovedOn DEF ProcessesSound
<1> QED
  BY <1>1, <1>5 DEF ProcessesSound

LEMMA ResolveSound ==
  ASSUME ProcessesSound, NEW p \in Processes, Resolve(p)
  PROVE  ProcessesSound'
<1>1. PICK verdict \in FreshVerdicts :
        LET v == [proc[p].held EXCEPT !.judgment = verdict]
        IN  /\ Step(p, "resolving",
                    IF JudgmentRefuses(proc[p].command.outcome, verdict) THEN Idle
                    ELSE [proc[p] EXCEPT !.pc = "working", !.held = v])
            /\ Write(v)
  BY DEF Resolve
<1>2. proc[p] \in Held /\ proc[p].pc = "resolving"
  BY <1>1, BusyHolds DEF Step, ProcessesSound
<1> DEFINE w == proc[p].held
           c == proc[p].command
           v == [w EXCEPT !.judgment = verdict]
           x == [proc[p] EXCEPT !.pc = "working", !.held = v]
           to == IF JudgmentRefuses(c.outcome, verdict) THEN Idle ELSE x
<1>3. /\ w \in Workflow /\ Sound(w) /\ c \in Commands /\ c.op = "finalCommit" /\ Can(w, c)
  BY <1>2, HeldFields
<1>4. Sound(v)
  BY <1>3, FreshAreVerdicts, JudgedSound
<1>5. Judgeable(v) /\ v.status = w.status /\ v.phase = w.phase /\ v.task = w.task
      /\ v.receipt = w.receipt /\ v.attempt = w.attempt
  BY <1>3 DEF Judgeable, Workflow
<1>6. Step(p, "resolving", to) /\ Write(v)
  BY <1>1
<1>7. x = [pc |-> "working", command |-> c, held |-> v]
  <2> HIDE DEF v
  <2>1. [proc[p] EXCEPT !.pc = "working", !.held = v]
          = [pc |-> "working", command |-> c, held |-> v]
    BY <1>2, HeldMovedAndReplaced
  <2> QED
    BY <2>1 DEF v
<1> HIDE DEF v, w, c, x
<1>8. Can(v, c)
  BY <1>3, <1>5 DEF Can, CanCommitFinal, ContextLoaded
<1>9. x \in Held
  BY <1>3, <1>4, <1>5, <1>7, <1>8 DEF Held, Sound
<1>10. proc' \in [Processes -> {Idle} \cup Held]
  <2>1. to \in {Idle} \cup Held
    BY <1>9
  <2> QED
    BY <1>6, <2>1, MovedOn DEF ProcessesSound
<1>11. Sound(wf') /\ Judgeable(wf') /\ wf' = Normalized(wf')
  BY <1>4, <1>5, <1>6, WritesSound
<1> QED
  BY <1>10, <1>11 DEF ProcessesSound

LEMMA RecheckSound ==
  ASSUME ProcessesSound, NEW p \in Processes, Recheck(p)
  PROVE  ProcessesSound'
<1> DEFINE x == [proc[p] EXCEPT !.pc = "working"]
           to == IF wf = proc[p].held THEN x ELSE Idle
<1>1. Step(p, "loading", to) /\ UNCHANGED wf
  BY DEF Recheck
<1>2. proc[p] \in Held /\ proc[p].pc = "loading"
  BY <1>1, BusyHolds DEF Step, ProcessesSound
<1>3. x = [pc |-> "working", command |-> proc[p].command, held |-> proc[p].held]
  BY <1>2, HeldMoved
<1>4. x \in Held
  BY <1>2, <1>3, HeldFields DEF Held
<1>5. to \in {Idle} \cup Held
  BY <1>4
<1> HIDE DEF to
<1>6. proc' \in [Processes -> {Idle} \cup Held]
  BY <1>1, <1>5, MovedOn DEF ProcessesSound
<1> QED
  BY <1>1, <1>6 DEF ProcessesSound

LEMMA WriteResultSound ==
  ASSUME ProcessesSound, NEW p \in Processes, WriteResult(p)
  PROVE  ProcessesSound'
<1> DEFINE w == proc[p].held
           c == proc[p].command
<1>1. PICK verdict \in VerdictOf(c) :
        LET v == Result(w, c, verdict)
        IN  /\ Write(v)
            /\ Step(p, "working", IF WritesAgain(c) THEN [proc[p] EXCEPT !.pc = "closing", !.held = v]
                                  ELSE Idle)
  BY DEF WriteResult, VerdictOf
<1>2. proc[p] \in Held /\ proc[p].pc = "working"
  BY <1>1, BusyHolds DEF Step, ProcessesSound
<1> DEFINE v == Result(w, c, verdict)
           x == [proc[p] EXCEPT !.pc = "closing", !.held = v]
           to == IF WritesAgain(c) THEN x ELSE Idle
<1>3. w \in Workflow /\ Sound(w) /\ Judgeable(w) /\ c \in Commands /\ Can(w, c)
  BY <1>2, HeldFields
<1>4. Write(v) /\ Step(p, "working", to)
  BY <1>1
<1>5. x = [pc |-> "closing", command |-> c, held |-> v]
  BY <1>2, HeldMovedAndReplaced
<1> HIDE DEF w, c
<1>6. Sound(v) /\ Judgeable(v)
  BY <1>3, ResultSound, ResultJudgeable
<1>7. WritesAgain(c) => v.status # "absent"
  BY <1>3, ResultPresent
<1> HIDE DEF v, x
<1>8. WritesAgain(c) => x \in Held
  BY <1>3, <1>5, <1>6, <1>7 DEF Held, Sound
<1>9. to \in {Idle} \cup Held
  BY <1>8
<1> HIDE DEF to
<1>10. proc' \in [Processes -> {Idle} \cup Held]
  BY <1>4, <1>9, MovedOn DEF ProcessesSound
<1>11. Sound(wf') /\ Judgeable(wf') /\ wf' = Normalized(wf')
  BY <1>4, <1>6, WritesSound
<1> QED
  BY <1>10, <1>11 DEF ProcessesSound

LEMMA WriteAgainSound ==
  ASSUME ProcessesSound, NEW p \in Processes, WriteAgain(p)
  PROVE  ProcessesSound'
<1> DEFINE w == proc[p].held
           c == proc[p].command
           V == IF c.op = "start" THEN {w.judgment} ELSE VerdictsFor(w)
<1>1. PICK verdict \in V, more \in BOOLEAN :
        LET v == [w EXCEPT !.judgment = verdict]
        IN  Write(v) /\ Step(p, "closing", IF more THEN [proc[p] EXCEPT !.held = v] ELSE Idle)
  BY DEF WriteAgain
<1>2. proc[p] \in Held /\ proc[p].pc = "closing"
  BY <1>1, BusyHolds DEF Step, ProcessesSound
<1> DEFINE v == [w EXCEPT !.judgment = verdict]
           x == [proc[p] EXCEPT !.held = v]
           to == IF more THEN x ELSE Idle
<1>3. /\ w \in Workflow /\ Sound(w) /\ Judgeable(w) /\ c \in Commands
      /\ WritesAgain(c) /\ w.status # "absent"
  BY <1>2, HeldFields
<1>4. Write(v) /\ Step(p, "closing", to)
  BY <1>1
<1>5. x = [pc |-> "closing", command |-> c, held |-> v]
  <2> HIDE DEF v
  <2>1. [proc[p] EXCEPT !.held = v] = [pc |-> "closing", command |-> c, held |-> v]
    BY <1>2, HeldReplaced
  <2> QED
    BY <2>1 DEF v
<1>6. verdict \in FreshVerdicts \cup {"none"}
  BY <1>3, FreshAreVerdicts DEF Judgeable
<1> HIDE DEF w, c
<1>7. verdict \in Verdicts
  BY <1>6, FreshAreVerdicts DEF Verdicts
<1>8. Sound(v)
  BY <1>3, <1>7, JudgedSound
<1>9. Judgeable(v) /\ v.status = w.status
  BY <1>3, <1>6 DEF Judgeable, Workflow
<1> HIDE DEF v, x
<1>10. x \in Held
  BY <1>3, <1>5, <1>8, <1>9 DEF Held, Sound
<1>11. to \in {Idle} \cup Held
  BY <1>10
<1> HIDE DEF to
<1>12. proc' \in [Processes -> {Idle} \cup Held]
  BY <1>4, <1>11, MovedOn DEF ProcessesSound
<1>13. Sound(wf') /\ Judgeable(wf') /\ wf' = Normalized(wf')
  BY <1>4, <1>8, <1>9, WritesSound
<1> QED
  BY <1>12, <1>13 DEF ProcessesSound

LEMMA ProcessStepSound == ProcessesSound /\ [ProcessNext]_vars => ProcessesSound'
<1> SUFFICES ASSUME ProcessesSound, [ProcessNext]_vars PROVE ProcessesSound'
  OBVIOUS
<1>1. CASE UNCHANGED vars
  BY <1>1 DEF vars, ProcessesSound
<1>2. ASSUME NEW p \in Processes, Stop(p) PROVE ProcessesSound'
  BY <1>2 DEF Stop, ProcessesSound
<1> QED
  BY <1>1, <1>2, BeginSound, ResolveSound, RecheckSound, WriteResultSound, WriteAgainSound
     DEF ProcessNext

-----------------------------------------------------------------------------
(* One process at a time: until two overlap, the file is what the busy       *)
(* process holds, or what it last wrote.                                     *)

AloneWith(p) ==
  /\ \A q \in Processes : q # p => proc[q].pc = "idle"
  /\ proc[p].pc # "closing" => wf = proc[p].held
  /\ proc[p].pc = "closing" => wf = Normalized(proc[p].held)

OneAtATime == ~overlap => \A p \in Processes : proc[p].pc # "idle" => AloneWith(p)

LEMMA ProcessInitAlone == ProcessInit => OneAtATime
  BY DEF ProcessInit, OneAtATime, Idle

\* A step of the only busy process: it stays the only one.
LEMMA StaysAlone ==
  ASSUME ProcessesSound, OneAtATime, ProcessesSound', NEW p \in Processes,
         proc[p].pc # "idle", NEW to, proc' = [proc EXCEPT ![p] = to], UNCHANGED overlap,
         ~overlap => \/ to.pc = "idle"
                     \/ to.pc # "closing" /\ wf' = to.held
                     \/ to.pc = "closing" /\ wf' = Normalized(to.held)
  PROVE  OneAtATime'
<1> SUFFICES ASSUME ~overlap, NEW r \in Processes, proc'[r].pc # "idle"
             PROVE  AloneWith(r)'
  BY DEF OneAtATime
<1>1. \A q \in Processes : q # p => proc[q].pc = "idle"
  BY DEF OneAtATime, AloneWith
<1>2. proc'[p] = to /\ \A q \in Processes : q # p => proc'[q] = proc[q]
  BY DEF ProcessesSound
<1>3. r = p
  BY <1>1, <1>2
<1> QED
  BY <1>1, <1>2, <1>3 DEF AloneWith

LEMMA ProcessStepAlone ==
  ProcessesSound /\ ProcessesSound' /\ OneAtATime /\ [ProcessNext]_vars => OneAtATime'
<1> SUFFICES ASSUME ProcessesSound, ProcessesSound', OneAtATime, [ProcessNext]_vars
             PROVE  OneAtATime'
  OBVIOUS
<1>1. CASE UNCHANGED vars
  BY <1>1 DEF vars, OneAtATime, AloneWith
<1>2. ASSUME NEW p \in Processes, NEW c \in Commands, Begin(p, c)
      PROVE  OneAtATime'
  <2> SUFFICES ASSUME ~overlap', NEW r \in Processes, proc'[r].pc # "idle"
               PROVE  AloneWith(r)'
    BY DEF OneAtATime
  <2>1. \A q \in Processes : proc[q].pc = "idle"
    BY <1>2 DEF Begin
  <2> DEFINE at == IF c.op = "finalCommit" /\ wf.judgment # "none" THEN "resolving"
                   ELSE IF LoadsContext(wf, c) THEN "loading" ELSE "working"
             x == [pc |-> at, command |-> c, held |-> wf]
  <2>2. proc' = [proc EXCEPT ![p] = x] /\ wf' = wf
    BY <1>2 DEF Begin, Step
  <2>3. x.pc # "closing" /\ x.held = wf
    OBVIOUS
  <2> HIDE DEF x
  <2>4. proc'[p] = x /\ \A q \in Processes : q # p => proc'[q] = proc[q]
    BY <2>2 DEF ProcessesSound
  <2>5. r = p
    BY <2>1, <2>4
  <2> QED
    BY <2>1, <2>2, <2>3, <2>4, <2>5 DEF AloneWith
<1>3. ASSUME NEW p \in Processes, Resolve(p)
      PROVE  OneAtATime'
  <2>1. PICK verdict \in FreshVerdicts :
          LET v == [proc[p].held EXCEPT !.judgment = verdict]
          IN  /\ Step(p, "resolving",
                      IF JudgmentRefuses(proc[p].command.outcome, verdict) THEN Idle
                      ELSE [proc[p] EXCEPT !.pc = "working", !.held = v])
              /\ Write(v) /\ UNCHANGED overlap
    BY <1>3 DEF Resolve
  <2>2. proc[p] \in Held /\ proc[p].pc = "resolving"
    BY <2>1, BusyHolds DEF Step, ProcessesSound
  <2> DEFINE w == proc[p].held
             v == [w EXCEPT !.judgment = verdict]
             x == [proc[p] EXCEPT !.pc = "working", !.held = v]
             to == IF JudgmentRefuses(proc[p].command.outcome, verdict) THEN Idle ELSE x
  <2>3. proc' = [proc EXCEPT ![p] = to] /\ wf' = Normalized(v) /\ UNCHANGED overlap
    BY <2>1 DEF Step, Write
  <2>4. w \in Workflow
    BY <2>2, HeldFields
  <2>5. ASSUME ~overlap PROVE Normalized(v) = v
    <3>1. wf = w /\ wf = Normalized(wf)
      BY <2>2, <2>5 DEF OneAtATime, AloneWith, ProcessesSound
    <3> QED
      BY <2>4, <3>1, NormalizedJudged
  <2>6. x.pc = "working" /\ x.held = v
    <3> HIDE DEF v
    <3>1. x = [pc |-> "working", command |-> proc[p].command, held |-> v]
      BY <2>2, HeldMovedAndReplaced
    <3> QED
      BY <3>1
  <2>7. Idle.pc = "idle"
    BY DEF Idle
  <2> HIDE DEF v, x
  <2>8. ~overlap => to.pc = "idle" \/ (to.pc # "closing" /\ wf' = to.held)
    BY <2>3, <2>5, <2>6, <2>7
  <2> HIDE DEF to
  <2> QED
    BY <2>2, <2>3, <2>8, StaysAlone
<1>4. ASSUME NEW p \in Processes, Recheck(p)
      PROVE  OneAtATime'
  <2> DEFINE x == [proc[p] EXCEPT !.pc = "working"]
             to == IF wf = proc[p].held THEN x ELSE Idle
  <2>1. /\ proc[p].pc = "loading" /\ proc' = [proc EXCEPT ![p] = to]
        /\ wf' = wf /\ UNCHANGED overlap
    BY <1>4 DEF Recheck, Step
  <2>2. proc[p] \in Held
    BY <2>1, BusyHolds DEF ProcessesSound
  <2>3. x = [pc |-> "working", command |-> proc[p].command, held |-> proc[p].held]
    BY <2>2, HeldMoved
  <2>4. x.pc = "working" /\ x.held = proc[p].held /\ Idle.pc = "idle"
    BY <2>3 DEF Idle
  <2> HIDE DEF x
  <2>5. to.pc = "idle" \/ (to.pc # "closing" /\ wf' = to.held)
    BY <2>1, <2>4
  <2> HIDE DEF to
  <2> QED
    BY <2>1, <2>5, StaysAlone
<1>5. ASSUME NEW p \in Processes, WriteResult(p)
      PROVE  OneAtATime'
  <2>1. PICK v : /\ Write(v) /\ UNCHANGED overlap
                 /\ Step(p, "working", IF WritesAgain(proc[p].command)
                                         THEN [proc[p] EXCEPT !.pc = "closing", !.held = v]
                                         ELSE Idle)
    BY <1>5 DEF WriteResult
  <2>2. proc[p] \in Held /\ proc[p].pc = "working"
    BY <2>1, BusyHolds DEF Step, ProcessesSound
  <2> DEFINE x == [proc[p] EXCEPT !.pc = "closing", !.held = v]
             to == IF WritesAgain(proc[p].command) THEN x ELSE Idle
  <2>3. proc' = [proc EXCEPT ![p] = to] /\ wf' = Normalized(v) /\ UNCHANGED overlap
    BY <2>1 DEF Step, Write
  <2>4. x = [pc |-> "closing", command |-> proc[p].command, held |-> v]
    BY <2>2, HeldMovedAndReplaced
  <2>5. x.pc = "closing" /\ x.held = v /\ Idle.pc = "idle"
    BY <2>4 DEF Idle
  <2> HIDE DEF x
  <2>6. to.pc = "idle" \/ (to.pc = "closing" /\ wf' = Normalized(to.held))
    BY <2>3, <2>5
  <2> HIDE DEF to
  <2> QED
    BY <2>2, <2>3, <2>6, StaysAlone
<1>6. ASSUME NEW p \in Processes, WriteAgain(p)
      PROVE  OneAtATime'
  <2>0. PICK more \in BOOLEAN :
          \E v : /\ Write(v) /\ UNCHANGED overlap
                 /\ Step(p, "closing", IF more THEN [proc[p] EXCEPT !.held = v] ELSE Idle)
    BY <1>6 DEF WriteAgain
  <2>1. PICK v : /\ Write(v) /\ UNCHANGED overlap
                 /\ Step(p, "closing", IF more THEN [proc[p] EXCEPT !.held = v] ELSE Idle)
    BY <2>0
  <2>2. proc[p] \in Held /\ proc[p].pc = "closing"
    BY <2>1, BusyHolds DEF Step, ProcessesSound
  <2> DEFINE x == [proc[p] EXCEPT !.held = v]
             to == IF more THEN x ELSE Idle
  <2>3. proc' = [proc EXCEPT ![p] = to] /\ wf' = Normalized(v) /\ UNCHANGED overlap
    BY <2>1 DEF Step, Write
  <2>4. x = [pc |-> "closing", command |-> proc[p].command, held |-> v]
    BY <2>2, HeldReplaced
  <2>5. x.pc = "closing" /\ x.held = v /\ Idle.pc = "idle"
    BY <2>4 DEF Idle
  <2> HIDE DEF x
  <2>6. to.pc = "idle" \/ (to.pc = "closing" /\ wf' = Normalized(to.held))
    BY <2>3, <2>5
  <2> HIDE DEF to
  <2> QED
    BY <2>2, <2>3, <2>6, StaysAlone
<1>7. ASSUME NEW p \in Processes, Stop(p)
      PROVE  OneAtATime'
  BY <1>7, StaysAlone DEF Stop, Idle
<1> QED
  BY <1>1, <1>2, <1>3, <1>4, <1>5, <1>6, <1>7 DEF ProcessNext

-----------------------------------------------------------------------------
(* The refinement: every write of a process that is alone is a command of    *)
(* ManagedWorkflow or changes nothing.                                       *)

\* The first write of a command, on the file it read, is the atomic command.
LEMMA ResultIsCommand ==
  ASSUME wf \in Workflow, Judgeable(wf), NEW c \in Commands, Can(wf, c),
         NEW verdict \in VerdictOf(c), Write(Result(wf, c, verdict))
  PROVE  Next
<1>1. wf.judgment \in VerdictsFor(wf)
  BY DEF Judgeable, VerdictsFor
<1>2. CASE c.op = "start"
  <2>1. WorkflowStart
    BY <1>2 DEF Result, Commands, Can, WorkflowStart
  <2> QED
    BY <2>1 DEF Next
<1>3. CASE c.op = "judge"
  <2>1. Judge
    BY <1>3 DEF Result, VerdictOf, Can, Judge
  <2> QED
    BY <2>1 DEF Next
<1>4. CASE c.op = "phaseStart"
  <2>1. c.phase \in Phases /\ PhaseStart(c.phase)
    BY <1>4 DEF Result, Commands, Can, PhaseStart
  <2> QED
    BY <2>1 DEF Next
<1>5. CASE c.op = "runtimeCheckpoint"
  <2>1. c.phase \in CheckpointPhases /\ RuntimeCheckpoint(c.phase)
    BY <1>5 DEF Result, Commands, Can, RuntimeCheckpoint
  <2> QED
    BY <2>1 DEF Next
<1>6. CASE c.op = "phaseCommit"
  <2>1. c.phase \in Phases /\ c.outcome \in Outcomes /\ PhaseCommit(c.phase, c.outcome)
    BY <1>1, <1>6 DEF Result, Commands, Can, PhaseCommit
  <2> QED
    BY <2>1 DEF Next
<1>7. CASE c.op = "taskStart"
  <2>1. c.task \in Tasks /\ TaskStart(c.task)
    BY <1>7 DEF Result, Commands, Can, TaskStart
  <2> QED
    BY <2>1 DEF Next
<1>8. CASE c.op = "taskCommit"
  <2>1. c.task \in Tasks /\ c.outcome \in Outcomes /\ TaskCommit(c.task, c.outcome)
    BY <1>8 DEF Result, Commands, Can, TaskCommit
  <2> QED
    BY <2>1 DEF Next
<1>9. CASE c.op = "taskRetry"
  <2>1. c.task \in Tasks /\ c.option \in Tasks \cup {None} /\ TaskRetry(c.task, c.option)
    BY <1>9 DEF Result, Commands, Can, TaskRetry
  <2> QED
    BY <2>1 DEF Next
<1>10. CASE c.op = "finalCommit"
  <2>1. c.outcome \in Outcomes /\ FinalCommit(c.outcome)
    BY <1>1, <1>10 DEF Result, Commands, Can, FinalCommit
  <2> QED
    BY <2>1 DEF Next
<1> QED
  BY <1>2, <1>3, <1>4, <1>5, <1>6, <1>7, <1>8, <1>9, <1>10 DEF Commands

LEMMA StepIsCommand ==
  ASSUME ProcessesSound, OneAtATime, [ProcessNext]_vars, ~overlap', wf' # wf
  PROVE  Next
<1>1. PICK p \in Processes : Resolve(p) \/ WriteResult(p) \/ WriteAgain(p)
  BY DEF ProcessNext, vars, Begin, Recheck, Stop
<1>2. ~overlap
  BY <1>1 DEF Resolve, WriteResult, WriteAgain
<1>3. CASE Resolve(p)
  <2>1. PICK verdict \in FreshVerdicts : /\ proc[p].pc = "resolving"
                                         /\ Write([proc[p].held EXCEPT !.judgment = verdict])
    BY <1>3 DEF Resolve, Step
  <2>2. proc[p] \in Held
    BY <2>1, BusyHolds DEF ProcessesSound
  <2>3. wf = proc[p].held
    BY <1>2, <2>1 DEF OneAtATime, AloneWith
  <2>4. wf.status # "absent"
    <3>1. /\ Can(wf, proc[p].command) /\ proc[p].command.op = "finalCommit"
      BY <2>1, <2>2, <2>3, HeldFields
    <3> QED
      BY <3>1 DEF Can, CanCommitFinal
  <2>5. Judge
    BY <2>1, <2>3, <2>4 DEF Judge
  <2> QED
    BY <2>5 DEF Next
<1>4. CASE WriteResult(p)
  <2>1. PICK verdict \in VerdictOf(proc[p].command) :
          /\ proc[p].pc = "working"
          /\ Write(Result(proc[p].held, proc[p].command, verdict))
    BY <1>4 DEF WriteResult, VerdictOf
  <2>2. proc[p] \in Held
    BY <2>1, BusyHolds DEF ProcessesSound
  <2>3. wf = proc[p].held
    BY <1>2, <2>1 DEF OneAtATime, AloneWith
  <2>4. /\ proc[p].command \in Commands /\ Can(wf, proc[p].command)
        /\ wf \in Workflow /\ Judgeable(wf)
    BY <2>1, <2>2, <2>3, HeldFields
  <2> QED
    BY <2>1, <2>3, <2>4, ResultIsCommand
<1>5. CASE WriteAgain(p)
  <2> DEFINE w == proc[p].held
             c == proc[p].command
  <2>1. PICK verdict \in IF c.op = "start" THEN {w.judgment} ELSE VerdictsFor(w) :
          proc[p].pc = "closing" /\ Write([w EXCEPT !.judgment = verdict])
    BY <1>5 DEF WriteAgain
  <2>2. proc[p] \in Held
    BY <2>1, BusyHolds DEF ProcessesSound
  <2>3. w \in Workflow /\ w.status # "absent"
    BY <2>1, <2>2, HeldFields
  <2>4. wf = Normalized(w) /\ wf = Normalized(wf) /\ wf \in Workflow
    BY <1>2, <2>1 DEF OneAtATime, AloneWith, ProcessesSound, Sound
  <2>5. wf.status = w.status /\ wf.judgment = w.judgment
    BY <2>3, <2>4, NormalizedType
  <2> DEFINE v == [w EXCEPT !.judgment = verdict]
             n == [wf EXCEPT !.judgment = verdict]
  <2>6. Normalized(v) = n /\ Normalized(n) = n
    BY <2>3, <2>4, NormalizedJudged
  <2> HIDE DEF w
  <2>7. Write(n)
    BY <2>1, <2>6 DEF Write
  <2>8. verdict # w.judgment
    <3>1. wf' = n
      BY <2>6, <2>7 DEF Write
    <3> QED
      BY <2>4, <2>5, <3>1 DEF Workflow
  <2>9. verdict \in FreshVerdicts
    BY <2>1, <2>8 DEF VerdictsFor
  <2>10. Judge
    BY <2>3, <2>5, <2>7, <2>9 DEF Judge
  <2> QED
    BY <2>10 DEF Next
<1> QED
  BY <1>1, <1>3, <1>4, <1>5

-----------------------------------------------------------------------------
(* The theorems. *)

\* Whatever the interleaving, the stale copies and the stops, the file and
\* every copy of it are sound.
THEOREM CopiesStaySound == ProcessSpec => []ProcessesSound
  BY ProcessInitSound, ProcessStepSound, PTL DEF ProcessSpec

\* Whatever the processes do to one another, the file stays one that a single
\* agent could have left behind.
THEOREM FileIsConsistent == ProcessSpec => []FileStaysConsistent
<1>1. ProcessesSound => FileStaysConsistent
  <2> SUFFICES ASSUME Sound(wf) PROVE FileStaysConsistent
    BY DEF ProcessesSound
  <2>1. ClosedPhasesHaveNoOpenTask /\ AttemptsFollowDependencies
    BY DEF Sound, PhasesCloseWhole, AttemptsInOrder, ClosedPhasesHaveNoOpenTask,
           AttemptsFollowDependencies
  <2>2. CompletedContextIsLoaded
    BY PlanShape DEF Sound, ReceiptsMatch, CompletedContextIsLoaded
  <2>3. HistoryIsOrdered
    BY DEF Sound, HistoryInOrder, HistoryIsOrdered
  <2>4. CurrentWorkIsOpen
    BY DEF Sound, PointersAreOpen, CurrentWorkIsOpen, OpenTasks
  <2>5. NoDependencyDeadlock
    BY AcyclicIsNeverStuck DEF Sound, TypeOK
  <2> QED
    BY <2>1, <2>2, <2>3, <2>4, <2>5, SoundIsBounded, SoundIsNeverRefused
       DEF FileStaysConsistent
<1> QED
  BY <1>1, CopiesStaySound, PTL

\* Until two commands overlap, the processes implement ManagedWorkflow.
THEOREM ProcessesImplementWorkflow == ProcessSpec => ImplementsManagedWorkflow
<1>1. ProcessInit => Init
  BY DEF ProcessInit
<1>2. ProcessesSound /\ OneAtATime /\ [ProcessNext]_vars => [~overlap' => Next]_wf
  BY StepIsCommand
<1> QED
  BY <1>1, <1>2, ProcessInitAlone, ProcessStepAlone, CopiesStaySound, PTL
     DEF ProcessSpec, ImplementsManagedWorkflow

\* What holds of a single agent holds of the processes for as long as no two
\* commands overlapped, although each reads, waits and writes several times and
\* may be stopped anywhere: settled tasks stay, and no attempt is forgotten.
THEOREM LoneCommandsKeepAll ==
  ProcessSpec /\ []~overlap => Spec /\ SettledTasksStay /\ HistoryIsComplete
<1>1. Init /\ [][~overlap' => Next]_wf /\ []~overlap => Spec
  BY PTL DEF Spec
<1>2. ProcessSpec /\ []~overlap => Spec
  BY <1>1, ProcessesImplementWorkflow, PTL DEF ImplementsManagedWorkflow
<1> QED
  BY <1>2, SettledTasksAreFinal, HistoryIsKept, PTL
=============================================================================
