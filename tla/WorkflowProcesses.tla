-------------------------- MODULE WorkflowProcesses --------------------------
(***************************************************************************)
(* The same workflow commands as ManagedWorkflow, run by processes: every  *)
(* agent starts its own snipara-companion process on the shared state      *)
(* file.  A command reads the file and checks its guards, awaits hosted    *)
(* calls and the memory guard, and then writes what it made of the copy it *)
(* read; `workflow start`, phase-commit and final-commit write that copy   *)
(* again later.  A write replaces the file whole (a temporary file and a   *)
(* rename).  A process may stop anywhere: a hosted call that fails, a      *)
(* memory guard that refuses, a kill.                                      *)
(***************************************************************************)
EXTENDS ManagedWorkflow

CONSTANTS
  Processes,     \* the companion processes that work on the project
  CommandBudget, \* bound: commands issued, each after the one before has ended
  OverlapBudget  \* bound: commands issued when any two overlap

ASSUME BudgetShape == CommandBudget \in Nat /\ OverlapBudget \in Nat

VARIABLES
  proc,    \* what each process is doing, and the copy of the file it holds
  issued,  \* commands issued so far
  overlap  \* (history) whether two commands were under way at once

vars == <<wf, proc, issued, overlap>>

Commands ==
  [op : {"start"}, force : BOOLEAN]
  \cup [op : {"judge"}]
  \cup [op : {"phaseStart"}, phase : Phases]
  \cup [op : {"runtimeCheckpoint"}, phase : CheckpointPhases]
  \cup [op : {"phaseCommit"}, phase : Phases, outcome : Outcomes, strict : BOOLEAN]
  \cup [op : {"taskStart"}, task : Tasks]
  \cup [op : {"taskCommit"}, task : Tasks, outcome : Outcomes]
  \cup [op : {"taskRetry"}, task : Tasks, option : Tasks \cup {None}]
  \cup [op : {"finalCommit"}, outcome : Outcomes]

\* What a command checks in the copy it read.
Can(w, c) ==
  CASE c.op = "start"       -> CanStart(w, c.force)
    [] c.op = "phaseStart"  -> CanStartPhase(w, c.phase)
    [] c.op = "phaseCommit" -> CanCommitPhase(w, c.phase, c.outcome, c.strict)
    [] c.op = "taskStart"   -> CanStartTask(w, c.task)
    [] c.op = "taskCommit"  -> CanCommitTask(w, c.task, c.outcome)
    [] c.op = "taskRetry"   -> CanRetryTask(w, c.task, c.option)
    [] c.op = "finalCommit" -> CanCommitFinal(w, c.outcome)
    [] OTHER                -> w.status # "absent"

\* What a command first makes of it.  A phase-commit writes before it resolves
\* the judgment again; final-commit has resolved it by then.
Result(w, c, verdict) ==
  CASE c.op = "start"             -> NewWorkflow
    [] c.op = "judge"             -> [w EXCEPT !.judgment = verdict]
    [] c.op = "phaseStart"        -> StartPhase(w, c.phase)
    [] c.op = "runtimeCheckpoint" -> [w EXCEPT !.bound = @ \cup {c.phase}]
    [] c.op = "phaseCommit"       -> CommitPhase(w, c.phase, c.outcome, w.judgment)
    [] c.op = "taskStart"         -> StartTask(w, c.task)
    [] c.op = "taskCommit"        -> CommitTask(w, c.task, c.outcome)
    [] c.op = "taskRetry"         -> RetryTask(w, c.task, c.option)
    [] c.op = "finalCommit"       -> CommitFinal(w, c.outcome, w.judgment)

\* The task a command starts, when it is one that loads context first: only
\* this command looks at the file again before it writes.
LoadsContext(w, c) ==
  \/ c.op = "taskStart" /\ c.task \in ContextTasks
  \/ c.op = "phaseStart" /\ HasContext(c.phase) /\ NextEligible(w, c.phase) \in ContextTasks

WritesAgain(c) == c.op \in {"start", "phaseCommit", "finalCommit"}

Idle == [pc |-> "idle"]

Step(p, from, to) == proc[p].pc = from /\ proc' = [proc EXCEPT ![p] = to]

-----------------------------------------------------------------------------
\* Read the file and check the guards; final-commit of a judged workflow goes
\* through the resolution of the judgment first.
Begin(p, c) ==
  /\ overlap' = (overlap \/ \E q \in Processes : proc[q].pc # "idle")
  /\ issued < IF overlap' THEN OverlapBudget ELSE CommandBudget
  /\ Can(wf, c)
  /\ Step(p, "idle",
          [pc |-> IF c.op = "finalCommit" /\ wf.judgment # "none" THEN "resolving"
                  ELSE IF LoadsContext(wf, c) THEN "loading" ELSE "working",
           command |-> c, held |-> wf])
  /\ issued' = issued + 1
  /\ UNCHANGED wf

\* final-commit writes the judgment it derived, and stops there if it refuses.
Resolve(p) ==
  \E verdict \in FreshVerdicts :
    LET v == [proc[p].held EXCEPT !.judgment = verdict]
    IN  /\ Step(p, "resolving",
                IF JudgmentRefuses(proc[p].command.outcome, verdict) THEN Idle
                ELSE [proc[p] EXCEPT !.pc = "working", !.held = v])
        /\ Write(v)
        /\ UNCHANGED <<issued, overlap>>

\* task-start, after its context has been loaded: the file must still be what
\* was read.  The process then writes, but nothing holds the file meanwhile.
Recheck(p) ==
  /\ Step(p, "loading", IF wf = proc[p].held THEN [proc[p] EXCEPT !.pc = "working"] ELSE Idle)
  /\ UNCHANGED <<wf, issued, overlap>>

\* Mutant: the copy as it was read is kept for the later writes.
WriteResultKeepingCopy(p) ==
  /\ proc[p].pc = "working"
  /\ proc[p].command.op # "judge"
  /\ Write(Result(proc[p].held, proc[p].command, None))
  /\ Step(p, "working", IF WritesAgain(proc[p].command) THEN [proc[p] EXCEPT !.pc = "closing"]
                        ELSE Idle)
  /\ UNCHANGED <<issued, overlap>>

\* Write what the command made of the copy it holds.
WriteResult(p) ==
  /\ proc[p].pc = "working"
  /\ \E verdict \in IF proc[p].command.op = "judge" THEN FreshVerdicts ELSE {None} :
       LET v == Result(proc[p].held, proc[p].command, verdict)
       IN  /\ Write(v)
           /\ Step(p, "working",
                   IF WritesAgain(proc[p].command) THEN [proc[p] EXCEPT !.pc = "closing", !.held = v]
                   ELSE Idle)
  /\ UNCHANGED <<issued, overlap>>

\* Mutant: only the phases of the copy are patched into the file.
WriteAgainPatching(p) ==
  /\ Step(p, "closing", Idle)
  /\ Write([wf EXCEPT !.phase = proc[p].held.phase])
  /\ UNCHANGED <<issued, overlap>>

\* Write the same copy again: with the judgment a commit resolved, the why
\* capture, the coordination receipts, the final report.
WriteAgain(p) ==
  /\ proc[p].pc = "closing"
  /\ \E verdict \in IF proc[p].command.op = "start" THEN {proc[p].held.judgment}
                    ELSE VerdictsFor(proc[p].held),
        more \in BOOLEAN :
       LET v == [proc[p].held EXCEPT !.judgment = verdict]
       IN  /\ Write(v)
           /\ Step(p, "closing", IF more THEN [proc[p] EXCEPT !.held = v] ELSE Idle)
  /\ UNCHANGED <<issued, overlap>>

\* A failed hosted call, a refusing guard, an error, a kill.
Stop(p) ==
  /\ proc[p].pc # "idle"
  /\ proc' = [proc EXCEPT ![p] = Idle]
  /\ UNCHANGED <<wf, issued, overlap>>

ProcessInit == Init /\ proc = [p \in Processes |-> Idle] /\ issued = 0 /\ overlap = FALSE

ProcessNext ==
  \E p \in Processes :
    \/ \E c \in Commands : Begin(p, c)
    \/ Resolve(p)
    \/ Recheck(p)
    \/ WriteResult(p)
    \/ WriteAgain(p)
    \/ Stop(p)

ProcessSpec == ProcessInit /\ [][ProcessNext]_vars

-----------------------------------------------------------------------------
\* Whatever the interleaving, the file is one a single agent could have left
\* behind as far as its own consistency goes: a process that writes a stale
\* copy can lose work, but never mixes its work with another's.
FileStaysConsistent ==
  /\ ClosedPhasesHaveNoOpenTask
  /\ AttemptsFollowDependencies
  /\ CaptureNeverRefuses
  /\ CompletedContextIsLoaded
  /\ HistoryIsOrdered
  /\ HistoryFitsTheBudget
  /\ CurrentWorkIsOpen
  /\ NoDependencyDeadlock

\* As long as one command ends before the next begins, a command that reads,
\* waits and writes several times, and may stop between any two of these steps,
\* is a sequence of the atomic commands of ManagedWorkflow: no crash leaves a
\* half-done command.
ImplementsManagedWorkflow == Init /\ [][~overlap' => Next]_wf
=============================================================================
