# A verification project for snipara-companion

TLA+ models of the stateful core of `snipara-companion`, the TLC runs that check
them on small instances, and TLAPS proofs of their main properties for every
instance. Paths are those of the repository; `W` stands for
`src/commands/workflows.ts`.

## 1. The system

snipara-companion is a command line program. Each invocation is a process that
reads JSON files under `.snipara/` and `~/.snipara`, calls a hosted service,
writes the files back and ends. There is no daemon and, with two exceptions (the
closeout and the task facade), no file lock: agents, editor and git hooks and
users start these processes side by side on the same files. The workflow and the
collaboration state are replaced whole through a temporary file and a rename;
every other file is written in place with `writeFileSync`, which empties it
first, so that a reader, or a kill, can find half a file.

| Component | State it keeps | Operations | What is hard | What makes it correct | Status |
|---|---|---|---|---|---|
| Workflow plan (W 2290-2790, 3062-3100) | the plan: phases, tasks, dependencies | compile a plan to a document, and to a workflow | compiled twice; aliases; cycles across phases and tasks | unique ids, resolved acyclic dependencies, a task per phase | `PlanCompiler`, `WorkflowPlan` (partly) |
| Managed workflow (W) | `.snipara/workflow/current.json` | start, phase-start, task-start, task-commit, task-retry, phase-commit, final-commit, runtime-checkpoint | long legal command sequences, retries, reopened phases, second commits | order of work, settled work stays, history complete, never stuck | `ManagedWorkflow` (partly) |
| Task context, continuity (`workflow-task-context.ts`, `workflow-continuity.ts`) | receipts in the state, snapshots | load context, capture inside every write | a capture that refuses after the hosted side has acted | a receipt belongs to its attempt | part of `ManagedWorkflow` |
| Workflow processes (W) | the copy of the file a process holds | read, await, write, write again | lost updates, kills between two writes | commands that do not overlap implement the atomic ones; others never leave an inconsistent file | `WorkflowProcesses` |
| Workflow judgment (W 11245-11970, `judgment-card.ts`) | card, responses, evidence, resolution | show, refresh, respond, close | evidence and authority forgotten between two attempts | no commit proceeds over unanswered risk | `WorkflowJudgment` (partly) |
| Session closeout (`session.ts`, `session/checkpoint.ts`) | a receipt and a lock file per checkpoint, the session id | session-end, session reset | stale locks, lost confirmations, kills | one writer, a confirmed checkpoint is final, a session is left only when saved or reset | `SessionCloseout` |
| Collaboration (`collaboration.ts`) | work sessions, leases believed active, acknowledgements | start, claim, release, watch, guard | whole-state saves across awaits, a watch that keeps its copy, leases that expire | an acknowledgement lets pass only what it was given for; a watch keeps what it covers; release ends what was claimed | `Collaboration` (partly) |
| Team sync (`team-sync.ts`) | the ledger of work and handoffs | add, complete, handoff, sweep, archive | concurrent commands, in-place writes, kills | what was on record is not lost or reopened but by an overlap | `TeamSync` |
| Task journey (`task-journey.ts`) | lock, brief, snapshots | task start, work, close | a command of several child processes, killed anywhere; a tree that changes meanwhile | one task at a time, its brief never changes, work is on declared files | `TaskJourney`, `TaskAdmission` (partly) |
| Query cache (`cache/query-cache.ts`) | an index, a file per answer | lookup, save, warm snapshot, clear | hooks side by side, expiry, pruning, in-place writes | never stale; what is saved alone is found again | `QueryCache`, `FreshCache` |
| Decisions (`decision-requests.ts`, `decision-apply.ts`, `policy-gates.ts`) | pending requests, answers, drafts | ask, decide, apply | two files and an effect per answer | on record only when done, not asked again | `DecisionRequests` (partly) |
| Controlled workers (`workers.ts`, `worker-trust.ts`, `controlled-worker-execution.ts`) | profiles, requests, answers, trust events | candidate, review, execute | the profile and the evidence change between review and use | nothing runs unapproved that nobody reviewed | `WorkerTrust` (partly) |
| Context packs (`context-pack.ts`) | blobs, manifests, latest pointer | pack, clean | several files per pack, kills | what is listed can be read | `ContextPacks` (partly) |
| Automations (`automations.ts`) | files in the user's project, a manifest | install, update | merging into what the user wrote; kills before the manifest | local text is kept; installs come to rest | `Automations` (partly) |
| Code graph (`code.ts`) | the overlay file | sync (git hook), questions | reuse of earlier overlays; hooks and questions that write one file; limits | an overlay is that of its tree; an answer says when it is cut short | `CodeOverlay`, `LocalGraph` (partly) |
| Hosted client | none | HTTP calls | timeouts, lost replies | its outcomes are actions of the callers | environment |
| Memory guard, stuck guard and tool hooks | none of their own | one evaluation, hosted or of hosted results | | | not modelled |
| Configuration, login | layered files | read, merge, write | | | not modelled |
| Lead plan, controller bridge, feature specs, reports, outcome and why capture, local stack, command line | files of text | build, print, send | | | not modelled |

How they interact: every workflow command reads the workflow file, may call the
memory guard, the hosted client and the task context loader, then writes the
file, and each write first captures a continuity snapshot that may refuse it.
phase-commit and final-commit go through the judgment and the collaboration
guard, and afterwards release collaboration leases, complete team-sync items and
append to the journal. The task facade runs workflow commands as child processes.
The pre-tool hook asks the query cache; producer reviews and worker promotions
are decision requests. Session closeout shares nothing with the workflow but the
configuration.

## 2. The modules

| Module | Models |
|---|---|
| `WorkflowPlan` | constants and assumptions: what the plan compiler guarantees |
| `PlanCompiler`, `MCPlanCompiler` | that compiler, and plans for it |
| `ManagedWorkflow` | the workflow file and its commands, each one atomic |
| `MCManagedWorkflow` | small plans for it |
| `ManagedWorkflowProofs` | theorems about it |
| `WorkflowJudgment` | the judgment of a workflow: card, responses, receipts, the gate of final-commit |
| `MCWorkflowJudgment` | small cards for it |
| `WorkflowJudgmentProofs` | theorems about it |
| `WorkflowProcesses` | the same commands split at their awaits, run by several processes |
| `MCWorkflowProcesses` | a small plan and process sets |
| `WorkflowProcessesProofs` | theorems about it |
| `SessionCloseout` | session-end and session reset, by concurrent processes |
| `MCSessionCloseout` | symmetry |
| `SessionCloseoutProofs` | theorems about it |
| `Collaboration`, `MCCollaboration` | the collaboration commands of a checkout, and mixes of them |
| `TeamSync` | the team-sync ledger |
| `TaskJourney`, `TaskAdmission` | the task facade, and the abstract specification it implements |
| `QueryCache`, `FreshCache`, `MCQueryCache` | the query cache, what it promises, the instance of a finding |
| `DecisionRequests` | decision requests and what answers set off |
| `WorkerTrust`, `MCWorkerTrust` | trust in one worker and one category, profiles for it |
| `ContextPacks` | context-pack pack and clean |
| `Automations`, `MCAutomations` | automations install and update, bundles for it |
| `CodeOverlay`, `LocalGraph`, `CodeGraph`, `MCLocalGraph` | the overlay of the code graph, the traversal behind its questions, both together, small instances of both |
| `AlgorithmProofs` | theorems about the code graph, `PlanCompiler` and `Automations` |
| `GateProofs` | theorems about `Collaboration` and `WorkerTrust` |
| `StoresProofs` | theorems about `TeamSync`, `DecisionRequests`, `ContextPacks`, `QueryCache` and `TaskJourney` |
| `CommitGates`, `MCCommitGates` | the two gates with a clock of their own side by side, and the run of these and of the judgment and the compiler |
| `LocalStores`, `LocalStoresProofs`, `MCLocalStores` | the stores that share nothing side by side, a theorem about all of them, and their run |

### ManagedWorkflow

`wf` is the content of `current.json`, reduced to what a command reads back:
statuses, the two current pointers (`currentPhaseId`, `phase.currentTaskId`),
attempt counters, the attempt a context receipt was loaded for, the attempt
history, the sandbox bindings and the verdict of the judgment. For each command
`CanX` holds the checks made before the first write (each `throw` and early
return is a conjunct) and `X` the state that is written. `Write` is
`writeWorkflowState`: the continuity capture, which may refuse, and the
normalisation of the next read, which gives a phase its default current task.

What the code does and is easy to miss, and the model keeps: a phase-start of a
phase with context tasks is a task-start; a phase-commit closes every open task
of the phase with its own outcome and records the attempts that had begun; a
second phase-commit may change the status of a closed phase but not of its
settled tasks; phase-start reopens a closed phase; task-retry puts the recovery
task, not the failed one, back to pending; final-commit looks at open phases
only when some task requests context, and writes the judgment before it refuses.

Abstracted: text, times, files, the hosted calls and their results, the fields
only printed. A plan file may import tasks with a status; these start as pending
here. The judgment is a verdict the environment picks in this module; where it
comes from is the subject of the next one.

### WorkflowJudgment

`judgment` is `state.judgment` of the workflow file: the card, the response to
each of its recommendations, the outcome receipts of the responses in the order
they were made, and the resolution (`canProceed`). `commit` is the phase-commit
or final-commit under way. `said`, `kept` and `lost` are history variables the code
does not have: what the agent last decided on each recommendation, what the
commits that went through last reported of each check, and the failures last
reported by a commit that did not go through, all under the current card. The
code stores the evidence of a commit with the responses when it closes the
judgment; that of a final-commit that is refused or broken off it stores
nowhere, only the resolution derived from it.

`Refresh` is `workflow judgment`, which archives the card there is and starts
the next one without its responses; `Respond` is `workflow judgment-respond`.
`PhaseCommit` is the part of phase-commit that concerns the judgment.
final-commit has its three writes: `FinalCommit` derives the resolution, writes
it and may refuse; `Finish` writes the finished workflow; `Close` leaves a
receipt on every response and derives again. `Stop` is a refusal of the memory
guard, an error or a kill in between. `Updated`, `WithPolicy`, `Known` and
`Derive` are the functions of the code, the policy's own answer to low-risk
advice included.

The card is an input: which recommendations it has, how severe each is, which
required actions and which unresolved reason codes. An action or a reason code
is known by the set of checks whose passing clears it, and the keyword matching
that decides this in the code is that set; a check is the `source:label` key of
the code. A workflow asks for its card with `skipGuard`, so that the reason code
`guard_blocked` and `resolve_blocker` actions do not occur. Archived cards are
never read by a derivation and are left out. This module is about one process
at a time; `WorkflowProcesses` is where copies of the file go stale. The verdict
`"hold"` of `ManagedWorkflow` stands for every resolution but `"yes"`.

### WorkflowProcesses

`proc[p]` is where a process is in its command and the copy of the file it read.
`Begin` reads and checks, `Recheck` is the comparison task-start makes after it
has loaded context, `WriteResult` the first write, `WriteAgain` any number of
later writes of the same copy, `Resolve` the judgment that final-commit writes
before it goes on, `Stop` a kill or an error between any two of them. The
operators are those of `ManagedWorkflow`, applied to the copy instead of the
file. `CommandBudget` bounds the commands of a behaviour,
`OverlapBudget` those of one in which two commands overlap.

Work can be lost here, and the repository says so ("not a cross-process lock or
an atomic compare-and-swap guarantee", `docs/TASK_CONTEXT.md:92`): a process
writes back the whole state it read, over what another wrote in between. What is
checked is that the loser's work disappears as a whole, and the file that is
left is consistent in itself.

### SessionCloseout

A run of session-end goes through the places of the code at which another
process may step in: it looks at the lock (`CheckLock`), removes one whose pid
is dead (`Reclaim`), creates its own (`Open`), writes its pid (`Stamp`), reads
the receipt again and marks it pending (`Confirm`), appends to the hosted journal
(`Send`, whose confirmation may be lost), writes the receipt twice (`Record`,
`Report`), looks whether the configuration still has its session (`Rotate`),
writes a fresh id over whatever it has by then (`Mint`) and removes the lock
(`Unlock`). `Throw` is a failing file operation. Under the lock it leads to
`Unlock`; the write of the pid and the removal of the lock file are outside the
`try`, and a run that fails there ends with the file still there. `Crash` is a
kill anywhere, `SessionReset` the command of that name. `crossed` is a history
variable: the ids minted between the look and the write of another run's
rotation.

The hash that names a receipt is taken as injective. `saveConfig` reads, merges
and writes the configuration; that is one write of the session id here, and a kill
in the middle of this in-place write is left out. `init` and `login` write a
session id too and are not modelled.

### PlanCompiler

A plan goes through the compiler twice when it is first written to a document
(`workflow plan --write-plan-file`) and then started from it, and once when a
hosted plan or a file of a person is started. The document is what the first
pass makes, normalisation on reading included, and the second pass meets its ids
as given ids. The invariant instantiates `WorkflowPlan`: the phases that come out
satisfy the assumptions the workflow is modelled under (`Managed`). A name is a
pair of a text and a variant (as sanitised, spelled otherwise, suffixed), so that
two names may collide once sanitised; `TaskText` has the text of the ids made up
for the tasks of a step (`<phase>-task-<n>`), and `FormShape` says what a step may
give. Plans that spell `dependsOn` are exempt from the property, see section 5.
Numeric ids, `phase_id` and `key` aliases, markdown plans, recovery ids and attempt
budgets are left out, as are the cut of ids at 64 characters and given ids that
look like an id with a suffix.

### Collaboration

`calling` commands hold the copy of the state they loaded (`Load`), await the
hosted service (`Call`, `Claim`, `Release`, whose answers may fail or not come)
and save the copy whole. The watch loop (`StartWatch`, `WatchTick`) keeps its copy
from tick to tick. Hosted leases expire by the clock and are renewed by a
heartbeat; local fallback leases only by the clock. The guard takes an
acknowledgement, uses one up, or drops one whose findings changed. A tick is one
step and an outage of the service lasts a tick; a unit of the clock is longer
than the interval of the watch. `MCCollaboration` gives `Mixes`, the alphabets of
commands that run together.

### The local stores

`TeamSync`, `QueryCache`, `DecisionRequests`, `ContextPacks`, `Automations` and
`WorkerTrust` have the same form: `Init` any state the files may be in, a process
that goes from one file operation to the next, kills between any two, and a
history variable that tells the overlap of two commands, or a kill, from what one
command does. An action is one read or one write of a file with what the code
computes on the way. Where a file is written in place there is a step that
leaves it cut short.

- `QueryCache`: a hook looks up (the exact entry, one that is near, the warm
  snapshot), asks the service on a miss and saves. The payload is written before
  the index is loaded and pruned, as in the code. The clock is read with the
  write of a payload, as one step. `FreshCache` is what hooks are promised: an
  answer is a result that was stored, for a similar query, not older than its
  time to live. The cache implements it (`NeverServesStale`).
- `TeamSync`: a load archives what has been inactive, and every command but a
  read writes the ledger. Which words and files match is a relation.
- `DecisionRequests`: producer reviews and policy suggestions, from the request
  to its effect. Suggestions about suggestions are left out; a draft is written
  as one step.
- `WorkerTrust`: evidence, request, review, event and the execution that relies
  on it, while the profile is edited. Only the default event file; asking is one
  step; a review, `keep_supervised` included, takes one answer per choice.
- `ContextPacks`: the blob, the manifest and the pointer of a pack are written
  one after another; `clean` removes manifests before blobs.
- `Automations`: an install reads all files, plans, writes them in turn, then the
  manifest. A script is replaced when the manifest knows its content, a text file
  gets a marked section, a JSON file is merged. JSON is one array of entries with
  the keys name, type, command and env, and a layout: a first install writes what
  the service sent to the letter (`AsServed`), a merge prints it anew
  (`MergedConfig`), so that the same entries may be a different file. A section that
  takes the place of an older one goes through `replace`, which makes `$$` a `$`
  (`Undollared`); `$&`, `` $` `` and `$'`, which copy text of the file, are left out,
  as is the newline put at the end of the user's text. A hash is the content; the
  reply may be any version of the bundle published so far.

### TaskJourney

`task start`, `task work` and `task close` take a lock file, check the card and
run workflow commands as children, one after another. The actions are the
children; they are the operators of `ManagedWorkflow` on a workflow of one phase
and one task, reached through `Flow == INSTANCE ManagedWorkflow`. An editor may
change the tree between any two. `TaskAdmission` is the promise: a task is
replaced only once it is completed, and the brief of a task never changes;
`ActiveTaskIsPreserved` says the facade implements it. Workflow commands issued
by hand beside the facade are not modelled.

### CodeOverlay and LocalGraph

The overlay is built file by file; a file whose hash did not change is taken from
the last overlay, of whatever tree that was, and only its `CONTAINS` edges are,
since the others depend on other files. Post-commit hooks build in the background
and write only when their commit is still HEAD before and after; a question
builds from the working tree (or takes the file, with `--cached`), writes the
file, reads it back and answers. `LocalGraph` is the answer: `traverseLocalGraph`,
with the seeds, directions, kinds and limits the four verbs give it.
What a file defines, imports and uses comes with its content: parsing is left
out, as are the limit on files, promotion and the hosted graph. The installed hook
runs `code sync --only-if-head` and, when that command fails, `code sync` without
the guard (`code.ts:4298`), which writes the overlay of its commit whatever HEAD is;
only the first is modelled.

## 3. The runs

A run has room for several components that share nothing: `commit_gates` and
`local_stores` start in one of them and stay there, so that each is checked on
its own and the run's states are their sum. `CommitGates` and `LocalStores` are the
systems themselves, the conjunction of the specifications of their parts, whose
steps interleave; the runs are the behaviours in which one part moves
(`OneGateSpec`, `OneStoreSpec`), and lose nothing by it because no two parts share a
variable.

| Run | Instance | Result |
|---|---|---|
| `workflow_chain` | 2 phases, 3 tasks in a chain, two with context that refer to each other, both verdicts, one runtime phase; 55 000 states | 6 properties hold |
| `workflow_phases` | 2 phases, 3 tasks, a phase that waits for a phase and a task that waits across phases, up to 2 attempts; 216 000 states | 3 properties hold |
| `processes` | 2 processes, 10 commands, or 5 when any two overlap, kills anywhere; 319 000 states | the file stays consistent; commands that do not overlap implement `ManagedWorkflow` |
| `closeout` | 2 runs, 2 kinds of session, a reset, any file operation failing, both runs killed anywhere, under fairness; 128 000 states | 6 properties hold |
| `commit_gates` | plans of up to 2 steps; judgments of 4 cards; 2 collaboration callers and a watch in 5 mixes of commands; 2 users of worker trust; 1.19 million states | 11 properties hold |
| `local_stores` | two processes on each of the query cache, the ledger, decision requests, automations, packs, the task facade; the overlay under 2 edits, 2 commits and a question; questions to 42 small graphs; 650 000 states | 12 properties hold |
| `retry_readme` | the plan the README prints | violated: see findings |
| `judgment_forgets` | a card with a risk and no low-risk advice | violated |
| `closeout_stale_lock` | 3 runs, one killed | violated |
| `closeout_empty_lock` | 2 runs, one killed | violated |
| `cache_refresh` | one hook, one query, an expired entry | violated |
| `trust_expiry` | a review for the longest time there is | violated |

The bounds. The workflow has no bound but its plan: attempts are limited by
`MaxAttempts` (2 lets a retry happen once and a budget be exhausted), and three
tasks are what it takes to have a dependency inside a phase, one across phases
and a task no other waits for. Both plans give every command an occasion to run
after every other. Five commands are enough for two processes to have
both begun on the same file and one of them to have committed, retried and begun
again; ten commands, one after another, make a whole workflow with retries. Two checks and two receipts
per card (`MaxReceipts`, counted at the commit that would leave the next one) let
a commit report one check and take back, repeat or leave out another, and a
final-commit add its own evidence to both; the cards are those where a
recommendation of every severity, an action one check proves, an action either
proves, a signal and a signal nothing clears occur. Two runs of session-end
exhaust the pairwise races over a lock; the race over a stale lock needs a third,
dead, process, which is why it is a run of its own.

Two steps are the fewest that depend on each other, collide once sanitised and
close a circle through nested tasks; `SomeSteps` has one step for each of these.
In the stores, budgets (`CacheBudget`, `LedgerBudget`, ...) count the commands of a
behaviour: three let two overlap and a third find what they left; the facade has
five, to start, work, close and start again. Horizons bound the clock: one unit
past the longest life. `Mixes` keeps the commands that can disturb each other
together: guards with guards, claims with releases, each with the watch. The graph has three
files with a symbol each and up to three edges more; a depth of three and
limits of three and nine nodes are below and above what it takes to go round it.

`CHECK_DEADLOCK FALSE` is given where a system really stops: processes that
spent their budget, runs that have ended, a plan that was started.

Symmetry is over values nothing but equality tells apart: processes, resources,
decision requests of a kind. `commit_gates` takes states that differ in the history
`lost` alone for one (`WithoutLost`): no step depends on it, and the property that
does, `FailuresAlwaysStop`, is not one of that run.

Fairness. Only `LockIsReleased` needs any: weak fairness of each run's next
step. Every step between two awaits is synchronous code, and the awaited hosted
calls have timeouts (15 s for the journal, 2 s for the event), so a process that
is not killed goes on. `LockIsReleased` is about runs that are not killed and that can
write their pid to the lock file and remove it: the lock of another stays until
somebody finds it stale, if it names a pid at all. The other modules state no
fairness: nothing obliges an agent to issue another command.

Refinements. `ImplementsManagedWorkflow`: the processes implement the atomic
commands, each at the write it is about, as long as no two overlap.
`ActiveTaskIsPreserved`: the task facade implements `TaskAdmission`.
`NeverServesStale`: the query cache implements `FreshCache`.
`StartedPlansAreSound`: what the compiler makes satisfies what `WorkflowPlan`
assumes.

Many properties make an exception where commands overlapped or were killed at a
certain place. The exception is what the code does not protect against (it has
no locks there, and writes in place), is named in the comment of the property,
and is as narrow as the run allows: without it the run finds a violation.

## 4. The proofs

All theorems are checked by TLAPS for every value of the constants under the
named assumptions of the modules, which TLC evaluates on every run. Each follows
from an inductive invariant; TLC had checked the ones below on the run of their
module before they were proved.

`ManagedWorkflowProofs` assumes `PlanShape`, `EveryPhaseHasATask`, `PlanIsAcyclic`
(what the plan compiler ensures) and `InputShape`.

- `TypeCorrect`, `SettledTasksAreFinal`: every command maps a well-formed file to
  a well-formed one and leaves completed and skipped tasks alone.
- `AlwaysSound`: the inductive invariant `Sound`, a conjunction of what the file
  must satisfy for the others to follow. Closed phases have no open task;
  attempts follow dependencies (not inductive alone: the code checks that a
  dependency PHASE is closed, which says something about its tasks only with the
  first part); receipts belong to attempts; histories are in order and complete;
  pointers are open. `DependenciesComeFirst`, `CapturesAreAccepted`,
  `CompletedIsDone`, `CurrentIsOpen` and `HistoryIsKept` are read off it.
- `HistoryIsBounded`: no task spends more attempts than its budget (task-start
  checks it, also when a task waits again as the recovery of another), and a
  history has at most one record more than attempts. Its records are of distinct
  attempts in order, so that it has no more of them than numbers to give
  (`RecordsAreFew`, by induction along the sequence). What the state file holds of a
  plan is therefore bounded in records; the limit of the file is in bytes, which
  depend on texts that are not modelled.
- `NeverStuck`: an open workflow always has a next command, from acyclicity of
  the relation the compiler searches.
- `BlockedTasksComeBack`: for every plan, a blocked task with attempts left can be
  retried as its own recovery. `BlockedTasksAreRetried`: if no task names another as
  its recovery, without naming one. So a declared recovery task is the only
  reason for the refusal `retry_readme` shows.

`WorkflowProcessesProofs`, for any number of processes and any budgets.

- `CopiesStaySound`: every copy a process holds, and the file, is `Sound`. Each
  operator of `ManagedWorkflow` preserves `Sound` of the copy it is applied to,
  whatever the file has become, so a write cannot leave an unsound file.
  `FileIsConsistent` is the part of it that concerns the file.
- `ProcessesImplementWorkflow`: while no two commands overlapped there is at most
  one copy under way, it is that of the file (`OneAtATime`), and each write is a
  command of `ManagedWorkflow`, the others stutter.
- `LoneCommandsKeepAll`: a behaviour in which no two commands ever overlap is one of
  `ManagedWorkflow`, so that the action properties proved there
  (`SettledTasksStay`, `HistoryIsComplete`) hold of any number of processes killed
  anywhere.

`WorkflowJudgmentProofs` assumes `JudgmentShape`: cards are well formed.

- `JudgmentTypes`: as above.
- `Clearable`: a refused final-commit goes through once every recommendation is
  accepted and every check passes, unless the card has a reason code nothing
  clears; whatever was answered or reported before.
- `Authority`: final-commit completes only over risk and block recommendations
  the agent accepted or modified, and over nothing it blocked. The invariant
  (`TypeOK`, `Spoken`, `Gated`) says that a response is what the agent said, or
  the policy's on low-risk advice it said nothing about, and that a commit past
  the gate holds the evidence the resolution in the file was derived from.
- `FailuresStop`: the evidence a final-commit goes by is all that commits which went
  through reported under the card, the latest report of each check, and its own.
  This needs the invariant `OnRecord` and the hypothesis `EvidenceIsHeld`, that a
  commit which closes the judgment with evidence finds a response to keep it on.
  Without it the theorem is false: the evidence of a phase-commit on a card with a
  risk, no low-risk advice and no response is kept nowhere. `AdviceHoldsEvidence`:
  when every card has low-risk advice the policy answers it in time, and the
  hypothesis holds by itself. What a commit reported that was refused or broken off
  is not meant here: the code forgets it, and a failure among it stops nothing
  afterwards (`judgment_forgets`).
- `ActionsProved` has no hypothesis. A response is never taken back, so that reports
  which found none came before all that are on record (`Recorded`); what proves an
  action is on record, or given with the commit that completes the workflow.
- `FailuresHold`: with `EvidenceIsHeld`, and if besides each final-commit that
  completes reports again on the checks a commit that did not go through last
  reported failed (`FailuresAreToldAgain`), no workflow completes over a failure
  anybody last reported. So there are two ways past the gate and no third; the run
  shows one of them.

`SessionCloseoutProofs` is about any number of sessions, summaries and resets.
`TypeCorrect` holds with any number of runs and kills; it counts the budgets.
The others but the last three have the hypothesis `OneReclaims`: no two live runs
are at the same time about to remove the same stale lock. It is what the lock does not
protect against: with three runs and a kill it fails, and so does the first of them
(`closeout_stale_lock`). `FewOrUnharmed` says that it holds by itself of two runs,
wherever they are killed or fail, and of any number of runs none of which is killed
or fails on its lock file. The
inductive invariant `IInv` says that whoever is about to remove a lock found it
stale and is then the only one left; that a run inside the lock owns the
lock file; what the receipt of a checkpoint says at each place of the run that
owns it; that a saved receipt has an entry; that only one run noted a
confirmation; and that left sessions are saved. Each is needed by the next: the
receipts stay as the owner wrote them only because it is alone.

- `OneWriter`, `SavedStays`, `ConfirmedOnce`.
- `SessionsAreKept`: every id the configuration has left was reset, has a saved
  checkpoint, or is `crossed`: minted between the look and the write of another
  run's rotation, which goes over it. `RotationsFollowSaves`: where there is no such
  id, the configuration changes only once its session is reset or saved, so that
  that race (two rotations, or a rotation and a reset) is the
  only way past. The invariant (`Rotating`) says that a run between look and write has
  saved its session, and that the configuration still has that session or one that
  was minted since.
- `DeadLocksAreSeen`: a run that goes on to create the lock file goes on from no
  lock or from that of a live run, unless some run ended between creating its lock
  file and having its pid in it (`NoneEndsUnstamped`). There are two ways to do so,
  a kill and a failing write of the pid, and they are the only ones to the lock
  of `closeout_empty_lock`. The invariant says that an unstamped lock's owner is at
  one of these places.
- `NoLockIsLeft`: the lock file a run created is at the checkpoint of that run,
  which is inside, was killed there, or ended because it could not write its pid to
  the file or could not remove it; a run that ends in another way leaves none.
  `RunsEnd`: every step takes a run further, in a bounded number of steps, and none
  waits for a lock. These are the two safety halves of `LockIsReleased`; that a run
  which can go on does is its fairness.

`GateProofs`, for any number of commands.

- `TrustTypesOK`, `Delegation`: `TrustInv` says that a delegated grant a command
  found has a human approval behind it, of the profile whose hash it carries, and
  which of the overlaps and failures the history variables record can have put
  another answer in its place.
- `GrantsAreWritten`: an answer that says its event was written has one, or a
  review about to write it (`Owed`), as long as no event is refused for its length
  and commands neither overlap nor are killed: refusing the longest grant after the answer is on
  record (`trust_expiry`) is the only way a single command gets there.
- `CollabTypesOK`, `Acknowledgements`, `WatchCovers`, `ReleaseEnds`: `CollabInv`
  relates every copy of the state, in a command, in the watch and in the file, to
  the hosted leases. Every lease a copy believes active is one the service
  granted, with the session it was granted to (`Sound`); while nothing overlaps,
  what the service holds for a session is known to the file; a calm watch has
  every target covered until after its next tick. `WatchCovers` needs the
  leases of the watch to live longer than a tick (`CollaborationShape`); the code
  asks for at least two intervals.
- `GateTypesOK`: both gates together keep to their types.

`StoresProofs`.

- `LedgerTypesOK`, `LedgerIsKept` (`LedgerShape`): `LedgerInv` says what each
  command will write extends what it read, and that what it read is the ledger
  while nothing overlapped.
- `DecisionTypesOK`, `AnsweredOnce`: `DecisionInv` ties each stage of a review or
  an application to the effect it has had.
- `PackTypesOK`, `PacksAreThere` (`PackShape`): `PackInv` says which of its files a
  pack has at each stage of the command that writes or removes it.
- `CacheTypes`, `NeverStale`, `LoneSave` (`CacheShape`): `NeverStale` is the
  refinement of `FreshCache`: a payload holds the time it was stored, whatever the
  index says. `LoneSave` has the hypothesis `Roomy`, that the caps leave room for
  one entry of each kind; a cache without that keeps nothing.
- The task journey (`JourneyShape`), for any number of facades: `JourneyTypes`,
  `OneBrief`, `DeclaredChanges`, and `ActiveTaskPreserved`, the refinement of
  `TaskAdmission`, step by step. Its workflow has one phase and one task, so that few
  states of it are reachable; `JInv` lists them (`Worked`), what the lock says of the
  facade that holds it, and how far each facade has come with its children.

`LocalStoresProofs`: `StoresTypesOK`, all the local stores together keep to their
types, for every value of their constants, from the theorems on each.

`AlgorithmProofs`. The code graph, for every manifest, question, depth and limit
(`GraphShape`) and every tree, number of hooks and questions (`OverlayShape`,
`OverlaysAreReadable`):

- `CompleteAnswers`: `GraphInv` is the invariant of a breadth-first search with a
  limit (`traverseLocalGraph`): the queue is in order of distance, what was
  visited is within the distance of the node at its head, each node found has a
  path of its distance, and what is in reach and not found waits behind a node of
  the queue or was cut off by the limit. The sets of nodes within k edges are a
  recursive function on numbers; induction is over a set of numbers
  (`NatSet`), which needs no operator parameter.
- `FreshAnswers`: `OverlayInv` says that each overlay is what a build from
  nothing makes of its tree, because what is reused depends on one file's
  content alone, and follows a build from its tree to the answer.
- `GraphTypesOK`, `OverlayTypesOK`, and `GraphAnswers`, which combines both as the
  run does.

The plan compiler, for plans of any length over any steps (`FormShape`):

- `PlansAreSound`. The invariant is plain (a document is that of the plan it was
  written from, and what is started that of an accepted plan), the work is in the
  algorithm. The ids are a recursive function along the steps; by induction each is
  new among those before it (`IdsDiffer`), and ids that were given out once are
  kept when they are given again (`IdsStay`). So a document compiles to itself
  (`CompiledTwice`), resolves every name to itself, and is accepted when its plan was
  (`DocumentIsAccepted`). The phases that come out are `Workable`: in terms of ids
  they have what `WorkflowPlan` assumes of nodes. The two differ in the task made
  up for a bare step, which shares its phase's id; that the compiler's search of
  ids, in which the two are one, still rules out a circle of nodes
  (`StartedIsAcyclic`) is the point of the last lemmas.

The automations, for any bundle of files, versions and entries (`BundleShape`), any
number of installs at a time, killed anywhere, and any edits:

- `LocalContentStays`: an entry of the user's keeps its keys, with their values or
  values generated for its key, through any number of merges (`MergedKeeps`): a
  relation between the first and the last list, which one merge preserves, and
  the list of entries is walked by induction. `KeptInv` carries the relation from
  the file to the plan of an install and back to the file: what keeps the user's text
  was planned from a file that kept it, and whoever edits a file takes it out of the
  plans under way. The relation has to follow an entry that changes its key, which a
  merge does when it joins a generated command to the user's type. The hypothesis
  `Apart` says that what is generated by name shares its type and command with no
  generated hook (servers and hooks are in arrays of their own; the model has one
  array). Without it the property is false: a later version's hook then takes the
  entry that changed its key for its own, and overwrites what the user had there.
- `InstallsSettle`: after an install that ran alone the manifest has its files as
  they are, and the same install again has nothing to write, or respells a file
  once, with the same entries or sections (`Respelled`), and has nothing to write
  then. What was merged is found again by the next merge of the same
  version, which leaves it (`MergedSettles`), or has changed its key (`ShadowedBy`), and
  later entries of the version do not take it away. So a plan rests
  (`PlannedRests`), and `SettleInv` says that an install that runs alone has
  written what it planned. It needs `NoKeyTwice` besides, one entry of a version for
  a key, without which two entries overwrite each other in turn. TLC
  evaluates both hypotheses on the instance (`PlainBundle`), and finds both
  properties violated on bundles that break them.
- `AutoTypesOK`.

What the proofs changed in the models. The first attempt at `WatchCovers` failed:
a tick that finds no changed file renews none of its leases, and a lease that
runs out in the pause after a tick still counts as matching at the next. Such a
watch is no longer called calm, and the run now contains it. Traversals had
been defined with a fold, which nothing can be proved about by induction; they
are recursive functions now, and so is the merge of automations. Shapes of
constants the code guarantees, and TLC's instances had, became named assumptions
(`JourneyShape`, `PackShape`, `GraphShape`, `OverlaysAreReadable`, `BundleShape`).
The statement `closeout_empty_lock` refutes was too wide: it said that a run is refused
by a live run only, which is also false when the owner is killed after the other run
looked at its lock, and is no harm then. It is about that look now
(`DeadLocksAreReclaimed`). The last part of `StartedPlansAreSound` turned out to be
false: it asked that a task that wants the output of another waits for that task,
or its phase does. A nested task may want the output of a bare step its own phase
depends on; it then wants the made-up task, and its phase waits for the phase of
that task. The part now says so (`DeclaresWhatItWants`), and the run has such a plan.

Each run that expects a violation has a theorem beside it, and so has the race of
two rotations. It proves the property under a hypothesis that excludes what the run
shows, and as little else as could be: `BlockedTasksAreRetried`, `FailuresHold` (and
`FailuresStop`), `OneWriter`, `DeadLocksAreSeen`, `RotationsFollowSaves`,
`GrantsAreWritten`, and for `cache_refresh` `LoneSave`, whose property leaves the
expired entry out.

Only model-checked: `LockIsReleased`, since liveness under fairness is beyond the
prover, as is ENABLED; its safety halves are proved. Every other property of a
passing run is a theorem. The library's
induction theorems take an operator and cannot be used; induction is done over sets
of numbers instead (`NatSet`, `InductionOn`), for recursive functions along a sequence
or up to a depth.

## 5. Findings

- `retry_readme`: README says a blocked task can be retried until
  `max_attempts`; on the plan printed above that sentence the declared recovery
  task is a completed dependency, and task-retry refuses it.
- `judgment_forgets`: README says that failed evidence remains a hard stop. A
  final-commit with a failed test is refused, but what it reported is kept nowhere;
  the next one, with another check passed and nothing said of the test, completes.
  The other way to the same end: the outcome of a phase-commit is kept on the
  responses to the card and nowhere else, so that on a card whose only
  recommendation is an unanswered risk a failed test is forgotten.
- `closeout_stale_lock`: two runs that both judge the same lock stale can both
  write the checkpoint, against the comment above the lock.
- `closeout_empty_lock`: a run killed between creating the lock and writing its
  pid refuses every later retry, against the title of the session test; so does one
  whose write of the pid fails (`checkpoint.ts:88`, before the `try` that would
  remove the file).

- `cache_refresh`: saving an answer deletes it when the index still lists an
  expired entry of the same query, so that the next lookup misses again.
- `trust_expiry`: a review that grants exactly 90 days records the answer as
  carried out and then refuses its own event, because it reads the clock again.

Observations no run is about (met while modelling; each is an exception or an
abstraction above):

- A plan file whose dependencies are spelled `dependsOn` keeps them as given: W
  3075-3083 spreads the raw step under the compiled one, and
  `normalizeTaskDependencies` reads `dependsOn` first. A dependency given by an
  alias, or by a name that sanitising changes, is then never found, and its phase
  never becomes ready, against the comments at W 2582 and W 3074.
- Steps with ids "2" and "1" and step numbers 2 and 1 give a document that is
  ambiguous when it is read back. The context request of a step with nested tasks
  is validated and then dropped.
- The watch saves its copy, and with it an acknowledgement a guard has consumed.
  A tick that finds nothing changed renews none of the leases it still holds.
- A question to the code graph writes the overlay and reads it back; a hook that
  writes in between has it answered from a commit, while `sourceSelection` describes
  the working tree (`code.ts:3698-3705`). A hook checks HEAD before its write, not
  with it. The shortest path from a node to itself is reported as not found.
- A pack above 2 MB, made with a larger `--max-bytes`, cannot be retrieved. A pack
  killed while it writes its blob makes every later pack of that content throw
  "Existing context pack blob differs", against `docs/FULL_REFERENCE.md:107`.
- The approval of an advisory promotion grants the level the evidence qualifies
  for at review time; `keep_supervised` leaves an older grant in force.
- Automations: an entry merged by name that gains a type and a command changes its
  key (`automations.ts:303-311`), and the next update appends a second one; an
  install for another client forgets the first client's files, whose next update
  conflicts with scripts nobody touched; an install killed before its manifest
  makes a newer bundle conflict; and a kill during an in-place write can lose the
  user's text. A configuration is first written to the letter (`automations.ts:415`)
  and printed anew by the next merge (`:384`), so that the same install again reports
  an update unless the service indents as `JSON.stringify` does: that of
  `{"hooks":{}}` in the tests does not settle before the second install. `replace` at
  `:279` interprets `$` in generated text, so that a section with `$$` differs from
  the bundle after its first replacement.
- The head of `session.ts` says that the session id rotates only after confirmed
  persistence. session-end looks at the configuration (`session.ts:138`) and writes
  the fresh id (`:140`) in two steps; when another run, for another summary of the
  same session, or a `session reset` comes in between, the write goes over an id
  nothing was saved of. `RotationFollowsSave` states the sentence; TLC refutes it
  with two runs and two summaries, and `RotationsFollowSaves` proves it where no id
  is minted in between.
- The fallback of the installed hook, `code sync` without `--only-if-head`
  (`code.ts:4298`), runs whenever the guarded one fails for any reason.
- A context-control apply killed before its receipt has written the target of a
  `create` operation, which the next apply refuses to overwrite.

## 6. Not modelled, and what is left

The map covers a small share of the repository's lines. Most of the rest has no
state to check: argument parsing (`index.ts`), text and reports, pure construction
and validation of documents (lead plan, controller bridge, agent context,
contracts), parsing of source code, the JSON shape of hosted calls (`api/client.ts`),
whose outcomes are inputs of the models. A TLA+ definition of these would repeat
the code. Left out although they keep a file:

- Configuration and login: one read, merge and write at a person's request.
- `init`, feature specs, coding ledger, activity log, final report: a file is
  created or appended to, and no command decides anything by it.
- The registration of worker profiles and the scope proof of an execution.
- Memory guard and stuck guard: one evaluation of what the hosted side returns.
- Context-control plans: a document that is checked whole and applied operation by
  operation, the receipt last (`context-control.ts:378-540`).
