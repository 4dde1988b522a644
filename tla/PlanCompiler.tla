---------------------------- MODULE PlanCompiler ----------------------------
(***************************************************************************)
(* From a plan as it is given, by the hosted planner or in a JSON file, to *)
(* the phases of a workflow.  `workflow plan --write-plan-file` compiles   *)
(* the plan and writes a document; `workflow start --plan-file` compiles   *)
(* its file, which may be that document or one a person wrote.             *)
(* WorkflowPlan assumes what is checked here of the phases that come out.  *)
(*                                                                         *)
(* A name is a pair: <<text, 1>> is an id as sanitizeWorkflowId leaves it, *)
(* <<text, 0>> another spelling of it, <<text, k>> the id with a suffix,   *)
(* and <<"", n>> is step number n.  Steps that are not objects, recovery   *)
(* tasks, attempt budgets and imported statuses are left out, and so are   *)
(* ids that only the cut at 64 characters tells apart or makes alike, and  *)
(* given ids that look like one with a suffix.                             *)
(***************************************************************************)
EXTENDS Naturals, Sequences, FiniteSets

CONSTANTS
  Texts,     \* the texts of names
  TaskText,  \* by the text of a step: that of the ids made up for its tasks
  StepForms, \* bound: the steps a plan is made of
  MaxSteps,  \* bound: how many
  NotGiven   \* an optional part the plan does not have

PlanNames == (Texts \cup {""}) \X Nat

\* An id is given as sanitized or in another spelling; what it means to depend on
\* a name, or to ask for its output, is for the compiler to find out.
GivenIds == {NotGiven} \cup Texts \X {0, 1}

RequestForms == {NotGiven} \cup SUBSET PlanNames

TaskForms == [id : GivenIds, deps : SUBSET PlanNames, camel : BOOLEAN, request : RequestForms]

ASSUME FormShape ==
  /\ "" \notin Texts /\ TaskText \in [Texts -> Texts]
  /\ NotGiven \notin PlanNames \cup {"phase", "task"} \X PlanNames
  /\ StepForms \subseteq
       [id : GivenIds, title : Texts \X {0, 1}, number : {NotGiven} \cup Nat,
        deps : SUBSET PlanNames, camel : BOOLEAN, refs : {NotGiven} \cup SUBSET Nat,
        request : RequestForms, tasks : Seq(TaskForms)]

VARIABLES
  source,    \* the steps of the plan as given
  document,  \* the steps of the document written from it
  launched    \* the phases of the workflow that was started

planVars == <<source, document, launched>>

Numbered(n) == <<"", n>>

SanitizedId(name) == IF name[2] = 0 THEN <<name[1], 1>> ELSE name

\* Mutant: the suffix is not looked up again.
SuffixedId(id, used) == IF id \notin used THEN id ELSE <<id[1], 1>>

UniqueId(id, used) ==
  IF id \notin used THEN id
  ELSE LET free == {k \in 2 .. Cardinality(used) + 2 : <<id[1], k>> \notin used}
       IN  <<id[1], CHOOSE k \in free : \A l \in free : k <= l>>

GivenId(step) == SanitizedId(IF step.id = NotGiven THEN step.title ELSE step.id)

\* The ids of the first i steps, one after another.
IdsUpTo(steps) ==
  LET ids[i \in 0 .. Len(steps)] ==
        IF i = 0 THEN <<>>
        ELSE Append(ids[i - 1],
                    UniqueId(GivenId(steps[i]), {ids[i - 1][k] : k \in DOMAIN ids[i - 1]}))
  IN  ids

PhaseIds(steps) == IdsUpTo(steps)[Len(steps)]

TaskId(step, j) ==
  IF step.tasks[j].id = NotGiven
    THEN <<TaskText[GivenId(step)[1]], j>>
    ELSE SanitizedId(step.tasks[j].id)

TaskSpots(steps) ==
  UNION {{<<i, j>> : j \in DOMAIN steps[i].tasks} : i \in DOMAIN steps}

TaskIds(steps) == {TaskId(steps[k[1]], k[2]) : k \in TaskSpots(steps)}

NumberOf(steps, i) == IF steps[i].number = NotGiven THEN i ELSE steps[i].number

\* The aliases map: pairs of a name and the id it stands for.
PhaseAliases(steps) ==
  UNION {{<<name, PhaseIds(steps)[i]>> :
            name \in {Numbered(NumberOf(steps, i)), PhaseIds(steps)[i], steps[i].id} \ {NotGiven}}
           : i \in DOMAIN steps}

Aliases(steps) ==
  PhaseAliases(steps) \cup
  UNION {LET id == TaskId(steps[k[1]], k[2])
         IN  {<<name, id>> : name \in {id, steps[k[1]].tasks[k[2]].id} \ {NotGiven}}
           : k \in TaskSpots(steps)}

KnownNames(steps) == {a[1] : a \in Aliases(steps)}

Unambiguous(steps) ==
  /\ \A a, b \in Aliases(steps) : a[1] = b[1] => a[2] = b[2]
  /\ \A k, l \in TaskSpots(steps) :
       TaskId(steps[k[1]], k[2]) = TaskId(steps[l[1]], l[2]) => k = l
  /\ \A a \in PhaseAliases(steps) : a[1] \notin TaskIds(steps)

\* dependencies(): the ids the names stand for.
ResolvedIds(steps, names) == {a[2] : a \in {b \in Aliases(steps) : b[1] \in names}}

Dependencies(steps, i) == ResolvedIds(steps, steps[i].deps)

TaskDependencies(steps, i, j) == ResolvedIds(steps, steps[i].tasks[j].deps)

PhasesNumbered(steps, numbers) ==
  {PhaseIds(steps)[k] : k \in {l \in DOMAIN steps : NumberOf(steps, l) \in numbers}}

\* The ids a context request refers to: of a retrieval step, the steps that its
\* $stepN references name; of any other, those its bindings name.
StepRequest(steps, i) ==
  IF steps[i].refs # NotGiven
    THEN PhasesNumbered(steps, steps[i].refs)
  ELSE IF steps[i].request = NotGiven THEN NotGiven
  ELSE ResolvedIds(steps, steps[i].request)

TaskRequest(steps, i, j) ==
  IF steps[i].tasks[j].request = NotGiven THEN NotGiven
  ELSE ResolvedIds(steps, steps[i].tasks[j].request)

AllNamesKnown(steps) ==
  /\ \A i \in DOMAIN steps : steps[i].deps \subseteq KnownNames(steps)
  /\ \A i \in DOMAIN steps :
       steps[i].refs = NotGiven /\ steps[i].request # NotGiven
         => steps[i].request \subseteq KnownNames(steps)
  /\ \A k \in TaskSpots(steps) :
       LET task == steps[k[1]].tasks[k[2]]
       IN  /\ task.deps \subseteq KnownNames(steps)
           /\ task.request # NotGiven => task.request \subseteq KnownNames(steps)

RetrievalStepsAreWhole(steps) ==
  \A i \in DOMAIN steps : steps[i].refs # NotGiven =>
    /\ steps[i].tasks = <<>>
    /\ \A n \in steps[i].refs : PhasesNumbered(steps, {n}) \cap Dependencies(steps, i) # {}

\* validateBindings: what is referred to is a declared dependency.
RequestsAreDeclared(steps) ==
  /\ \A i \in DOMAIN steps :
       StepRequest(steps, i) # NotGiven => StepRequest(steps, i) \subseteq Dependencies(steps, i)
  /\ \A k \in TaskSpots(steps) :
       LET wanted == TaskRequest(steps, k[1], k[2])
       IN  wanted # NotGiven =>
             wanted \subseteq TaskDependencies(steps, k[1], k[2]) \cup Dependencies(steps, k[1])

\* Mutant: a phase does not wait for its own tasks.
PhaseWaitsForPhases(steps, i) == Dependencies(steps, i)

\* The graph that is searched for a cycle.
PhaseWaitsFor(steps, i) ==
  Dependencies(steps, i) \cup {TaskId(steps[i], j) : j \in DOMAIN steps[i].tasks}

TaskWaitsFor(steps, i, j) == TaskDependencies(steps, i, j) \cup Dependencies(steps, i)

WaitsFor(steps, id) ==
  UNION ({PhaseWaitsFor(steps, i) : i \in {k \in DOMAIN steps : PhaseIds(steps)[k] = id}} \cup
         {TaskWaitsFor(steps, k[1], k[2]) :
            k \in {l \in TaskSpots(steps) : TaskId(steps[l[1]], l[2]) = id}})

NoCycle(steps) ==
  \A S \in SUBSET ({PhaseIds(steps)[i] : i \in DOMAIN steps} \cup TaskIds(steps)) :
    S # {} => {id \in S : WaitsFor(steps, id) \cap S = {}} # {}

Accepted(steps) ==
  /\ Unambiguous(steps)
  /\ AllNamesKnown(steps)
  /\ RetrievalStepsAreWhole(steps)
  /\ RequestsAreDeclared(steps)
  /\ NoCycle(steps)

\* What the compiler returns, and the document holds.
Compiled(steps) ==
  [i \in DOMAIN steps |->
    [id |-> PhaseIds(steps)[i], title |-> steps[i].title, number |-> NotGiven,
     deps |-> Dependencies(steps, i), camel |-> FALSE,
     refs |-> NotGiven, request |-> StepRequest(steps, i),
     tasks |-> [j \in DOMAIN steps[i].tasks |->
       [id |-> TaskId(steps[i], j), deps |-> TaskDependencies(steps, i, j), camel |-> FALSE,
        request |-> TaskRequest(steps, i, j)]]]]

\* The given step lies under the compiled one: dependencies spelled `dependsOn`
\* come back as they were given, and that spelling is read first.
DepsRead(given, compiled) == IF given.camel THEN given.deps ELSE compiled.deps

\* A step without tasks becomes the task of its phase, under the same id.
TasksOfStep(given, compiled) ==
  IF compiled.tasks = <<>>
    THEN <<[id |-> compiled.id, deps |-> DepsRead(given, compiled), request |-> compiled.request]>>
    ELSE [j \in DOMAIN compiled.tasks |->
           [id |-> compiled.tasks[j].id, request |-> compiled.tasks[j].request,
            deps |-> DepsRead(given.tasks[j], compiled.tasks[j])]]

PhasesOf(steps) ==
  [i \in DOMAIN steps |->
    [id    |-> Compiled(steps)[i].id,
     deps  |-> DepsRead(steps[i], Compiled(steps)[i]),
     tasks |-> TasksOfStep(steps[i], Compiled(steps)[i])]]
-----------------------------------------------------------------------------
PlanInit == source = <<>> /\ document = NotGiven /\ launched = NotGiven

\* The planner, or a person, gives another plan.
AddStep(step) ==
  /\ Len(source) < MaxSteps
  /\ source' = Append(source, step)
  /\ document' = NotGiven /\ launched' = NotGiven

DropStep ==
  /\ source # <<>>
  /\ source' = SubSeq(source, 1, Len(source) - 1)
  /\ document' = NotGiven /\ launched' = NotGiven

\* workflow plan --write-plan-file
WriteDocument ==
  /\ source # <<>> /\ Accepted(source)
  /\ document' = Compiled(source)
  /\ UNCHANGED <<source, launched>>

\* workflow start --plan-file, with the plan as given or with the document.
StartFile(file) ==
  /\ file \notin {NotGiven, <<>>} /\ Accepted(file)
  /\ launched' = PhasesOf(file)
  /\ UNCHANGED <<source, document>>

PlanNext ==
  \/ \E step \in StepForms : AddStep(step)
  \/ DropStep
  \/ WriteDocument
  \/ StartFile(source)
  \/ StartFile(document)

PlanSpec == PlanInit /\ [][PlanNext]_planVars
-----------------------------------------------------------------------------
\* The phases as WorkflowPlan knows them, a task and its phase told apart.
PhaseNode(id) == <<"phase", id>>
TaskNode(id)  == <<"task", id>>

PhaseNodes(phases) == {PhaseNode(phases[i].id) : i \in DOMAIN phases}
TaskNodeAt(phases, k) == TaskNode(phases[k[1]].tasks[k[2]].id)
TaskNodes(phases) == {TaskNodeAt(phases, k) : k \in TaskSpots(phases)}

PhaseAt(phases, n) == CHOOSE i \in DOMAIN phases : PhaseNode(phases[i].id) = n
SpotOf(phases, n)  == CHOOSE k \in TaskSpots(phases) : TaskNodeAt(phases, k) = n

\* phaseDependenciesReady looks for a phase of that id first,
\* taskDependenciesReady for a task.
ForPhase(phases, deps) ==
  {IF PhaseNode(d) \in PhaseNodes(phases) THEN PhaseNode(d) ELSE TaskNode(d) : d \in deps}
ForTask(phases, deps) ==
  {IF TaskNode(d) \in TaskNodes(phases) THEN TaskNode(d) ELSE PhaseNode(d) : d \in deps}

PhaseOfTask(phases) ==
  [n \in TaskNodes(phases) |-> PhaseNode(phases[SpotOf(phases, n)[1]].id)]

TaskOf(phases, n) == phases[SpotOf(phases, n)[1]].tasks[SpotOf(phases, n)[2]]

Waits(phases) ==
  [n \in PhaseNodes(phases) \cup TaskNodes(phases) |->
    IF n \in PhaseNodes(phases) THEN ForPhase(phases, phases[PhaseAt(phases, n)].deps)
    ELSE ForTask(phases, TaskOf(phases, n).deps)]

Asking(phases) == {n \in TaskNodes(phases) : TaskOf(phases, n).request # NotGiven}

Wanted(phases) ==
  [n \in TaskNodes(phases) |->
    IF n \in Asking(phases) THEN ForTask(phases, TaskOf(phases, n).request) ELSE {}]

Managed(phases) ==
  INSTANCE WorkflowPlan WITH
    Phases        <- PhaseNodes(phases),
    Tasks         <- TaskNodes(phases),
    PhaseOf       <- PhaseOfTask(phases),
    Rank          <- [n \in PhaseNodes(phases) \cup TaskNodes(phases) |-> 0],
    DependsOn     <- Waits(phases),
    Recovery      <- [n \in TaskNodes(phases) |-> NotGiven],
    MaxAttempts   <- [n \in TaskNodes(phases) |-> 1],
    ContextTasks  <- Asking(phases),
    Bindings      <- Wanted(phases),
    RuntimePhases <- {},
    None          <- NotGiven

\* No two phases, and no two tasks of the workflow, share an id.
IdsAreUnique(phases) ==
  /\ \A i, k \in DOMAIN phases : phases[i].id = phases[k].id => i = k
  /\ \A k, l \in TaskSpots(phases) : TaskNodeAt(phases, k) = TaskNodeAt(phases, l) => k = l

\* What a task wants the output of, it or its phase waits for, be it for the
\* phase of that task.
DeclaresWhatItWants(phases) ==
  \A t \in TaskNodes(phases) : \A d \in Wanted(phases)[t] :
    \E n \in Waits(phases)[t] \cup Waits(phases)[PhaseOfTask(phases)[t]] :
      n = d \/ (d \in TaskNodes(phases) /\ n = PhaseOfTask(phases)[d])

SpelledAsRead(steps) ==
  \A i \in DOMAIN steps :
    /\ ~steps[i].camel
    /\ \A j \in DOMAIN steps[i].tasks : ~steps[i].tasks[j].camel

\* What is started can be worked through: whatever the plan looked like, the
\* phases and tasks of the workflow have ids of their own, wait only for each
\* other, never in a circle that includes the phases waiting for their tasks and
\* the tasks that were made up, and refer only to what they declare.  A document
\* written from a plan is accepted again and starts the same workflow as the
\* plan itself.  (A plan whose dependencies are spelled `dependsOn` is exempt:
\* they stay as they were given.)
StartedPlansAreSound ==
  /\ launched # NotGiven /\ SpelledAsRead(source) =>
       /\ IdsAreUnique(launched)
       /\ Managed(launched)!PlanShape
       /\ Managed(launched)!EveryPhaseHasATask
       /\ Managed(launched)!PlanIsAcyclic
       /\ DeclaresWhatItWants(launched)
  /\ document # NotGiven =>
       /\ Accepted(document)
       /\ SpelledAsRead(source) => PhasesOf(document) = PhasesOf(source)
=============================================================================
