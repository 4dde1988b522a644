--------------------------- MODULE MCPlanCompiler ---------------------------
(***************************************************************************)
(* Plans of two steps.  Steps and tasks are called a, b and t, a and t in  *)
(* another spelling than their ids, or have no id.                         *)
(***************************************************************************)
EXTENDS PlanCompiler

NameA == <<"a", 0>>
NameB == <<"b", 1>>
NameT == <<"t", 0>>
IdOf(name) == <<name[1], 1>>

Step(id, deps) ==
  [id |-> id, title |-> IdOf(NameA), number |-> NotGiven, deps |-> deps, camel |-> FALSE,
   refs |-> NotGiven, request |-> NotGiven, tasks |-> <<>>]

PlanTask(id, deps, request) == [id |-> id, deps |-> deps, camel |-> FALSE, request |-> request]

AnyDeps == {{}} \cup {{name} : name \in {NameA, IdOf(NameA), NameB, NameT, Numbered(1), Numbered(2)}}

BareSteps ==
  {Step(id, deps) : id \in {NotGiven, NameA, NameB}, deps \in AnyDeps}
  \cup {[Step(id, deps) EXCEPT !.camel = TRUE] : id \in {NameA, NameB}, deps \in {{NameA}, {NameB}}}
  \cup {[Step(id, {}) EXCEPT !.number = 2] : id \in {NotGiven, NameB}}

AskingSteps ==
  {[Step(id, deps) EXCEPT !.refs = refs] :
     id \in {NotGiven, NameB}, deps \in {{}, {NameA}, {Numbered(1)}}, refs \in {{}, {1}}}
  \cup {[Step(NameB, deps) EXCEPT !.request = {name}] :
     deps \in {{}, {NameA}}, name \in {NameA, IdOf(NameA)}}

PlanTasks ==
  {PlanTask(id, deps, NotGiven) :
     id \in {NotGiven, NameT, NameB}, deps \in {{}, {NameA}, {NameB}, {NameT}}}
  \cup {PlanTask(NameT, deps, {NameA}) : deps \in {{}, {NameA}}}
  \cup {[PlanTask(NameT, {NameA}, NotGiven) EXCEPT !.camel = TRUE]}

PlanTexts == {"a", "b", "t", "a-task", "b-task"}
MadeUp == [text \in PlanTexts |-> IF text = "a" THEN "a-task" ELSE "b-task"]

StepsWithTasks ==
  {[Step(id, deps) EXCEPT !.tasks = tasks] :
     id \in {NotGiven, NameA}, deps \in {{}, {NameB}},
     tasks \in {<<t>> : t \in PlanTasks} \cup
               {<<PlanTask(NameT, before, NotGiven), PlanTask(NotGiven, {NameT}, NotGiven)>> :
                  before \in {{}, {NameA}, {NameB}}}}
  \cup {[Step(NameB, {NameA}) EXCEPT !.tasks = <<PlanTask(NameT, {}, {NameA})>>]}

SomeSteps == BareSteps \cup AskingSteps \cup StepsWithTasks
=============================================================================
