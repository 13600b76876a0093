----------------------------- MODULE Authoring ------------------------------
(***************************************************************************)
(* From a description of a workflow to its runs: what Loader collected     *)
(* from YAML files is validated, compiled and registered, or a program     *)
(* calls the fluent builder; the definition is started, and Executor's     *)
(* consumer runs the instance.                                             *)
(*                                                                         *)
(*   compiled  the compiled workflows, in the order of specs               *)
(*   built   the definition under construction, the ids of the steps that  *)
(*           follow one another at the top, and where the builder stands   *)
(*   factories  the step that each registered factory makes                *)
(***************************************************************************)
EXTENDS Executor, WorkflowSpecs, Loader

SX == INSTANCE SequencesExt

CONSTANTS
  AllData,   \* all data an instance can come to have
  MaxBuilt,  \* bound on the steps the builder adds
  MaxRetried \* bound on them where the default, three retries, is left

VARIABLES compiled, built, factories
author == <<loader, compiled, built, factories>>
executor == <<def, inst, pc, mem, todo, queued, call, ops, crashes>>

NoDef == [steps |-> <<>>, default_error_behavior |-> [kind |-> "Retry", max_retries |-> 3]]
NewBuilder == [steps |-> <<>>, at |-> 0, mains |-> <<>>, keys |-> <<>>, spec |-> <<>>]

AuthoringInit ==
  /\ LoaderInit
  /\ compiled = <<>> /\ built = NewBuilder /\ factories = <<>>
  /\ def = NoDef /\ inst = NoMem /\ pc = "idle" /\ mem = NoMem /\ todo = {}
  /\ queued = 0 /\ call = NoMem /\ ops = 0 /\ crashes = 0

-----------------------------------------------------------------------------
(* Files.                                                                  *)

\* All files are in: validate_multi, then compile every workflow.
CompileAll ==
  /\ stage = "loaded"
  /\ compiled' = IF validate_multi(specs) THEN [i \in DOMAIN specs |-> compile(specs[i], world.data)] ELSE <<>>
  /\ stage' = IF DOMAIN compiled' = DOMAIN specs /\ \A i \in DOMAIN specs : Ok(compiled'[i])
              THEN "compiled" ELSE "failed"
  /\ UNCHANGED <<built, factories, executor>>

\* The host registers the factories of one workflow after the other; one with
\* the key of another takes its place.
RegisterCompiled ==
  /\ stage = "compiled" /\ stage' = "registered"
  /\ factories' = SX!FoldLeft(LAMBDA f, i : LET ys == {y \in Steps(specs[i]) : Key(y) \in SX!Range(FactoryKeys(compiled[i]))} IN
                      [k \in DOMAIN f \cup {Key(y) : y \in ys} |->
                         IF \E y \in ys : Key(y) = k THEN CHOOSE y \in ys : Key(y) = k ELSE f[k]],
                    <<>>, [i \in DOMAIN specs |-> i])
  /\ UNCHANGED <<compiled, built, executor>>

\* One of the workflows is started on the data.
StartCompiled ==
  /\ stage = "registered" /\ stage' = "started"
  /\ \E i \in DOMAIN specs :
       /\ def' = Definition(compiled[i]) /\ inst' = NewInstance(def')
       /\ built' = [NewBuilder EXCEPT !.mains = Numbers(specs[i].steps, 0),
                                      !.keys = FactoryKeys(compiled[i]), !.spec = <<specs[i]>>]
  /\ queued' = 1
  /\ UNCHANGED <<compiled, factories, pc, mem, todo, call, ops, crashes>>

-----------------------------------------------------------------------------
(* The fluent builder.                                                     *)

Count == Cardinality(DOMAIN built.steps)
Building(n) == stage = "build" /\ Count + n <= MaxBuilt
BuilderRest == UNCHANGED <<stage, compiled, factories, executor>>
MayFail == [new_step("task") EXCEPT !.results = {next, failure}]

\* wire_outcome and add_child: in place, appended.
wire_outcome(steps, from, to) == [steps EXCEPT ![from].outcomes = @ \o To(to)]
Put(f, id, v) == [i \in DOMAIN f \cup {id} |-> IF i = id THEN v ELSE f[i]]
Chained(steps, id) == [built EXCEPT !.steps = steps, !.at = id, !.mains = Append(@, id)]

start_with ==
  /\ Building(1) /\ Count = 0
  /\ built' = Chained(Put(<<>>, 0, MayFail), 0)
  /\ BuilderRest

\* A step of the given kind after the one at hand.
Chain(step) ==
  /\ Building(1) /\ Count > 0
  /\ built' = Chained(wire_outcome(Put(built.steps, Count, step), built.at, Count), Count)
  /\ BuilderRest
then == Chain(MayFail)
then_fn == Chain(new_step("task"))
wait_for == Chain(new_step("wait_for"))
delay == Chain(new_step("delay"))

\* Containers: every step that the closures add becomes a child, also one that
\* a closure wired to another.
Container(step, n, wired) ==
  /\ Building(1 + n) /\ Count > 0
  /\ LET id == Count
         kids == [i \in 1 .. n |-> id + i]
         all == SX!FoldLeft(LAMBDA f, i : Put(f, i, MayFail), Put(built.steps, id, [step EXCEPT !.children = kids]), kids)
         inner == IF wired THEN wire_outcome(all, id + 1, id + 2) ELSE all
     IN  built' = Chained(wire_outcome(inner, built.at, id), id)
  /\ BuilderRest
if_do == \E n \in 1 .. 2 : Container(new_step("if"), n, FALSE)
while_do == Container(new_step("while"), 1, FALSE)
for_each == Container([new_step("foreach") EXCEPT !.collection = 2], 1, FALSE)
saga == \E n \in 1 .. 2 : Container(new_step("saga"), n, FALSE)
parallel == \E wired \in BOOLEAN : Container(new_step("sequence"), 2, wired)

compensate_with ==
  /\ Building(1) /\ Count > 0 /\ built.steps[built.at].compensation_step_id = NoStep
  /\ built' = [built EXCEPT !.steps = Put([@ EXCEPT ![built.at].compensation_step_id = Count], Count, new_step("task"))]
  /\ BuilderRest

on_error ==
  /\ Building(0) /\ Count > 0 /\ built.steps[built.at].error_behavior = Inherit
  /\ \E kind \in {"terminate", "compensate"} :
       built' = [built EXCEPT !.steps[built.at].error_behavior = map_error_behavior(<<kind>>)]
  /\ BuilderRest

\* build, register and start; the default error behaviour is set or left.
Build ==
  /\ stage = "build" /\ Count > 0 /\ stage' = "started"
  /\ \/ Count <= MaxRetried /\ def' = [NoDef EXCEPT !.steps = built.steps]
     \/ def' = [steps |-> built.steps, default_error_behavior |-> map_error_behavior(<<"terminate">>)]
  /\ inst' = NewInstance(def') /\ queued' = 1
  /\ UNCHANGED <<compiled, built, factories, pc, mem, todo, call, ops, crashes>>

-----------------------------------------------------------------------------
Runs ==
  /\ stage = "started" /\ UNCHANGED <<stage, compiled, built, factories>>
  /\ Consumer \/ \E p \in Ids : DeliverEvent(p) \/ Tick(p)

LoadStep == LoaderStep /\ UNCHANGED <<compiled, built, factories, executor>>
BuilderStep ==
  \/ start_with \/ then \/ then_fn \/ wait_for \/ delay \/ if_do \/ while_do \/ for_each \/ saga \/ parallel
  \/ compensate_with \/ on_error \/ Build

AuthoringNext ==
  \/ LoadStep
  \/ (CompileAll \/ RegisterCompiled \/ StartCompiled \/ BuilderStep \/ Runs) /\ Afterwards
AuthoringSpec == AuthoringInit /\ [][AuthoringNext]_<<author, executor>>

-----------------------------------------------------------------------------
(* Properties.                                                             *)

Loaded == stage \in {"compiled", "registered", "started"} /\ specs # <<>>
TopPointers(s) == {p \in DOMAIN inst.ptrs : inst.ptrs[p].scope = <<>> /\ inst.ptrs[p].step = s}

\* detect_cycles finds exactly the workflows that come back to themselves
\* through sub-workflow steps: a set of them in which each refers to another
\* of the set.
CyclesFound ==
  LET deps == RefsOf(specs)
  IN  detect_cycles(deps) <=> \E C \in SUBSET DOMAIN deps \ {{}} : \A id \in C : deps[id] \cap C # {}

Extends(more, data) == \A f \in DOMAIN data[2] : HasKey(more, f) /\ more[2][f] = data[2][f]

\* Condition y holds on the data and does not on more of it.
Wavers(y, more) ==
  LET c == compile_condition(y)
  IN  /\ Extends(more, world.data) /\ evaluate(c, world.data) = "true"
      /\ ~(evaluate(c, more) = "true" /\ Holds(c, more))

\* An output called `inputs' or `outputs' has arrived: fields of y that were
\* looked up without that prefix are now looked up inside it.
Shadowed(y, more) ==
  \E c \in Comparisons(y) :
    Len(c[2]) >= 2 /\ c[2][1] \in {"inputs", "outputs"} /\ HasKey(more, c[2][1]) /\ ~HasKey(world.data, c[2][1])

\* A condition that lets its step run holds, and goes on holding when outputs
\* that are missing now arrive later: evaluation takes no missing field for an
\* answer, but the one that decides whether a prefix is dropped.
TrueForGood ==
  Loaded => \A i \in DOMAIN specs : \A y \in {z \in Steps(specs[i]) : z.when # <<>> /\ WhenOk(z)} :
    \A more \in AllData : Wavers(y.when[1], more) => Shadowed(y.when[1], more)

\* The same without the exception: an output that arrives never takes back
\* what a condition has decided.
TrueForEver ==
  Loaded => \A i \in DOMAIN specs : \A y \in {z \in Steps(specs[i]) : z.when # <<>> /\ WhenOk(z)} :
    \A more \in AllData : ~Wavers(y.when[1], more)

\* What validation accepts does not fail in a pass, which would strand the
\* instance: on data that fits the declared inputs, comparisons of declared
\* fields that are neither optional nor any, with a literal of their kind,
\* have a value, unless they look into a field (validation knows the type of
\* the field, not of its parts) or the data has an object in the way.
Literal(op, type, v) ==
  CASE op \in {"gt", "gte", "lt", "lte"} -> IsNumber(v)
    [] op = "contains" -> type = <<"string">> => Tag(v) = "string"
    [] OTHER -> TRUE
Checked(y, spec) ==
  \A c \in Comparisons(y) : LET type == resolve_field_type(c[2], spec.inputs, spec.outputs) IN
    /\ type # Bad /\ Tag(type) \notin {"optional", "any"}
    /\ c[2][1] = "inputs" /\ \A o \in c[3] : Literal(o[1], type, o[2])
Whole(y) == \A c \in Comparisons(y) : Len(c[2]) = 2 /\ ~HasKey(world.data, c[2][1])

\* The condition of y is checked and its data fits, and evaluation fails.
FailsInPass(y, spec) ==
  /\ Checked(y.when[1], spec)
  /\ validate_fields([f \in DOMAIN spec.inputs |-> parse_type(spec.inputs[f])], world.data)
  /\ When(y, world.data) = {"error"}

AcceptedEvaluates ==
  Loaded => \A i \in DOMAIN specs : \A y \in {z \in Steps(specs[i]) : z.when # <<>>} :
    FailsInPass(y, specs[i]) => ~Whole(y.when[1])

\* The same without the exception: validation "checks that the operator used in
\* a comparison is compatible with the field type".
AcceptedRuns ==
  Loaded => \A i \in DOMAIN specs : \A y \in {z \in Steps(specs[i]) : z.when # <<>>} : ~FailsInPass(y, specs[i])

\* The pointers on the step that a file calls name.
Named(name) == {p \in DOMAIN inst.ptrs : built.keys[inst.ptrs[p].step][2] = name}

\* The steps at the top of a workflow, with their hooks, run one at a time,
\* each at most once and after the one before it was done; and when the
\* workflow completed and nothing failed all have run, and the on_success hook
\* of each.
AllInOrder ==
  stage = "started" =>
    /\ \A p, q \in DOMAIN inst.ptrs : p # q /\ inst.ptrs[p].scope = <<>> /\ inst.ptrs[q].scope = <<>>
         => Done(inst.ptrs, p) \/ Done(inst.ptrs, q)
    /\ \A i \in DOMAIN built.mains :
         /\ Cardinality(TopPointers(built.mains[i])) <= 1
         /\ i > 1 /\ TopPointers(built.mains[i]) # {} =>
              \E p \in TopPointers(built.mains[i - 1]) : inst.ptrs[p].status \in {"Complete", "Skipped"}
    /\ inst.status = "Complete" /\ (\A p \in DOMAIN inst.ptrs : inst.ptrs[p].status # "Failed") =>
         /\ \A i \in DOMAIN built.mains : TopPointers(built.mains[i]) # {}
         /\ \A k \in DOMAIN built.spec : \A i \in DOMAIN built.spec[k].steps :
              LET y == built.spec[k].steps[i]
              IN  y.par = <<>> /\ "on_success" \in DOMAIN y.hooks => Named(y.hooks["on_success"].name) # {}

\* YamlStep, ensure: "Cleanup step that always runs."
EnsureRuns ==
  stage = "started" /\ inst.status = "Complete" =>
    \A k \in DOMAIN built.spec : \A i \in DOMAIN built.spec[k].steps :
      LET y == built.spec[k].steps[i]
      IN  y.par = <<>> /\ "ensure" \in DOMAIN y.hooks /\ Named(y.name) # {} => Named(y.hooks["ensure"].name) # {}

\* YamlStep, name: "Step identifier (must be unique within the workflow)": names
\* may be used again in another workflow, and a step runs as its own workflow
\* configures it.
OwnSteps ==
  stage = "started" => \A k \in DOMAIN built.spec : \A p \in DOMAIN inst.ptrs :
    \A y \in {z \in Steps(built.spec[k]) : z.par = <<>> /\ Key(z) = built.keys[inst.ptrs[p].step]} : factories[Key(y)] = y

\* YamlStep, parallel: "Steps to run in parallel", each of them once.
ChildrenOnce ==
  stage = "started" => \A p \in DOMAIN inst.ptrs : \A s \in DOMAIN def.steps :
    Cardinality({q \in DOMAIN inst.ptrs : inst.ptrs[q].scope = ChildScope(inst.ptrs, p) /\ inst.ptrs[q].step = s
                                             /\ def.steps[inst.ptrs[p].step].kind = "sequence"}) <= 1

=============================================================================
