--------------------------- MODULE WorkflowSpecs ----------------------------
(***************************************************************************)
(* Workflows as YAML files describe them: validation, and compilation to   *)
(* the definitions that Pointers and Executor work on.                     *)
(*                                                                         *)
(* A step of a file has a type or parallel children (an optional part is a *)
(* sequence of at most one element), a set of configuration keys, hooks    *)
(* (a function on some of on_success, on_failure and ensure), an error     *)
(* behaviour, a condition and the names of its outputs.  Of the values in  *)
(* a configuration only those matter that validation refuses: the keys     *)
(* bad_network and bad_pull stand for them.                                *)
(***************************************************************************)
EXTENDS Pointers, Conditions

LOCAL INSTANCE SequencesExt

HookKinds == <<"on_success", "on_failure", "ensure">>

Step(name, type, cfg) ==
  [name |-> name, type |-> <<type>>, cfg |-> <<cfg>>, par |-> <<>>, hooks |-> <<>>, error |-> <<>>,
   when |-> <<>>, outs |-> {}, child |-> <<>>]
Block(name, children) == [Step(name, "none", {}) EXCEPT !.type = <<>>, !.cfg = <<>>, !.par = <<children>>]

WorkflowSpec(id, steps) == [id |-> id, steps |-> steps, error |-> <<>>, inputs |-> <<>>, outputs |-> <<>>]

HooksIn(y) == SelectSeq(HookKinds, LAMBDA k : k \in DOMAIN y.hooks)
Hooks(y) == [i \in DOMAIN HooksIn(y) |-> y.hooks[HooksIn(y)[i]]]
Children(y) == IF y.par = <<>> THEN <<>> ELSE y.par[1]

\* Every step of a list with its children and hooks, in the order of the file.
RECURSIVE Flat(_)
Flat(steps) == FlattenSeq([i \in DOMAIN steps |-> <<steps[i]>> \o Flat(Children(steps[i])) \o Flat(Hooks(steps[i]))])
Steps(spec) == Range(Flat(spec.steps))

-----------------------------------------------------------------------------
(* Validation.                                                             *)

Cfg(y) == IF y.cfg = <<>> THEN {} ELSE y.cfg[1]
OneOfKeys(y, keys) == Cfg(y) \cap keys # {}

\* validate_steps, for the types it knows something about.
ConfigOk(y) ==
  LET type == IF y.type = <<>> THEN "none" ELSE y.type[1]
  IN  /\ type \in {"shell", "deno", "buildkit", "containerd", "workflow"} => y.cfg # <<>>
      /\ type = "shell" => OneOfKeys(y, {"run", "file"})
      /\ type = "deno" => OneOfKeys(y, {"script", "file"})
      /\ type = "buildkit" => /\ "dockerfile" \in Cfg(y) /\ OneOfKeys(y, {"context", "input"})
                              /\ "push" \in Cfg(y) => "tags" \in Cfg(y)
      /\ type = "containerd" => /\ "image" \in Cfg(y) /\ ~OneOfKeys(y, {"bad_network", "bad_pull"})
                                /\ Cardinality(Cfg(y) \cap {"run", "command"}) = 1
      /\ type = "workflow" => "workflow" \in Cfg(y)

validate_error_behavior_type(eb) == eb # <<>> => eb[1] \in {"retry", "suspend", "terminate", "compensate"}

UniqueNames(steps) == LET all == Flat(steps) IN \A i, j \in DOMAIN all : i # j => all[i].name # all[j].name

validate_steps(steps) ==
  /\ UniqueNames(steps)
  /\ \A i \in DOMAIN Flat(steps) : LET y == Flat(steps)[i] IN
       /\ (y.type = <<>>) # (y.par = <<>>)
       /\ ConfigOk(y) /\ validate_error_behavior_type(y.error)

collect_step_outputs(spec) == UNION {y.outs : y \in Steps(spec)}

\* detect_unused_outputs: what is declared is produced by some step.
detect_unused_outputs(spec) == DOMAIN spec.outputs \subseteq collect_step_outputs(spec)

validate(spec) ==
  /\ spec.steps # <<>> /\ validate_steps(spec.steps)
  /\ validate_error_behavior_type(spec.error)
  /\ \A y \in Steps(spec) : y.when # <<>> =>
       validate_condition(y.when[1], spec.inputs, spec.outputs, collect_step_outputs(spec))
  /\ detect_unused_outputs(spec)

\* collect_workflow_refs, of every workflow of the file.
collect_workflow_refs(spec) ==
  UNION {Range(y.child) : y \in {z \in Steps(spec) : z.type = <<"workflow">>}}

\* detect_cycles: depth first, grey on the way down, black on the way up; the
\* result is whether a grey node was met.  Only known workflows are entered.
RECURSIVE dfs(_, _, _)
dfs(node, deps, st) ==
  LET grey == [st EXCEPT !.grey = @ \cup {node}]
      Visit(n, acc) == CASE acc.cycle \/ n \in acc.black \/ n \notin DOMAIN deps -> acc
                         [] ~acc.cycle /\ n \in acc.grey -> [acc EXCEPT !.cycle = TRUE]
                         [] OTHER -> dfs(n, deps, acc)
      below == FoldLeft(LAMBDA acc, n : Visit(n, acc), grey, SetToSeq(deps[node]))
  IN  IF below.cycle THEN below
      ELSE [below EXCEPT !.grey = @ \ {node}, !.black = @ \cup {node}]

\* Slip: a workflow's reference to itself is taken for one to something that
\* is known.
detect_cycles_lenient(deps) ==
  \E n \in DOMAIN deps : dfs(n, [m \in DOMAIN deps |-> deps[m] \ {m}], [grey |-> {}, black |-> {}, cycle |-> FALSE]).cycle

detect_cycles(deps) ==
  FoldLeft(LAMBDA acc, n : IF acc.cycle \/ n \in acc.black THEN acc ELSE dfs(n, deps, acc),
           [grey |-> {}, black |-> {}, cycle |-> FALSE], SetToSeq(DOMAIN deps)).cycle

RefsOf(specs) == [id \in {specs[i].id : i \in DOMAIN specs} |->
                    UNION {collect_workflow_refs(specs[i]) : i \in {j \in DOMAIN specs : specs[j].id = id}}]

validate_multi(specs) ==
  /\ \A i \in DOMAIN specs : validate(specs[i])
  /\ \A i, j \in DOMAIN specs : i # j => specs[i].id # specs[j].id
  /\ ~detect_cycles(RefsOf(specs))

-----------------------------------------------------------------------------
(* Compilation.                                                            *)

\* build_step_config_and_factory and the builders of the configurations: what
\* a type cannot do without.  An unknown type does not compile.
Type(y) == IF y.type = <<>> THEN "shell" ELSE y.type[1]
build_shell_config(y) == y.cfg # <<>> /\ OneOfKeys(y, {"run", "file", "script"})
build_deno_config(y) == y.cfg # <<>> /\ OneOfKeys(y, {"script", "file"})
build_git_repo_config(y) == y.cfg # <<>> /\ OneOfKeys(y, {"run", "script"})
build_buildkit_config(y) == y.cfg # <<>> /\ "dockerfile" \in Cfg(y) /\ OneOfKeys(y, {"context", "input"})
build_containerd_config(y) == y.cfg # <<>> /\ "image" \in Cfg(y)
build_kubernetes_config(y) == y.cfg # <<>> /\ "image" \in Cfg(y)
CargoTypes == {"cargo-build", "cargo-test", "cargo-doc-mdx"}
RustupTypes == {"rust-install", "rustup-target"}
KubernetesTypes == {"kubernetes", "k8s"}

\* The factory is registered under the name of the step and its type, or what
\* all types of one family share.
Family(y) ==
  CASE Type(y) \in CargoTypes -> "cargo"
    [] Type(y) \in RustupTypes -> "rustup"
    [] Type(y) \in KubernetesTypes -> "kubernetes"
    [] OTHER -> Type(y)
Key(y) == <<Family(y), y.name>>

Compiles(y) ==
  LET type == Type(y)
  IN  \/ type = "shell" /\ build_shell_config(y)
      \/ type = "deno" /\ build_deno_config(y)
      \/ type = "git-repo" /\ build_git_repo_config(y)
      \/ type = "buildkit" /\ build_buildkit_config(y)
      \/ type = "containerd" /\ build_containerd_config(y)
      \/ type \in KubernetesTypes /\ build_kubernetes_config(y)
      \/ type \in CargoTypes \cup RustupTypes
      \/ type = "workflow" /\ y.cfg # <<>> /\ "workflow" \in Cfg(y)

\* map_error_behavior; without a number there are three retries.
map_error_behavior(eb) ==
  CASE eb = <<>> -> Inherit
    [] eb # <<>> /\ eb[1] = "retry" -> [kind |-> "Retry", max_retries |-> 3]
    [] eb # <<>> /\ eb[1] = "suspend" -> [kind |-> "Suspend", max_retries |-> 0]
    [] eb # <<>> /\ eb[1] = "terminate" -> [kind |-> "Terminate", max_retries |-> 0]
    [] OTHER -> [kind |-> "Compensate", max_retries |-> 0]

To(id) == <<[value |-> NoValue, next |-> id]>>

\* What the step body can return is not said in the file: it may fail, unless
\* its name says that it does not.
Body(y) == [new_step(IF Type(y) = "workflow" THEN "sub_workflow" ELSE "task")
              EXCEPT !.results = IF "sure" \in Cfg(y) THEN {next} ELSE {next, failure}]

\* The condition of a step as the executor sees it, given the data.
When(y, data) ==
  IF y.when = <<>> THEN {"true"}
  ELSE LET c == compile_condition(y.when[1]) IN IF c = Bad THEN {} ELSE {evaluate(c, data)}
WhenOk(y) == y.when = <<>> \/ compile_condition(y.when[1]) # Bad

\* Steps are numbered as they are met, a step before its children or hooks and
\* these before the next step.  A piece of the definition maps ids to the
\* compiled step, the key of its factory and whether it compiles.  Hooks of blocks, and
\* children and hooks of hooks, get no number: they are not looked at.
RECURSIVE Size(_)
Size(y) == IF y.par = <<>> THEN 1 + Cardinality(DOMAIN y.hooks)
           ELSE 1 + FoldSeq(LAMBDA c, n : Size(c) + n, 0, Children(y))
Numbers(steps, first) ==
  [i \in DOMAIN steps |-> first + FoldSeq(LAMBDA y, n : Size(y) + n, 0, SubSeq(steps, 1, i - 1))]

Compiled(step, key, ok) == [step |-> step, key |-> key, ok |-> ok]
One(id, compiled) == [i \in {id} |-> compiled]
Together(pieces) ==
  [id \in UNION {DOMAIN pieces[i] : i \in DOMAIN pieces} |->
     LET i == CHOOSE i \in DOMAIN pieces : id \in DOMAIN pieces[i] IN pieces[i][id]]

HookIds(y, first) ==
  LET order == SelectSeq(<<"on_failure", "on_success", "ensure">>, LAMBDA k : k \in DOMAIN y.hooks)
  IN  [k \in Range(order) |-> first + (CHOOSE i \in DOMAIN order : order[i] = k) - 1]

\* A step: on_success follows it, or else ensure does; on_failure compensates
\* it.  A hook is compiled from its type, name and configuration alone.
RegularStep(y, id, data) ==
  LET hooks == HookIds(y, id + 1)
      out == CASE "on_success" \in DOMAIN hooks -> To(hooks["on_success"])
               [] "on_success" \notin DOMAIN hooks /\ "ensure" \in DOMAIN hooks -> To(hooks["ensure"])
               [] OTHER -> <<>>
      failing == "on_failure" \in DOMAIN hooks
      step == [Body(y) EXCEPT
                 !.outcomes = out, !.when = When(y, data),
                 !.error_behavior = IF failing THEN map_error_behavior(<<"compensate">>) ELSE map_error_behavior(y.error),
                 !.compensation_step_id = IF failing THEN hooks["on_failure"] ELSE NoStep]
      Hook(h) == Compiled(Body(h), Key(h), Compiles(h))
  IN  Together(<<One(id, Compiled(step, Key(y), Compiles(y) /\ WhenOk(y)))>>
                 \o [i \in DOMAIN Hooks(y) |-> LET k == HooksIn(y)[i] IN One(hooks[k], Hook(y.hooks[k]))])

\* Slip: the hook that follows a step is not wired to what comes after.
WireBare(piece, from, to) ==
  [piece EXCEPT ![from].step.outcomes = IF @ = <<>> THEN To(to) ELSE @]

\* One step to the next: from the step, or from the hook that follows it, if
\* that leads nowhere yet.
Wire(piece, from, to) ==
  LET out == piece[from].step.outcomes
      hook == out[Len(out)].next
  IN  CASE out = <<>> -> [piece EXCEPT ![from].step.outcomes = To(to)]
        [] out # <<>> /\ piece[hook].step.outcomes = <<>> -> [piece EXCEPT ![hook].step.outcomes = To(to)]
        [] OTHER -> piece

\* compile_steps: a block becomes a Sequence container whose children are
\* compiled by the same function, so that they too are wired one to the next.
RECURSIVE compile_steps(_, _, _)
compile_steps(steps, data, first) ==
  LET ids == Numbers(steps, first)
      BlockStep(y, id) ==
        LET step == [new_step("sequence") EXCEPT !.children = Numbers(Children(y), id + 1), !.when = When(y, data),
                                                 !.error_behavior = map_error_behavior(y.error)]
        IN  Together(<<One(id, Compiled(step, <<"sequence", y.name>>, WhenOk(y))), compile_steps(Children(y), data, id + 1)>>)
      Piece(i) == IF steps[i].par # <<>> THEN BlockStep(steps[i], ids[i]) ELSE RegularStep(steps[i], ids[i], data)
  IN  Together([i \in DOMAIN steps |-> IF i = Len(steps) THEN Piece(i) ELSE Wire(Piece(i), ids[i], ids[i + 1])])

\* compile: the steps as they were built, and the default of the definition,
\* which is three retries as well.
compile(spec, data) ==
  [steps |-> compile_steps(spec.steps, data, 0),
   default |-> map_error_behavior(IF spec.error = <<>> THEN <<"retry">> ELSE spec.error)]

\* A compiled workflow: whether every step compiled, the keys of its factories
\* and its definition.
Ok(c) == \A id \in DOMAIN c.steps : c.steps[id].ok
FactoryKeys(c) == [id \in DOMAIN c.steps |-> c.steps[id].key]
Definition(c) == [steps |-> [id \in DOMAIN c.steps |-> c.steps[id].step], default_error_behavior |-> c.default]
=============================================================================
