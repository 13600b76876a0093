----------------------------- MODULE MCExecutor -----------------------------
(***************************************************************************)
(* Definitions on which Executor is model-checked.  Goes(n) and Step build *)
(* them the way WorkflowBuilder and the YAML compiler do: an unlabelled    *)
(* outcome per successor, the children of a container by id.               *)
(***************************************************************************)
EXTENDS Executor, TLC

Goes(n) == <<[value |-> NoValue, next |-> n]>>
Task == new_step("task")
Flaky == [Task EXCEPT !.results = {next, failure}]
Retry(n) == [kind |-> "Retry", max_retries |-> n]
Just(kind) == [kind |-> kind, max_retries |-> 0]
Def(steps) == [steps |-> steps, default_error_behavior |-> Retry(1)]

\* if { parallel { flaky task with compensation | task -> task } } ; task
Nested == Def(
  0 :> [new_step("if") EXCEPT !.children = <<1>>, !.outcomes = Goes(5)] @@
  1 :> [new_step("sequence") EXCEPT !.children = <<2, 3>>] @@
  2 :> [Flaky EXCEPT !.error_behavior = Just("Compensate"),
                     !.compensation_step_id = 6] @@
  3 :> [Task EXCEPT !.outcomes = Goes(4)] @@
  4 :> Task @@ 5 :> Task @@ 6 :> Task)

\* foreach of two items, one after the other, each a flaky task (retried
\* once) and its successor
Sequential == Def(
  0 :> [new_step("foreach") EXCEPT !.children = <<1>>, !.collection = 2,
                                   !.run_parallel = FALSE] @@
  1 :> [Flaky EXCEPT !.outcomes = Goes(2)] @@
  2 :> [Task EXCEPT !.when = {"true", "false"}])

\* foreach of two items at once, the body compensating
Parallel == Def(
  0 :> [new_step("foreach") EXCEPT !.children = <<1>>, !.collection = 2,
                                   !.outcomes = Goes(2)] @@
  1 :> [Flaky EXCEPT !.error_behavior = Just("Compensate"),
                     !.compensation_step_id = 3] @@
  2 :> new_step("end") @@ 3 :> Task)

\* saga whose step suspends or terminates the workflow when it fails
Saga(onError) == Def(
  0 :> [new_step("saga") EXCEPT !.children = <<1, 2>>, !.outcomes = Goes(3)] @@
  1 :> [Flaky EXCEPT !.error_behavior = Just(onError)] @@
  2 :> Task @@ 3 :> new_step("end"))

\* a task that is run again until it is done, retried when it fails, and a
\* decision between two successors
Decision == Def(
  0 :> [Task EXCEPT !.outcomes = Goes(1),
                    !.results = {persist(ChildrenActive), failure, next}] @@
  1 :> [new_step("decide") EXCEPT !.value = "b",
          !.outcomes = <<[value |-> "a", next |-> 2], [value |-> "b", next |-> 3],
                         [value |-> NoValue, next |-> 2]>>] @@
  2 :> Task @@ 3 :> new_step("end"))

\* wait for an event inside a branch, beside a sub-workflow, and after it in a
\* task that waits as often as it likes
Waiting == Def(
  0 :> [new_step("sequence") EXCEPT !.children = <<1, 2>>, !.outcomes = Goes(3)] @@
  1 :> new_step("wait_for") @@
  2 :> [new_step("sub_workflow") EXCEPT !.results = {failure}] @@
  3 :> [Task EXCEPT !.results = {wait_for_event, next}])

\* while loop around a task
Loop == Def(
  0 :> [new_step("while") EXCEPT !.children = <<1>>, !.outcomes = Goes(2)] @@
  1 :> Task @@ 2 :> Task)

\* the saga's compensation branch, taken when do_compensate is set
SagaCompensating == Def(
  0 :> [new_step("saga") EXCEPT !.children = <<1>>, !.do_compensate = TRUE] @@
  1 :> Task)

\* timers
Timers == Def(
  0 :> [new_step("sequence") EXCEPT !.children = <<1, 2>>] @@
  1 :> [new_step("recur") EXCEPT !.outcomes = Goes(3)] @@
  2 :> new_step("schedule") @@
  3 :> Task)

\* a condition that cannot be evaluated, a successor that does not exist
Broken == Def(
  0 :> [new_step("sequence") EXCEPT !.children = <<1, 2>>, !.outcomes = Goes(3)] @@
  1 :> [Task EXCEPT !.when = {"true", "false", "error"}] @@
  2 :> Flaky)

Blocks == {Nested, Sequential, Parallel, Saga("Suspend"), Saga("Terminate"), Decision,
           Waiting, Loop, SagaCompensating, Timers, Broken}
Finite == {Nested, Sequential, Parallel, Saga("Suspend"), SagaCompensating}

\* task ; delay ; end
Delay == {Def(0 :> [new_step("delay") EXCEPT !.outcomes = Goes(1)] @@
              1 :> new_step("end"))}

\* schedule { task }
Schedule == {Def(0 :> [new_step("schedule") EXCEPT !.children = <<1>>] @@ 1 :> Task)}

\* sequence { task | task }
TwoChildren == {Def(0 :> [new_step("sequence") EXCEPT !.children = <<1, 2>>] @@
                    1 :> Task @@ 2 :> Task)}

\* parallel block with a condition over data its children write
Conditional == {Def(
  0 :> [new_step("sequence") EXCEPT !.children = <<1>>, !.outcomes = Goes(2),
                                    !.when = {"true", "false"}] @@
  1 :> Flaky @@ 2 :> Task)}

\* two branches of a parallel block fail in one pass, with different behaviours
TwoFailures == {Def(
  0 :> [new_step("sequence") EXCEPT !.children = <<1, 2>>] @@
  1 :> [Flaky EXCEPT !.error_behavior = Just("Terminate")] @@
  2 :> [Flaky EXCEPT !.error_behavior = Just("Suspend")])}

\* a single task, for the crash
OneTask == {Def(0 :> Task)}
=============================================================================
