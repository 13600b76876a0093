------------------------------ MODULE MCEngine ------------------------------
(***************************************************************************)
(* Small installations on which Engine is model-checked: two instances at  *)
(* most, a sub-workflow included, one or two hosts, a few requests.        *)
(***************************************************************************)
EXTENDS Engine, TLC

Goes(n) == <<[value |-> NoValue, next |-> n]>>
Task == new_step("task")
Flaky == [Task EXCEPT !.results = {next, failure}]
WaitFor(k) == [new_step("wait_for") EXCEPT !.value = k]
Def(steps) ==
  [steps |-> steps, default_error_behavior |-> [kind |-> "Retry", max_retries |-> 1]]

\* wait for an event, then a task that may be skipped, or whose condition may
\* turn out not to be evaluable
Waiter == Def(0 :> [WaitFor("k") EXCEPT !.outcomes = Goes(1)] @@
              1 :> [Task EXCEPT !.when = {"true", "false", "error"}])
\* two tasks in a row
TwoTasks == Def(0 :> [Task EXCEPT !.outcomes = Goes(1)] @@ 1 :> Task)
\* one task
OneTask == Def(0 :> Task)
\* a sub-workflow, then the end
Parent == Def(0 :> [new_step("sub_workflow") EXCEPT !.outcomes = Goes(1), !.results = {failure}] @@
              1 :> new_step("end"))
\* a parallel block with a task that is retried once
Retried == Def(
  0 :> [new_step("sequence") EXCEPT !.children = <<1, 2>>] @@
  1 :> Flaky @@ 2 :> Task)

H1 == {"h1"}
H2 == {"h1", "h2"}
W1 == {"w1"}
W2 == {"w1", "w2"}
Call(op, on, n) == [op |-> op, on |-> on, n |-> n]

All(S) == [h \in Hosts |-> S]
\* Hosts are interchangeable where all of them can do the same.
HostSymmetry == Permutations(Hosts)
NoChildren == [w \in W2 |-> {}]
ChildW2 == [w \in W2 |-> IF w = "w1" THEN {"w2"} ELSE {}]

DefsWaiter == [w \in W2 |-> Waiter]
DefsFamily == [w \in W2 |-> IF w = "w1" THEN Parent ELSE Waiter]
DefsParent == [w \in W2 |-> IF w = "w1" THEN Parent ELSE OneTask]
DefsTasks == [w \in W2 |-> TwoTasks]
DefsRetried == [w \in W2 |-> Retried]

AllCan == All(W2)
OnlyH1 == [h \in Hosts |-> IF h = "h1" THEN W2 ELSE {}]

\* h2 does not know the parent's definition and drops its work items
ParentOnH1 == [h \in Hosts |-> IF h = "h1" THEN W2 ELSE W2 \ W1]

Start1 == {Call("start", "w1", 1)}
OneStep == [w \in W2 |-> Def(0 :> WaitFor("k"))]
Start2 == Start1 \cup {Call("start", "w2", 1)}
Wait1 == Start1 \cup {Call("publish", "k", 1)}
Wait2 == Wait1 \cup {Call("publish", "k", 2)}
Broadcast == Start2 \cup Wait2
Control == Start1 \cup
  {Call("suspend", "w1", 1), Call("resume", "w1", 1), Call("terminate", "w1", 1)}
Kill == Start1 \cup {Call("terminate", "w1", 1)}
=============================================================================
