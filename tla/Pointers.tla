------------------------------ MODULE Pointers ------------------------------
(***************************************************************************)
(* The data of one workflow instance and what the executor computes on it: *)
(* the execution pointer and its status, which pointers a pass may run     *)
(* (is_pointer_runnable), what an ExecutionResult does to the pointer and  *)
(* which pointers it adds (process_result), what a failed step does        *)
(* (handle_error), and when a branch or the whole instance is done.        *)
(*                                                                         *)
(* Abstractions:                                                           *)
(*  - A pointer id (a UUID in the code) is a natural number; the caller    *)
(*    passes the largest id used so far, so ids are unique.  The vector of *)
(*    pointers is a function from ids to pointers: the SQL providers do    *)
(*    not keep the vector's order.                                         *)
(*  - sleep_until is "none", "future" or "past" relative to the clock.     *)
(*  - event_data and event_published are always set together: `event'.     *)
(*  - persistence_data keeps the three fields the primitives read back;    *)
(*    an absent field reads as its default, so NoData stands for None.     *)
(*  - Timestamps, names, outcome and children of a pointer are written for *)
(*    display only, no executor decision reads them, and they are left out.*)
(***************************************************************************)
EXTENDS Integers, Sequences

CONSTANT Value    \* outcome values and event keys of the definitions

NoPointer == 0
NoStep == -1
NoValue == "none"

ASSUME ValueAssumption == NoValue \in Value

WorkflowStatus == {"Runnable", "Suspended", "Complete", "Terminated"}

PointerStatus ==
  {"Pending", "Running", "Complete", "Skipped", "Sleeping", "WaitingForEvent",
   "Failed", "Compensated", "Cancelled", "PendingPredecessor"}

\* The statuses that count as finished, for a branch and for an instance.
DoneStatus == {"Complete", "Skipped", "Compensated", "Cancelled", "Failed"}
Done(ptrs, p) == ptrs[p].status \in DoneStatus

PersistenceData == [children : BOOLEAN, compensating : BOOLEAN, index : Nat]
NoData == [children |-> FALSE, compensating |-> FALSE, index |-> 0]
ChildrenActive == [NoData EXCEPT !.children = TRUE]

ExecutionPointer ==
  [step : Nat, active : BOOLEAN, status : PointerStatus,
   sleep : {"none", "future", "past"}, data : PersistenceData,
   event : BOOLEAN, retry : Nat, pred : Nat, scope : Seq(Nat), item : Nat]

NewPointer(step, pred, scope, item) ==
  [step |-> step, active |-> TRUE, status |-> "Pending", sleep |-> "none",
   data |-> NoData, event |-> FALSE, retry |-> 0, pred |-> pred,
   scope |-> scope, item |-> item]

Instance(status, ptrs) == [status |-> status, ptrs |-> ptrs]

\* A fresh instance: one pointer, on step 0, if the definition has steps.
NewInstance(def) ==
  Instance("Runnable", [i \in IF DOMAIN def.steps = {} THEN {} ELSE {1} |->
                          NewPointer(0, NoPointer, <<>>, 0)])

IsInstance(inst) ==
  /\ inst = [status |-> inst.status, ptrs |-> inst.ptrs]
  /\ inst.status \in WorkflowStatus
  /\ DOMAIN inst.ptrs \subseteq Nat \ {NoPointer}
  /\ inst.ptrs = [i \in DOMAIN inst.ptrs |-> inst.ptrs[i]]
  /\ \A i \in DOMAIN inst.ptrs : inst.ptrs[i] \in ExecutionPointer

-----------------------------------------------------------------------------
(* Results of a step body.  "fail" stands for Err(_).                      *)

ResultKind ==
  {"proceed", "branch", "event", "sleep", "poll", "persist", "fail"}

ExecutionResult ==
  [kind : ResultKind, value : Value, items : Seq(Nat), data : PersistenceData]

Result(kind, value, items, data) ==
  [kind |-> kind, value |-> value, items |-> items, data |-> data]

next == Result("proceed", NoValue, <<>>, NoData)
outcome(v) == Result("proceed", v, <<>>, NoData)
persist(d) == Result("persist", NoValue, <<>>, d)
branch(items, d) == Result("branch", NoValue, items, d)
sleep(d) == Result("sleep", NoValue, <<>>, d)
wait_for_event == Result("event", NoValue, <<>>, NoData)
poll_endpoint == Result("poll", NoValue, <<>>, NoData)
failure == Result("fail", NoValue, <<>>, NoData)

-----------------------------------------------------------------------------
(* Workflow definitions: def.steps maps step ids to steps.  What a step's  *)
(* environment decides is part of the step: the values its `when' condition*)
(* can evaluate to, the results user code can return, the values the       *)
(* condition field of If, While and Recur can have.                        *)

ErrorBehavior ==
  [kind : {"Retry", "Suspend", "Terminate", "Compensate"}, max_retries : Nat]

\* error_behavior: None, the definition's default applies.
Inherit == [kind |-> "Inherit", max_retries |-> 0]

StepKind ==
  {"task", "if", "while", "foreach", "sequence", "saga", "wait_for", "delay",
   "schedule", "recur", "poll_endpoint", "decide", "end", "sub_workflow"}

StepOutcome == [value : Value, next : Nat]

WorkflowStep ==
  [kind : StepKind, children : Seq(Nat), outcomes : Seq(StepOutcome),
   error_behavior : ErrorBehavior \cup {Inherit}, compensation_step_id : Int,
   do_compensate : BOOLEAN, when : SUBSET {"true", "false", "error"},
   results : SUBSET ExecutionResult, conditions : SUBSET BOOLEAN,
   collection : Nat, run_parallel : BOOLEAN, value : Value]

new_step(kind) ==
  [kind |-> kind, children |-> <<>>, outcomes |-> <<>>,
   error_behavior |-> Inherit, compensation_step_id |-> NoStep,
   do_compensate |-> FALSE, when |-> {"true"}, results |-> {next},
   conditions |-> BOOLEAN, collection |-> 0, run_parallel |-> TRUE,
   value |-> NoValue]

\* What the executor may rely on: step ids are natural numbers, the first
\* step has id 0, the default error behaviour is a real one.
IsDefinition(def) ==
  /\ DOMAIN def.steps \subseteq Nat
  /\ DOMAIN def.steps # {} => 0 \in DOMAIN def.steps
  /\ \A s \in DOMAIN def.steps :
       /\ def.steps[s] \in WorkflowStep
       /\ def.steps[s].compensation_step_id \in Nat \cup {NoStep}
  /\ def.default_error_behavior \in ErrorBehavior

\* No pass of the definition ends with an error, and there is a step to run:
\* an instance without pointers is never found complete.
Sound(d) ==
  /\ DOMAIN d.steps # {}
  /\ \A s \in DOMAIN d.steps :
       /\ "error" \notin d.steps[s].when
       /\ \A i \in DOMAIN d.steps[s].outcomes :
            d.steps[s].outcomes[i].next \in DOMAIN d.steps
       /\ \A i \in DOMAIN d.steps[s].children : d.steps[s].children[i] \in DOMAIN d.steps
       /\ d.steps[s].compensation_step_id \in DOMAIN d.steps \cup {NoStep}

-----------------------------------------------------------------------------
(* Queries.                                                                *)

\* Slip: the status and the active flag are not looked at.
is_pointer_awake(ptr) == ptr.sleep # "future"

is_pointer_runnable(ptr) ==
  /\ ptr.active
  /\ \/ ptr.status \in {"Pending", "Running", "Sleeping"} /\ ptr.sleep # "future"
     \/ ptr.status = "WaitingForEvent" /\ ptr.event

Runnable(ptrs) == {i \in DOMAIN ptrs : is_pointer_runnable(ptrs[i])}

\* Slip: one finished child is enough.
is_branch_begun(ptrs, scope) ==
  \E i \in DOMAIN ptrs : ptrs[i].scope = scope /\ ptrs[i].status \in DoneStatus

is_branch_complete(ptrs, scope) ==
  \A i \in DOMAIN ptrs : ptrs[i].scope = scope => ptrs[i].status \in DoneStatus

\* The scope of the children of pointer p.
ChildScope(ptrs, p) == Append(ptrs[p].scope, p)

\* Slip: a pointer that is not active counts as finished.
all_inactive(ptrs) == \A i \in DOMAIN ptrs : ~ptrs[i].active

all_done(ptrs) ==
  /\ DOMAIN ptrs # {}
  /\ \A i \in DOMAIN ptrs : ptrs[i].status \in DoneStatus

has_active(ptrs) == \E i \in DOMAIN ptrs : ptrs[i].active

-----------------------------------------------------------------------------
(* What a result does to the pointers of the instance.                     *)

Push(ptrs, last, news) ==
  [i \in DOMAIN ptrs \cup (last + 1)..(last + Len(news)) |->
     IF i \in DOMAIN ptrs THEN ptrs[i] ELSE news[i - last]]

First(S) == CHOOSE i \in S : \A j \in S : i <= j

find_next_step(step, value) ==
  LET Matching(v) == {i \in DOMAIN step.outcomes : step.outcomes[i].value = v}
  IN  CASE step.outcomes = <<>> -> NoStep
        [] step.outcomes # <<>> /\ value # NoValue /\ Matching(value) # {} ->
             step.outcomes[First(Matching(value))].next
        [] step.outcomes # <<>> /\ (value = NoValue \/ Matching(value) = {})
             /\ Matching(NoValue) # {} ->
             step.outcomes[First(Matching(NoValue))].next
        [] OTHER -> step.outcomes[1].next

\* The pointer that continues after p on step `nxt', in p's own scope.
Continue(ptrs, p, nxt) ==
  IF nxt = NoStep THEN <<>> ELSE <<NewPointer(nxt, p, ptrs[p].scope, 0)>>

\* One child pointer per branch value and child step, scoped under p.
Branches(ptrs, p, step, items) ==
  LET n == Len(step.children)
  IN  [k \in 1..(Len(items) * n) |->
         NewPointer(step.children[((k - 1) % n) + 1], p, ChildScope(ptrs, p),
                    items[((k - 1) \div n) + 1])]

\* The pointer after result r: process_result's updates in place.
process_result(ptr, r) ==
  CASE r.kind = "proceed" -> [ptr EXCEPT !.status = "Complete", !.active = FALSE]
    [] r.kind = "branch" -> [ptr EXCEPT !.status = "Running", !.data = r.data]
    [] r.kind = "event" ->
         [ptr EXCEPT !.status = "WaitingForEvent", !.active = FALSE]
    [] r.kind \in {"sleep", "poll"} ->
         [ptr EXCEPT !.status = "Sleeping", !.active = TRUE,
                     !.sleep = "future", !.data = r.data]
    [] r.kind = "persist" ->
         [ptr EXCEPT !.status = "Running", !.active = TRUE, !.data = r.data]
    [] OTHER -> ptr

\* The clock passes the sleep_until of pointer p.
Asleep(ptrs, p) == p \in DOMAIN ptrs /\ ptrs[p].sleep = "future"
Awake(ptrs, p) ==
  [i \in DOMAIN ptrs |-> IF i = p /\ ptrs[i].sleep = "future"
                         THEN [ptrs[i] EXCEPT !.sleep = "past"] ELSE ptrs[i]]

-----------------------------------------------------------------------------
(* Error behaviours.                                                       *)

\* The step's own behaviour, else the definition's default.
BehaviorOf(def, s) ==
  IF def.steps[s].error_behavior = Inherit
  THEN def.default_error_behavior ELSE def.steps[s].error_behavior

Exhausted(ptr, b) ==
  b.kind = "Retry" /\ b.max_retries > 0 /\ ptr.retry >= b.max_retries

\* Slip: the retry is not counted.
handle_error_uncounted(def, ptr) ==
  LET b == BehaviorOf(def, ptr.step)
  IN  IF b.kind = "Retry" /\ ~Exhausted(ptr, b)
      THEN [ptr EXCEPT !.status = "Sleeping", !.active = TRUE, !.sleep = "future"]
      ELSE [ptr EXCEPT !.status = "Failed", !.active = FALSE]

\* handle_error: the pointer ...
handle_error(def, ptr) ==
  LET b == BehaviorOf(def, ptr.step)
  IN  IF b.kind = "Retry" /\ ~Exhausted(ptr, b)
      THEN [ptr EXCEPT !.retry = @ + 1, !.status = "Sleeping",
                       !.active = TRUE, !.sleep = "future"]
      ELSE [ptr EXCEPT !.status = "Failed", !.active = FALSE]

\* ... and the status of the instance, which it may override.
workflow_status(def, ptr, status) ==
  LET b == BehaviorOf(def, ptr.step)
  IN  CASE b.kind = "Suspend" \/ Exhausted(ptr, b) -> "Suspended"
        [] b.kind = "Terminate" -> "Terminated"
        [] OTHER -> status

-----------------------------------------------------------------------------
(* Step 4 of a pass, for one pointer.                                      *)

\* The pointers that result r of pointer p adds.
new_pointers(def, ptrs, p, r) ==
  LET step == def.steps[ptrs[p].step]
  IN  CASE r.kind = "proceed" -> Continue(ptrs, p, find_next_step(step, r.value))
        [] r.kind = "branch" -> Branches(ptrs, p, step, r.items)
        [] r.kind = "fail" /\ BehaviorOf(def, ptrs[p].step).kind = "Compensate" ->
             Continue(ptrs, p, step.compensation_step_id)
        [] OTHER -> <<>>

\* The pointer is marked Running, its step body is run, and r is applied.
ApplyResult(def, inst, p, r, last) ==
  LET ptr == [inst.ptrs[p] EXCEPT !.status = "Running"]
      news == new_pointers(def, inst.ptrs, p, r)
  IN  IF r.kind = "fail"
      THEN Instance(workflow_status(def, ptr, inst.status),
                    Push([inst.ptrs EXCEPT ![p] = handle_error(def, ptr)], last, news))
      ELSE Instance(inst.status,
                    Push([inst.ptrs EXCEPT ![p] = process_result(ptr, r)], last, news))

\* The `when' condition of the step is false: its first outcome is taken.
SkipSuccessor(def, ptrs, p) ==
  LET step == def.steps[ptrs[p].step]
  IN  Continue(ptrs, p, IF step.outcomes = <<>> THEN NoStep ELSE step.outcomes[1].next)

ApplySkip(def, inst, p, last) ==
  LET ptr == [inst.ptrs[p] EXCEPT !.status = "Skipped", !.active = FALSE]
  IN  Instance(inst.status, Push([inst.ptrs EXCEPT ![p] = ptr], last,
                                 SkipSuccessor(def, inst.ptrs, p)))

\* Step 5 of a pass: an instance with only finished pointers is Complete.
Concluded(inst) ==
  IF inst.status = "Runnable" /\ all_done(inst.ptrs)
  THEN [inst EXCEPT !.status = "Complete"] ELSE inst

\* Slip: only work that can run at once is followed up.
NeedsRequeueNow(inst) == inst.status = "Runnable" /\ Runnable(inst.ptrs) # {}

\* Step 8 of a pass: is there follow-up work to queue?
NeedsRequeue(inst) == inst.status = "Runnable" /\ has_active(inst.ptrs)
=============================================================================
