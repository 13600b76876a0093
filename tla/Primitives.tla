----------------------------- MODULE Primitives -----------------------------
(***************************************************************************)
(* What the step bodies of wfe-core/src/primitives return, as the set of   *)
(* results StepResults(def, ptrs, p) that running pointer p may have.  A   *)
(* condition field is set by whatever factory the user registered, so both *)
(* values are possible on each run unless the definition narrows them.     *)
(* A "task" is any user step body: its results are the definition's.       *)
(* SubWorkflowStep also creates an instance, which is Engine's business;   *)
(* here it is the pure part: wait for the child, then proceed or reject    *)
(* the child's output.                                                     *)
(***************************************************************************)
EXTENDS Pointers

BranchDone(ptrs, p) == is_branch_complete(ptrs, ChildScope(ptrs, p))

\* The children are running: poll the branch, and go on once it is done.
Join(ptrs, p, d, then) == IF BranchDone(ptrs, p) THEN then ELSE {persist(d)}

\* IfStep: the condition is read on the first run only.
IfResults(step, ptrs, p) ==
  IF ptrs[p].data.children
  THEN Join(ptrs, p, ChildrenActive, {next})
  ELSE {IF c THEN branch(<<1>>, ChildrenActive) ELSE next : c \in step.conditions}

\* WhileStep: the condition is read again after each iteration.
WhileResults(step, ptrs, p) ==
  LET Iterate ==
        {IF c THEN branch(<<1>>, ChildrenActive) ELSE next : c \in step.conditions}
  IN  IF ptrs[p].data.children
      THEN Join(ptrs, p, ChildrenActive, Iterate) ELSE Iterate

\* Slip: run_parallel is ignored.
ForEachAtOnce(step, ptrs, p) ==
  CASE step.collection = 0 -> {next}
    [] step.collection > 0 /\ ~ptrs[p].data.children ->
         {branch([i \in 1..step.collection |-> i], ChildrenActive)}
    [] OTHER -> Join(ptrs, p, ChildrenActive, {next})

\* ForEachStep: all items at once, or one item at a time.
ForEachResults(step, ptrs, p) ==
  LET n == step.collection
      d == ptrs[p].data
      At(i) == [ChildrenActive EXCEPT !.index = i]
      ItemBranch(i) == branch(<<i + 1>>, At(i))
  IN  CASE n = 0 -> {next}
        [] n > 0 /\ step.run_parallel /\ ~d.children ->
             {branch([i \in 1..n |-> i], ChildrenActive)}
        [] n > 0 /\ step.run_parallel /\ d.children ->
             Join(ptrs, p, ChildrenActive, {next})
        [] n > 0 /\ ~step.run_parallel /\ ~d.children -> {ItemBranch(d.index)}
        [] OTHER -> Join(ptrs, p, At(d.index),
                         {IF d.index + 1 >= n THEN next ELSE ItemBranch(d.index + 1)})

\* SequenceStep: spawn all children once, then join.
SequenceResults(step, ptrs, p) ==
  LET spawned == \E i \in DOMAIN ptrs : ptrs[i].scope = ChildScope(ptrs, p)
  IN  IF step.children # <<>> /\ ~spawned
      THEN {branch(<<1>>, NoData)}
      ELSE Join(ptrs, p, ChildrenActive, {next})

\* SagaContainerStep: as IfStep, plus a second branch when do_compensate.
SagaResults(step, ptrs, p) ==
  LET Compensating == [ChildrenActive EXCEPT !.compensating = TRUE]
      d == ptrs[p].data
  IN  CASE d.compensating -> Join(ptrs, p, Compensating, {next})
        [] ~d.compensating /\ d.children /\ step.do_compensate ->
             {branch(<<1>>, Compensating)}
        [] ~d.compensating /\ d.children /\ ~step.do_compensate ->
             Join(ptrs, p, ChildrenActive, {next})
        [] OTHER -> {branch(<<1>>, ChildrenActive)}

WaitForResults(ptrs, p) == IF ptrs[p].event THEN {next} ELSE {wait_for_event}

\* SubWorkflowStep: start the child and wait for its completion event, then
\* proceed.  The input or the output schema (when there is one, the
\* definition lists failure among the results) may reject the data.
SubWorkflowResults(step, ptrs, p) ==
  WaitForResults(ptrs, p) \cup (step.results \cap {failure})

ScheduleResults(ptrs, p) ==
  IF ptrs[p].data.children
  THEN Join(ptrs, p, ChildrenActive, {next}) ELSE {sleep(ChildrenActive)}

RecurResults(step, ptrs, p) ==
  (IF TRUE \in step.conditions THEN {next} ELSE {}) \cup
  (IF FALSE \in step.conditions
   THEN IF ptrs[p].data.children
        THEN Join(ptrs, p, ChildrenActive, {sleep(ChildrenActive)})
        ELSE {sleep(ChildrenActive)}
   ELSE {})

DelayResults == {sleep(NoData)}
PollEndpointResults == {poll_endpoint}
DecideResults(step) == {outcome(step.value)}
EndResults == {next}

StepResults(def, ptrs, p) ==
  LET step == def.steps[ptrs[p].step]
  IN  CASE step.kind = "task" -> step.results
        [] step.kind = "if" -> IfResults(step, ptrs, p)
        [] step.kind = "while" -> WhileResults(step, ptrs, p)
        [] step.kind = "foreach" -> ForEachResults(step, ptrs, p)
        [] step.kind = "sequence" -> SequenceResults(step, ptrs, p)
        [] step.kind = "saga" -> SagaResults(step, ptrs, p)
        [] step.kind = "wait_for" -> WaitForResults(ptrs, p)
        [] step.kind = "sub_workflow" -> SubWorkflowResults(step, ptrs, p)
        [] step.kind = "schedule" -> ScheduleResults(ptrs, p)
        [] step.kind = "recur" -> RecurResults(step, ptrs, p)
        [] step.kind = "delay" -> DelayResults
        [] step.kind = "poll_endpoint" -> PollEndpointResults
        [] step.kind = "decide" -> DecideResults(step)
        [] OTHER -> EndResults
=============================================================================
