--------------------------- MODULE PointersProofs ---------------------------
(***************************************************************************)
(* What the operators of Pointers and Primitives return, for every         *)
(* definition: the lemmas on which the type theorems of Executor and       *)
(* Engine rest.                                                            *)
(***************************************************************************)
EXTENDS Primitives, SequenceTheorems, WellFoundedInduction, TLAPS

\* The pointers of an instance, as IsInstance has them.
IsPointers(ptrs) ==
  /\ DOMAIN ptrs \subseteq Nat \ {NoPointer}
  /\ ptrs = [i \in DOMAIN ptrs |-> ptrs[i]]
  /\ \A i \in DOMAIN ptrs : ptrs[i] \in ExecutionPointer

\* `First' picks an element: sets of positions have a least one.
LEMMA FirstIn ==
  ASSUME NEW S \in SUBSET Nat, S # {}
  PROVE  First(S) \in S
<1>. DEFINE R == {ss \in Nat \X Nat : ss[1] < ss[2]}
<1>1. IsWellFoundedOn(R, Nat)
  BY NatLessThanWellFounded DEF OpToRel
<1>2. PICK x \in S : \A y \in S : ~(<<y, x>> \in R)
  <2>. HIDE DEF R
  <2>. QED  BY <1>1, WFMin
<1>3. \A y \in S : x <= y
  <2>. SUFFICES ASSUME NEW y \in S, ~(x <= y) PROVE FALSE
    OBVIOUS
  <2>1. x \in Nat /\ y \in Nat /\ y < x  OBVIOUS
  <2>2. <<y, x>> \in R  BY <2>1
  <2>. QED  BY <2>2, <1>2
<1>. QED  BY <1>3 DEF First

\* A pointer that is created, by start_workflow or process_result, is well formed.
LEMMA NewPointerType ==
  ASSUME NEW step \in Nat, NEW pred \in Nat, NEW scope \in Seq(Nat), NEW item \in Nat
  PROVE  NewPointer(step, pred, scope, item) \in ExecutionPointer
BY DEF NewPointer, ExecutionPointer, PointerStatus, NoData, PersistenceData

\* The outcome that is taken leads to a step id, or there is none.
LEMMA FindNextStepType ==
  ASSUME NEW step \in WorkflowStep, NEW value \in Value
  PROVE  find_next_step(step, value) \in Nat \cup {NoStep}
<1>. DEFINE M(v) == {i \in DOMAIN step.outcomes : step.outcomes[i].value = v}
<1>1. step.outcomes \in Seq(StepOutcome)
  BY DEF WorkflowStep
<1>2. \A i \in DOMAIN step.outcomes : step.outcomes[i] \in StepOutcome
  BY <1>1, ElementOfSeq
<1>3. \A i \in DOMAIN step.outcomes : step.outcomes[i].next \in Nat
  BY <1>2 DEF StepOutcome
<1>4. \A v : M(v) # {} => step.outcomes[First(M(v))].next \in Nat
  <2>. SUFFICES ASSUME NEW v, M(v) # {}
                PROVE  step.outcomes[First(M(v))].next \in Nat
    OBVIOUS
  <2>1. M(v) \in SUBSET Nat  BY <1>1
  <2>2. First(M(v)) \in M(v)  BY <2>1, FirstIn
  <2>. QED  BY <2>2, <1>3
<1>5. step.outcomes # <<>> => step.outcomes[1].next \in Nat
  <2>. SUFFICES ASSUME step.outcomes # <<>> PROVE 1 \in DOMAIN step.outcomes
    BY <1>3
  <2>. QED  BY <1>1
<1>. QED  BY <1>4, <1>5 DEF find_next_step

\* Positions of the branch values: a quotient stays below its bound.
LEMMA Quotient ==
  ASSUME NEW m \in Nat, NEW n \in Nat, NEW k \in 1..(m * n)
  PROVE  /\ n > 0
         /\ ((k - 1) % n) + 1 \in 1..n
         /\ ((k - 1) \div n) + 1 \in 1..m
<1>1. n > 0
  <2>. SUFFICES ASSUME n = 0 PROVE FALSE  OBVIOUS
  <2>. QED  OBVIOUS
<1>2. (k - 1) % n \in 0..(n - 1)
  BY <1>1
<1>. DEFINE q == (k - 1) \div n
<1>3. q \in Nat /\ n * q <= k - 1
  BY <1>1
<1>4. q < m
  <2>. SUFFICES ASSUME q >= m PROVE FALSE  BY <1>3
  <2>1. n * q >= n * m  BY <1>3
  <2>. QED  BY <2>1, <1>3
<1>. QED  BY <1>1, <1>2, <1>3, <1>4

-----------------------------------------------------------------------------
(* The pointers a result adds.                                             *)

\* The successor or compensation of a pointer: none, or one pointer.
LEMMA ContinueType ==
  ASSUME NEW ptrs, IsPointers(ptrs), NEW p \in DOMAIN ptrs, NEW nxt \in Nat \cup {NoStep}
  PROVE  Continue(ptrs, p, nxt) \in Seq(ExecutionPointer)
<1>1. p \in Nat /\ ptrs[p].scope \in Seq(Nat)
  BY DEF IsPointers, ExecutionPointer
<1>2. CASE nxt = NoStep
  BY <1>2 DEF Continue
<1>3. CASE nxt # NoStep
  <2>1. NewPointer(nxt, p, ptrs[p].scope, 0) \in ExecutionPointer
    BY <1>1, <1>3, NewPointerType
  <2>. QED  BY <2>1, <1>3 DEF Continue
<1>. QED  BY <1>2, <1>3

\* The children of a branch result are pointers: every index is in range.
LEMMA BranchesType ==
  ASSUME NEW ptrs, IsPointers(ptrs), NEW p \in DOMAIN ptrs,
         NEW step \in WorkflowStep, NEW items \in Seq(Nat)
  PROVE  Branches(ptrs, p, step, items) \in Seq(ExecutionPointer)
<1>. DEFINE n == Len(step.children)
            m == Len(items)
            child(k) == NewPointer(step.children[((k - 1) % n) + 1], p, ChildScope(ptrs, p),
                                   items[((k - 1) \div n) + 1])
<1>1. p \in Nat /\ ChildScope(ptrs, p) \in Seq(Nat)
  BY DEF IsPointers, ExecutionPointer, ChildScope
<1>2. step.children \in Seq(Nat) /\ n \in Nat /\ m \in Nat
  BY DEF WorkflowStep
<1>3. \A k \in 1..(m * n) : child(k) \in ExecutionPointer
  <2>. SUFFICES ASSUME NEW k \in 1..(m * n) PROVE child(k) \in ExecutionPointer
    OBVIOUS
  <2>1. ((k - 1) % n) + 1 \in 1..n /\ ((k - 1) \div n) + 1 \in 1..m
    <3>. HIDE DEF n, m
    <3>. QED  BY <1>2, Quotient
  <2>2. step.children[((k - 1) % n) + 1] \in Nat
    BY <2>1, <1>2, ElementOfSeq
  <2>3. items[((k - 1) \div n) + 1] \in Nat
    BY <2>1, ElementOfSeq
  <2>. QED  BY <2>2, <2>3, <1>1, NewPointerType
<1>4. m * n \in Nat
  BY <1>2
<1>5. [k \in 1..(m * n) |-> child(k)] \in Seq(ExecutionPointer)
  <2>. HIDE DEF child, n, m
  <2>. QED  BY <1>3, <1>4, IsASeq
<1>. QED  BY <1>5 DEF Branches

\* Pushing new pointers keeps the old ones.
LEMMA PushType ==
  ASSUME NEW ptrs, IsPointers(ptrs), NEW last \in Nat, NEW news \in Seq(ExecutionPointer)
  PROVE  /\ IsPointers(Push(ptrs, last, news))
         /\ DOMAIN ptrs \subseteq DOMAIN Push(ptrs, last, news)
<1>. DEFINE D == DOMAIN ptrs \cup (last + 1)..(last + Len(news))
<1>1. DOMAIN Push(ptrs, last, news) = D
  BY DEF Push
<1>2. D \subseteq Nat \ {NoPointer}
  BY DEF IsPointers, NoPointer
<1>3. \A i \in D : Push(ptrs, last, news)[i] \in ExecutionPointer
  <2>. SUFFICES ASSUME NEW i \in D PROVE Push(ptrs, last, news)[i] \in ExecutionPointer
    OBVIOUS
  <2>1. CASE i \in DOMAIN ptrs
    BY <2>1 DEF Push, IsPointers
  <2>2. CASE i \notin DOMAIN ptrs
    <3>1. i - last \in 1..Len(news)  BY <2>2
    <3>2. news[i - last] \in ExecutionPointer  BY <3>1, ElementOfSeq
    <3>. QED  BY <3>2, <2>2 DEF Push
  <2>. QED  BY <2>1, <2>2
<1>4. Push(ptrs, last, news) = [i \in D |-> Push(ptrs, last, news)[i]]
  BY DEF Push
<1>. QED  BY <1>1, <1>2, <1>3, <1>4 DEF IsPointers

\* handle_error always finds a behaviour, the step's or the default.
LEMMA BehaviorType ==
  ASSUME NEW def, IsDefinition(def), NEW s \in DOMAIN def.steps
  PROVE  BehaviorOf(def, s) \in ErrorBehavior
BY DEF IsDefinition, BehaviorOf, WorkflowStep, Inherit

\* What process_result and handle_error push are pointers.
LEMMA NewPointersType ==
  ASSUME NEW def, IsDefinition(def), NEW ptrs, IsPointers(ptrs), NEW p \in DOMAIN ptrs,
         ptrs[p].step \in DOMAIN def.steps, NEW r \in ExecutionResult
  PROVE  new_pointers(def, ptrs, p, r) \in Seq(ExecutionPointer)
<1>. DEFINE step == def.steps[ptrs[p].step]
<1>1. step \in WorkflowStep /\ step.compensation_step_id \in Nat \cup {NoStep}
  BY DEF IsDefinition
<1>2. r.value \in Value /\ r.items \in Seq(Nat)
  BY DEF ExecutionResult
<1>3. find_next_step(step, r.value) \in Nat \cup {NoStep}
  BY <1>1, <1>2, FindNextStepType
<1>4. Continue(ptrs, p, find_next_step(step, r.value)) \in Seq(ExecutionPointer)
  BY <1>3, ContinueType
<1>5. Branches(ptrs, p, step, r.items) \in Seq(ExecutionPointer)
  BY <1>1, <1>2, BranchesType
<1>6. Continue(ptrs, p, step.compensation_step_id) \in Seq(ExecutionPointer)
  BY <1>1, ContinueType
<1>. QED  BY <1>4, <1>5, <1>6 DEF new_pointers

-----------------------------------------------------------------------------
(* The pointer a result is applied to, and the instance.                   *)

\* process_result leaves a well-formed pointer on the same step.
LEMMA ProcessResultType ==
  ASSUME NEW ptr \in ExecutionPointer, NEW r \in ExecutionResult
  PROVE  process_result(ptr, r) \in ExecutionPointer
<1>1. r.data \in PersistenceData /\ r.kind \in ResultKind
  BY DEF ExecutionResult
<1>2. [ptr EXCEPT !.status = "Complete", !.active = FALSE] \in ExecutionPointer
  BY DEF ExecutionPointer, PointerStatus
<1>3. [ptr EXCEPT !.status = "Running", !.data = r.data] \in ExecutionPointer
  BY <1>1 DEF ExecutionPointer, PointerStatus
<1>4. [ptr EXCEPT !.status = "WaitingForEvent", !.active = FALSE] \in ExecutionPointer
  BY DEF ExecutionPointer, PointerStatus
<1>5. [ptr EXCEPT !.status = "Sleeping", !.active = TRUE, !.sleep = "future",
                  !.data = r.data] \in ExecutionPointer
  BY <1>1 DEF ExecutionPointer, PointerStatus
<1>6. [ptr EXCEPT !.status = "Running", !.active = TRUE, !.data = r.data]
        \in ExecutionPointer
  BY <1>1 DEF ExecutionPointer, PointerStatus
<1>. QED  BY <1>2, <1>3, <1>4, <1>5, <1>6 DEF process_result

\* handle_error leaves a well-formed pointer.
LEMMA HandleErrorType ==
  ASSUME NEW def, NEW ptr \in ExecutionPointer
  PROVE  handle_error(def, ptr) \in ExecutionPointer
<1>1. [ptr EXCEPT !.retry = @ + 1, !.status = "Sleeping", !.active = TRUE,
                  !.sleep = "future"] \in ExecutionPointer
  <2>1. ptr.retry + 1 \in Nat
    BY DEF ExecutionPointer
  <2>2. \A n \in Nat : [ptr EXCEPT !.retry = n, !.status = "Sleeping", !.active = TRUE,
                                   !.sleep = "future"] \in ExecutionPointer
    BY DEF ExecutionPointer, PointerStatus
  <2>. QED  BY <2>1, <2>2
<1>2. [ptr EXCEPT !.status = "Failed", !.active = FALSE] \in ExecutionPointer
  BY DEF ExecutionPointer, PointerStatus
<1>. QED  BY <1>1, <1>2 DEF handle_error

\* The status of the instance after an error is a status.
LEMMA WorkflowStatusType ==
  ASSUME NEW def, NEW ptr, NEW status \in WorkflowStatus
  PROVE  workflow_status(def, ptr, status) \in WorkflowStatus
BY DEF workflow_status, WorkflowStatus

\* Writing one pointer in place.
LEMMA UpdateType ==
  ASSUME NEW ptrs, IsPointers(ptrs), NEW p \in DOMAIN ptrs, NEW x \in ExecutionPointer
  PROVE  /\ IsPointers([ptrs EXCEPT ![p] = x])
         /\ DOMAIN [ptrs EXCEPT ![p] = x] = DOMAIN ptrs
BY DEF IsPointers

\* An instance is a status and pointers.
LEMMA InstanceType ==
  ASSUME NEW status \in WorkflowStatus, NEW ptrs, IsPointers(ptrs)
  PROVE  IsInstance(Instance(status, ptrs))
BY DEF IsInstance, Instance, IsPointers

\* ... and has them.
LEMMA InstanceParts ==
  ASSUME NEW inst, IsInstance(inst)
  PROVE  inst.status \in WorkflowStatus /\ IsPointers(inst.ptrs)
BY DEF IsInstance, IsPointers

\* Running a pointer's step: the instance stays well formed, whatever the step
\* returns, and no pointer is dropped.
LEMMA ApplyResultType ==
  ASSUME NEW def, IsDefinition(def), NEW inst, IsInstance(inst),
         NEW p \in DOMAIN inst.ptrs, inst.ptrs[p].step \in DOMAIN def.steps,
         NEW r \in ExecutionResult, NEW last \in Nat
  PROVE  /\ IsInstance(ApplyResult(def, inst, p, r, last))
         /\ DOMAIN inst.ptrs \subseteq DOMAIN ApplyResult(def, inst, p, r, last).ptrs
<1>. DEFINE ptr == [inst.ptrs[p] EXCEPT !.status = "Running"]
            news == new_pointers(def, inst.ptrs, p, r)
            then(x) == Push([inst.ptrs EXCEPT ![p] = x], last, news)
<1>1. inst.status \in WorkflowStatus /\ IsPointers(inst.ptrs)
  BY InstanceParts
<1>2. ptr \in ExecutionPointer
  <2>1. inst.ptrs[p] \in ExecutionPointer
    BY <1>1 DEF IsPointers
  <2>. QED  BY <2>1 DEF ExecutionPointer, PointerStatus
<1>3. news \in Seq(ExecutionPointer)
  BY <1>1, NewPointersType
<1>4. ASSUME NEW x \in ExecutionPointer
      PROVE  IsPointers(then(x)) /\ DOMAIN inst.ptrs \subseteq DOMAIN then(x)
  <2>. HIDE DEF news
  <2>1. IsPointers([inst.ptrs EXCEPT ![p] = x])
        /\ DOMAIN [inst.ptrs EXCEPT ![p] = x] = DOMAIN inst.ptrs
    BY <1>1, UpdateType
  <2>. QED  BY <2>1, <1>3, PushType
<1>5. CASE r.kind = "fail"
  <2>. DEFINE s == workflow_status(def, ptr, inst.status)
              x == handle_error(def, ptr)
  <2>1. s \in WorkflowStatus  BY <1>1, WorkflowStatusType
  <2>2. x \in ExecutionPointer  BY <1>2, HandleErrorType
  <2>3. ApplyResult(def, inst, p, r, last) = Instance(s, then(x))
    BY <1>5 DEF ApplyResult
  <2>. HIDE DEF s, x, then
  <2>4. IsInstance(Instance(s, then(x))) /\ DOMAIN inst.ptrs \subseteq DOMAIN then(x)
    BY <2>1, <2>2, <1>4, InstanceType
  <2>. QED  BY <2>3, <2>4 DEF Instance
<1>6. CASE r.kind # "fail"
  <2>. DEFINE x == process_result(ptr, r)
  <2>1. x \in ExecutionPointer  BY <1>2, ProcessResultType
  <2>2. ApplyResult(def, inst, p, r, last) = Instance(inst.status, then(x))
    BY <1>6 DEF ApplyResult
  <2>. HIDE DEF x, then
  <2>3. IsInstance(Instance(inst.status, then(x))) /\ DOMAIN inst.ptrs \subseteq DOMAIN then(x)
    BY <2>1, <1>1, <1>4, InstanceType
  <2>. QED  BY <2>2, <2>3 DEF Instance
<1>. QED  BY <1>5, <1>6

\* The successor of a skipped step.
LEMMA SkipSuccessorType ==
  ASSUME NEW def, IsDefinition(def), NEW ptrs, IsPointers(ptrs), NEW p \in DOMAIN ptrs,
         ptrs[p].step \in DOMAIN def.steps
  PROVE  SkipSuccessor(def, ptrs, p) \in Seq(ExecutionPointer)
<1>. DEFINE step == def.steps[ptrs[p].step]
            nxt == IF step.outcomes = <<>> THEN NoStep ELSE step.outcomes[1].next
<1>1. step.outcomes \in Seq(StepOutcome)
  BY DEF IsDefinition, WorkflowStep
<1>2. CASE step.outcomes = <<>>
  <2>1. nxt \in Nat \cup {NoStep}  BY <1>2
  <2>. QED  BY <2>1, ContinueType DEF SkipSuccessor
<1>3. CASE step.outcomes # <<>>
  <2>1. step.outcomes[1] \in StepOutcome
    <3>1. 1 \in DOMAIN step.outcomes  BY <1>1, <1>3
    <3>. QED  BY <3>1, <1>1, ElementOfSeq
  <2>2. nxt \in Nat \cup {NoStep}  BY <2>1, <1>3 DEF StepOutcome
  <2>. QED  BY <2>2, ContinueType DEF SkipSuccessor
<1>. QED  BY <1>2, <1>3

\* Skipping a pointer: likewise.
LEMMA ApplySkipType ==
  ASSUME NEW def, IsDefinition(def), NEW inst, IsInstance(inst),
         NEW p \in DOMAIN inst.ptrs, inst.ptrs[p].step \in DOMAIN def.steps,
         NEW last \in Nat
  PROVE  /\ IsInstance(ApplySkip(def, inst, p, last))
         /\ DOMAIN inst.ptrs \subseteq DOMAIN ApplySkip(def, inst, p, last).ptrs
<1>. DEFINE ptr == [inst.ptrs[p] EXCEPT !.status = "Skipped", !.active = FALSE]
            news == SkipSuccessor(def, inst.ptrs, p)
            then == Push([inst.ptrs EXCEPT ![p] = ptr], last, news)
<1>1. inst.status \in WorkflowStatus /\ IsPointers(inst.ptrs)
  BY InstanceParts
<1>2. ptr \in ExecutionPointer
  <2>1. inst.ptrs[p] \in ExecutionPointer
    BY <1>1 DEF IsPointers
  <2>. QED  BY <2>1 DEF ExecutionPointer, PointerStatus
<1>3. news \in Seq(ExecutionPointer)
  BY <1>1, SkipSuccessorType
<1>4. IsPointers(then) /\ DOMAIN inst.ptrs \subseteq DOMAIN then
  <2>. HIDE DEF news, ptr
  <2>1. IsPointers([inst.ptrs EXCEPT ![p] = ptr])
        /\ DOMAIN [inst.ptrs EXCEPT ![p] = ptr] = DOMAIN inst.ptrs
    BY <1>1, <1>2, UpdateType
  <2>. QED  BY <2>1, <1>3, PushType
<1>5. ApplySkip(def, inst, p, last) = Instance(inst.status, then)
  BY DEF ApplySkip
<1>. HIDE DEF then
<1>6. IsInstance(Instance(inst.status, then))
  BY <1>1, <1>4, InstanceType
<1>. QED  BY <1>4, <1>5, <1>6 DEF Instance

\* A new instance is well formed.
LEMMA NewInstanceType ==
  ASSUME NEW def, IsDefinition(def)
  PROVE  IsInstance(NewInstance(def))
<1>. DEFINE D == IF DOMAIN def.steps = {} THEN {} ELSE {1}
            ptrs == [i \in D |-> NewPointer(0, NoPointer, <<>>, 0)]
<1>1. NewPointer(0, NoPointer, <<>>, 0) \in ExecutionPointer
  <2>1. 0 \in Nat /\ NoPointer \in Nat /\ <<>> \in Seq(Nat)  BY DEF NoPointer
  <2>. QED  BY <2>1, NewPointerType
<1>2. IsPointers(ptrs)
  BY <1>1 DEF IsPointers, NoPointer
<1>. HIDE DEF ptrs
<1>3. IsInstance(Instance("Runnable", ptrs))
  BY <1>2, InstanceType DEF WorkflowStatus
<1>. QED  BY <1>3 DEF NewInstance, ptrs

\* The clock changes no more than a sleep_until.
LEMMA AwakeType ==
  ASSUME NEW ptrs, IsPointers(ptrs), NEW p
  PROVE  /\ IsPointers(Awake(ptrs, p)) /\ DOMAIN Awake(ptrs, p) = DOMAIN ptrs
         /\ \A i \in DOMAIN ptrs : Awake(ptrs, p)[i].step = ptrs[i].step
<1>1. DOMAIN Awake(ptrs, p) = DOMAIN ptrs
  BY DEF Awake
<1>2. ASSUME NEW i \in DOMAIN ptrs
      PROVE  Awake(ptrs, p)[i] \in ExecutionPointer /\ Awake(ptrs, p)[i].step = ptrs[i].step
  <2>1. ptrs[i] \in ExecutionPointer  BY DEF IsPointers
  <2>2. /\ [ptrs[i] EXCEPT !.sleep = "past"] \in ExecutionPointer
        /\ [ptrs[i] EXCEPT !.sleep = "past"].step = ptrs[i].step
    BY <2>1 DEF ExecutionPointer
  <2>3. Awake(ptrs, p)[i] = ptrs[i] \/ Awake(ptrs, p)[i] = [ptrs[i] EXCEPT !.sleep = "past"]
    BY DEF Awake
  <2>. QED  BY <2>1, <2>2, <2>3
<1>3. Awake(ptrs, p) = [i \in DOMAIN Awake(ptrs, p) |-> Awake(ptrs, p)[i]]
  BY DEF Awake
<1>. QED  BY <1>1, <1>2, <1>3 DEF IsPointers

\* Step 5 of a pass changes the status only.
LEMMA ConcludedType ==
  ASSUME NEW inst, IsInstance(inst)
  PROVE  /\ IsInstance(Concluded(inst)) /\ Concluded(inst).ptrs = inst.ptrs
         /\ Concluded(inst).status \in {inst.status, "Complete"}
BY DEF Concluded, IsInstance, WorkflowStatus

-----------------------------------------------------------------------------
(* What the step bodies return.                                            *)

\* A result is its four parts.
LEMMA ResultType ==
  ASSUME NEW kind \in ResultKind, NEW value \in Value, NEW items \in Seq(Nat),
         NEW data \in PersistenceData
  PROVE  Result(kind, value, items, data) \in ExecutionResult
BY DEF Result, ExecutionResult

\* The constructors of ExecutionResult.
LEMMA ConstructorTypes ==
  ASSUME NEW e \in PersistenceData
  PROVE  /\ \A items \in Seq(Nat) : branch(items, e) \in ExecutionResult
         /\ branch(<<1>>, e) \in ExecutionResult
         /\ \A i \in Nat : branch(<<i + 1>>, e) \in ExecutionResult
         /\ \A v \in Value : outcome(v) \in ExecutionResult
         /\ persist(e) \in ExecutionResult /\ sleep(e) \in ExecutionResult
         /\ next \in ExecutionResult /\ wait_for_event \in ExecutionResult
         /\ poll_endpoint \in ExecutionResult /\ failure \in ExecutionResult
<1>1. NoData \in PersistenceData
  BY DEF NoData, PersistenceData
<1>2. <<>> \in Seq(Nat) /\ <<1>> \in Seq(Nat) /\ \A i \in Nat : <<i + 1>> \in Seq(Nat)
  OBVIOUS
<1>3. NoValue \in Value
  BY ValueAssumption
<1>4. {"proceed", "branch", "event", "sleep", "poll", "persist", "fail"} \subseteq ResultKind
  BY DEF ResultKind
<1>5. \A k \in ResultKind : Result(k, NoValue, <<>>, NoData) \in ExecutionResult
  BY <1>1, <1>2, <1>3, ResultType
<1>6. \A items \in Seq(Nat) : branch(items, e) \in ExecutionResult
  BY <1>3, <1>4, ResultType DEF branch
<1>7. \A v \in Value : outcome(v) \in ExecutionResult
  BY <1>1, <1>2, <1>4, ResultType DEF outcome
<1>8. persist(e) \in ExecutionResult /\ sleep(e) \in ExecutionResult
  BY <1>2, <1>3, <1>4, ResultType DEF persist, sleep
<1>9. /\ next \in ExecutionResult /\ wait_for_event \in ExecutionResult
      /\ poll_endpoint \in ExecutionResult /\ failure \in ExecutionResult
  BY <1>4, <1>5 DEF next, wait_for_event, poll_endpoint, failure
<1>10. branch(<<1>>, e) \in ExecutionResult /\ \A i \in Nat : branch(<<i + 1>>, e) \in ExecutionResult
  BY <1>2, <1>6
<1>. QED  BY <1>6, <1>7, <1>8, <1>9, <1>10

\* The results of every step body are results, whatever the pointers are.
LEMMA StepResultsType ==
  ASSUME NEW def, IsDefinition(def), NEW ptrs, IsPointers(ptrs), NEW p \in DOMAIN ptrs,
         ptrs[p].step \in DOMAIN def.steps
  PROVE  StepResults(def, ptrs, p) \subseteq ExecutionResult
<1>. DEFINE step == def.steps[ptrs[p].step]
            d == ptrs[p].data
            At(i) == [ChildrenActive EXCEPT !.index = i]
            Compensating == [ChildrenActive EXCEPT !.compensating = TRUE]
<1>1. step \in WorkflowStep
  BY DEF IsDefinition
<1>2. /\ step.results \subseteq ExecutionResult /\ step.collection \in Nat
      /\ step.value \in Value
  BY <1>1 DEF WorkflowStep
<1>3. d \in PersistenceData /\ d.index \in Nat
  BY DEF IsPointers, ExecutionPointer, PersistenceData
<1>4. /\ NoData \in PersistenceData /\ ChildrenActive \in PersistenceData
      /\ Compensating \in PersistenceData
      /\ \A i \in Nat : At(i) \in PersistenceData
  BY DEF NoData, ChildrenActive, PersistenceData
<1>5. ASSUME NEW e \in PersistenceData
      PROVE  /\ branch(<<1>>, e) \in ExecutionResult
             /\ \A items \in Seq(Nat) : branch(items, e) \in ExecutionResult
             /\ \A i \in Nat : branch(<<i + 1>>, e) \in ExecutionResult
  BY ConstructorTypes
<1>6. ASSUME NEW e \in PersistenceData
      PROVE  persist(e) \in ExecutionResult /\ sleep(e) \in ExecutionResult
  BY ConstructorTypes
<1>7. /\ next \in ExecutionResult /\ wait_for_event \in ExecutionResult
      /\ poll_endpoint \in ExecutionResult /\ failure \in ExecutionResult
  BY <1>4, ConstructorTypes
<1>8. outcome(step.value) \in ExecutionResult
  BY <1>2, <1>4, ConstructorTypes
<1>. HIDE DEF step, d, At, Compensating
<1>9. ASSUME NEW e \in PersistenceData, NEW S \in SUBSET ExecutionResult
      PROVE  Join(ptrs, p, e, S) \subseteq ExecutionResult
  BY <1>6 DEF Join
<1>10. {IF c THEN branch(<<1>>, ChildrenActive) ELSE next : c \in step.conditions}
         \subseteq ExecutionResult
  BY <1>4, <1>5, <1>7
<1>11. IfResults(step, ptrs, p) \subseteq ExecutionResult
  BY <1>4, <1>7, <1>9, <1>10 DEF IfResults
<1>12. WhileResults(step, ptrs, p) \subseteq ExecutionResult
  BY <1>4, <1>9, <1>10 DEF WhileResults
<1>13. ForEachResults(step, ptrs, p) \subseteq ExecutionResult
  <2>1. branch([i \in 1..step.collection |-> i], ChildrenActive) \in ExecutionResult
    <3>1. [i \in 1..step.collection |-> i] \in Seq(Nat)
      BY <1>2, IsASeq
    <3>. QED  BY <3>1, <1>4, <1>5
  <2>2. \A i \in Nat : branch(<<i + 1>>, At(i)) \in ExecutionResult
    BY <1>4, <1>5
  <2>3. Join(ptrs, p, ChildrenActive, {next}) \subseteq ExecutionResult
    BY <1>4, <1>7, <1>9
  <2>. DEFINE r == IF d.index + 1 >= step.collection THEN next
                   ELSE branch(<<(d.index + 1) + 1>>, At(d.index + 1))
  <2>4. r \in ExecutionResult
    BY <2>2, <1>3, <1>7
  <2>. HIDE DEF r
  <2>5. Join(ptrs, p, At(d.index), {r}) \subseteq ExecutionResult
    BY <2>4, <1>3, <1>4, <1>9
  <2>. QED  BY <2>1, <2>2, <2>3, <2>5, <1>3, <1>7 DEF ForEachResults, d, At, r
<1>14. SequenceResults(step, ptrs, p) \subseteq ExecutionResult
  BY <1>4, <1>5, <1>7, <1>9 DEF SequenceResults
<1>15. SagaResults(step, ptrs, p) \subseteq ExecutionResult
  <2>1. branch(<<1>>, ChildrenActive) \in ExecutionResult
        /\ branch(<<1>>, Compensating) \in ExecutionResult
    BY <1>4, <1>5
  <2>2. Join(ptrs, p, ChildrenActive, {next}) \subseteq ExecutionResult
        /\ Join(ptrs, p, Compensating, {next}) \subseteq ExecutionResult
    BY <1>4, <1>7, <1>9
  <2>. QED  BY <2>1, <2>2 DEF SagaResults, Compensating
<1>16. WaitForResults(ptrs, p) \subseteq ExecutionResult
  BY <1>7 DEF WaitForResults
<1>17. SubWorkflowResults(step, ptrs, p) \subseteq ExecutionResult
  BY <1>2, <1>16 DEF SubWorkflowResults
<1>18. ScheduleResults(ptrs, p) \subseteq ExecutionResult
  BY <1>4, <1>6, <1>7, <1>9 DEF ScheduleResults
<1>19. RecurResults(step, ptrs, p) \subseteq ExecutionResult
  <2>1. sleep(ChildrenActive) \in ExecutionResult  BY <1>4, <1>6
  <2>2. Join(ptrs, p, ChildrenActive, {sleep(ChildrenActive)}) \subseteq ExecutionResult
    BY <2>1, <1>4, <1>9
  <2>. QED  BY <2>1, <2>2, <1>7 DEF RecurResults
<1>20. /\ DelayResults \subseteq ExecutionResult /\ PollEndpointResults \subseteq ExecutionResult
       /\ DecideResults(step) \subseteq ExecutionResult /\ EndResults \subseteq ExecutionResult
  BY <1>4, <1>6, <1>7, <1>8 DEF DelayResults, PollEndpointResults, DecideResults, EndResults
<1>. QED
  BY <1>2, <1>11, <1>12, <1>13, <1>14, <1>15, <1>16, <1>17, <1>18, <1>19, <1>20
     DEF StepResults, step

-----------------------------------------------------------------------------
(* What running or skipping a pointer does to all the pointers.            *)

\* A pointer that has just been created.
Fresh(ptr) ==
  /\ ptr.status = "Pending" /\ ptr.active /\ ptr.sleep = "none"
  /\ ~ptr.event /\ ptr.data = NoData

\* The pointer after its step was run with result r.
After(d, ptr, r) ==
  LET running == [ptr EXCEPT !.status = "Running"]
  IN  IF r.kind = "fail" THEN handle_error(d, running) ELSE process_result(running, r)

\* Running or skipping p writes p, on the same step and in the same scope, and
\* adds fresh pointers: beside p, without an item, or below p.
Grows(old, new, p) ==
  /\ DOMAIN old \subseteq DOMAIN new
  /\ \A i \in DOMAIN old : i # p => new[i] = old[i]
  /\ new[p].step = old[p].step /\ new[p].scope = old[p].scope
  /\ new[p].item = old[p].item /\ new[p].event = old[p].event
  /\ \A i \in DOMAIN new \ DOMAIN old :
       /\ Fresh(new[i])
       /\ \/ new[i].scope = old[p].scope /\ new[i].item = 0
          \/ new[i].scope = ChildScope(old, p)

\* A new pointer has the step, the scope and the item it was created with.
LEMMA NewPointerFields ==
  ASSUME NEW step, NEW pred, NEW scope, NEW item
  PROVE  /\ Fresh(NewPointer(step, pred, scope, item))
         /\ NewPointer(step, pred, scope, item).step = step
         /\ NewPointer(step, pred, scope, item).scope = scope
         /\ NewPointer(step, pred, scope, item).item = item
BY DEF NewPointer, Fresh

\* A successor or a compensation continues in the scope of the pointer.
LEMMA ContinueFields ==
  ASSUME NEW ptrs, NEW p, NEW nxt, NEW i \in DOMAIN Continue(ptrs, p, nxt)
  PROVE  /\ nxt # NoStep
         /\ Fresh(Continue(ptrs, p, nxt)[i]) /\ Continue(ptrs, p, nxt)[i].step = nxt
         /\ Continue(ptrs, p, nxt)[i].scope = ptrs[p].scope
         /\ Continue(ptrs, p, nxt)[i].item = 0
<1>1. nxt # NoStep
  BY DEF Continue
<1>2. i = 1 /\ Continue(ptrs, p, nxt)[i] = NewPointer(nxt, p, ptrs[p].scope, 0)
  BY <1>1 DEF Continue
<1>. QED  BY <1>1, <1>2, NewPointerFields

\* The children of a branch are in the scope below the pointer, one for each
\* child step and branch value.
LEMMA BranchesFields ==
  ASSUME NEW ptrs, NEW p, NEW step \in WorkflowStep, NEW items \in Seq(Nat),
         NEW i \in DOMAIN Branches(ptrs, p, step, items)
  PROVE  /\ step.children # <<>>
         /\ Fresh(Branches(ptrs, p, step, items)[i])
         /\ Branches(ptrs, p, step, items)[i].scope = ChildScope(ptrs, p)
         /\ Branches(ptrs, p, step, items)[i].step \in
              {step.children[j] : j \in DOMAIN step.children}
         /\ \E j \in DOMAIN items : Branches(ptrs, p, step, items)[i].item = items[j]
<1>. DEFINE n == Len(step.children)
            m == Len(items)
            c == ((i - 1) % n) + 1
            j == ((i - 1) \div n) + 1
<1>1. step.children \in Seq(Nat) /\ n \in Nat /\ m \in Nat
  BY DEF WorkflowStep
<1>2. i \in 1..(m * n)
        /\ Branches(ptrs, p, step, items)[i] =
             NewPointer(step.children[c], p, ChildScope(ptrs, p), items[j])
  BY DEF Branches
<1>3. n > 0 /\ c \in 1..n /\ j \in 1..m
  <2>. HIDE DEF n, m
  <2>. QED  BY <1>1, <1>2, Quotient
<1>4. c \in DOMAIN step.children /\ j \in DOMAIN items /\ step.children # <<>>
  <2>. HIDE DEF c, j
  <2>. QED  BY <1>1, <1>3
<1>. HIDE DEF c, j, n, m
<1>. QED  BY <1>2, <1>4, NewPointerFields

\* What process_result and handle_error push.
LEMMA NewPointersFields ==
  ASSUME NEW d, IsDefinition(d), NEW ptrs, IsPointers(ptrs), NEW p \in DOMAIN ptrs,
         ptrs[p].step \in DOMAIN d.steps, NEW r \in ExecutionResult,
         NEW i \in DOMAIN new_pointers(d, ptrs, p, r)
  PROVE  /\ Fresh(new_pointers(d, ptrs, p, r)[i])
         /\ r.kind # "branch" => /\ new_pointers(d, ptrs, p, r)[i].scope = ptrs[p].scope
                                 /\ new_pointers(d, ptrs, p, r)[i].item = 0
         /\ r.kind = "branch" =>
              /\ d.steps[ptrs[p].step].children # <<>>
              /\ new_pointers(d, ptrs, p, r)[i].scope = ChildScope(ptrs, p)
              /\ \E j \in DOMAIN r.items :
                   new_pointers(d, ptrs, p, r)[i].item = r.items[j]
<1>. DEFINE step == d.steps[ptrs[p].step]
<1>1. step \in WorkflowStep /\ r.items \in Seq(Nat)
  BY DEF IsDefinition, ExecutionResult
<1>2. CASE r.kind = "branch"
  <2>1. new_pointers(d, ptrs, p, r) = Branches(ptrs, p, step, r.items)
    BY <1>2 DEF new_pointers
  <2>. DEFINE b == Branches(ptrs, p, step, r.items)
  <2>2. i \in DOMAIN b
    BY <2>1
  <2>3. /\ step.children # <<>> /\ Fresh(b[i]) /\ b[i].scope = ChildScope(ptrs, p)
        /\ \E j \in DOMAIN r.items : b[i].item = r.items[j]
    <3>. HIDE DEF step
    <3>. QED  BY <2>2, <1>1, BranchesFields
  <2>. HIDE DEF b
  <2>4. new_pointers(d, ptrs, p, r) = b
    BY <2>1 DEF b
  <2>. QED  BY <2>3, <2>4, <1>2
<1>3. CASE r.kind # "branch"
  <2>1. PICK nxt : new_pointers(d, ptrs, p, r) = Continue(ptrs, p, nxt)
    <3>1. CASE r.kind = "proceed"
      BY <3>1 DEF new_pointers
    <3>2. CASE r.kind = "fail" /\ BehaviorOf(d, ptrs[p].step).kind = "Compensate"
      BY <3>2 DEF new_pointers
    <3>3. CASE r.kind # "proceed"
               /\ ~(r.kind = "fail" /\ BehaviorOf(d, ptrs[p].step).kind = "Compensate")
      <4>1. new_pointers(d, ptrs, p, r) = <<>>
        BY <3>3, <1>3 DEF new_pointers
      <4>2. DOMAIN <<>> = {}  OBVIOUS
      <4>. QED  BY <4>1, <4>2
    <3>. QED  BY <3>1, <3>2, <3>3
  <2>. QED  BY <2>1, <1>3, ContinueFields
<1>. QED  BY <1>2, <1>3

\* The pointer itself: what its step returned decides its status.
LEMMA AfterFields ==
  ASSUME NEW d, NEW ptr \in ExecutionPointer, NEW r \in ExecutionResult
  PROVE  /\ After(d, ptr, r).step = ptr.step /\ After(d, ptr, r).scope = ptr.scope
         /\ After(d, ptr, r).item = ptr.item /\ After(d, ptr, r).event = ptr.event
         /\ r.kind = "proceed" => /\ After(d, ptr, r).status = "Complete"
                                  /\ After(d, ptr, r).sleep = ptr.sleep
                                  /\ After(d, ptr, r).data = ptr.data
         /\ r.kind = "event" => /\ After(d, ptr, r).status = "WaitingForEvent"
                                /\ After(d, ptr, r).sleep = ptr.sleep
                                /\ After(d, ptr, r).data = ptr.data
         /\ r.kind = "branch" => /\ After(d, ptr, r).status = "Running"
                                 /\ After(d, ptr, r).active = ptr.active
                                 /\ After(d, ptr, r).sleep = ptr.sleep
                                 /\ After(d, ptr, r).data = r.data
         /\ r.kind = "persist" => /\ After(d, ptr, r).status = "Running"
                                  /\ After(d, ptr, r).active
                                  /\ After(d, ptr, r).sleep = ptr.sleep
                                  /\ After(d, ptr, r).data = r.data
         /\ r.kind \in {"sleep", "poll"} => /\ After(d, ptr, r).status = "Sleeping"
                                            /\ After(d, ptr, r).active
                                            /\ After(d, ptr, r).data = r.data
         /\ r.kind = "fail" =>
              /\ After(d, ptr, r).data = ptr.data
              /\ \/ After(d, ptr, r).status = "Sleeping" /\ After(d, ptr, r).active
                 \/ After(d, ptr, r).status = "Failed" /\ After(d, ptr, r).sleep = ptr.sleep
<1>. DEFINE running == [ptr EXCEPT !.status = "Running"]
<1>1. /\ running.step = ptr.step /\ running.scope = ptr.scope /\ running.item = ptr.item
      /\ running.event = ptr.event /\ running.sleep = ptr.sleep /\ running.data = ptr.data
      /\ running.active = ptr.active /\ running \in ExecutionPointer
  BY DEF ExecutionPointer, PointerStatus
<1>2. r.kind = "fail" => After(d, ptr, r) = handle_error(d, running)
  BY DEF After
<1>3. r.kind # "fail" => After(d, ptr, r) = process_result(running, r)
  BY DEF After
<1>. HIDE DEF running
<1>4. CASE r.kind = "fail"
  <2>1. \/ handle_error(d, running) = [running EXCEPT !.retry = @ + 1, !.status = "Sleeping",
                                         !.active = TRUE, !.sleep = "future"]
        \/ handle_error(d, running) = [running EXCEPT !.status = "Failed", !.active = FALSE]
    BY DEF handle_error
  <2>2. CASE handle_error(d, running) = [running EXCEPT !.status = "Failed", !.active = FALSE]
    <3>. DEFINE x == [running EXCEPT !.status = "Failed", !.active = FALSE]
    <3>1. /\ x.step = ptr.step /\ x.scope = ptr.scope /\ x.item = ptr.item
          /\ x.event = ptr.event /\ x.data = ptr.data /\ x.sleep = ptr.sleep
          /\ x.status = "Failed"
      BY <1>1 DEF ExecutionPointer
    <3>2. After(d, ptr, r) = x
      BY <2>2, <1>2, <1>4
    <3>. HIDE DEF x
    <3>. QED  BY <3>1, <3>2, <1>4
  <2>3. CASE handle_error(d, running) = [running EXCEPT !.retry = @ + 1, !.status = "Sleeping",
                                           !.active = TRUE, !.sleep = "future"]
    <3>. DEFINE x == [running EXCEPT !.retry = @ + 1, !.status = "Sleeping",
                                     !.active = TRUE, !.sleep = "future"]
    <3>1. /\ x.step = ptr.step /\ x.scope = ptr.scope /\ x.item = ptr.item
          /\ x.event = ptr.event /\ x.data = ptr.data
          /\ x.status = "Sleeping" /\ x.active
      BY <1>1 DEF ExecutionPointer
    <3>2. After(d, ptr, r) = x
      BY <2>3, <1>2, <1>4
    <3>. HIDE DEF x
    <3>. QED  BY <3>1, <3>2, <1>4
  <2>. QED  BY <2>1, <2>2, <2>3
<1>5. CASE r.kind = "proceed"
  BY <1>1, <1>3, <1>5 DEF process_result, ExecutionPointer
<1>6. CASE r.kind = "event"
  BY <1>1, <1>3, <1>6 DEF process_result, ExecutionPointer
<1>7. CASE r.kind = "branch"
  BY <1>1, <1>3, <1>7 DEF process_result, ExecutionPointer
<1>8. CASE r.kind = "persist"
  BY <1>1, <1>3, <1>8 DEF process_result, ExecutionPointer
<1>9. CASE r.kind \in {"sleep", "poll"}
  BY <1>1, <1>3, <1>9 DEF process_result, ExecutionPointer
<1>. QED  BY <1>4, <1>5, <1>6, <1>7, <1>8, <1>9 DEF ExecutionResult, ResultKind

\* Ids are handed out in order, so they are consecutive.
Numbered(ptrs) == \E n \in Nat : DOMAIN ptrs = 1..n

\* Pushed pointers come after the old ones, which stay.
LEMMA PushFields ==
  ASSUME NEW ptrs, NEW last \in Nat, NEW news \in Seq(ExecutionPointer)
  PROVE  /\ DOMAIN Push(ptrs, last, news) = DOMAIN ptrs \cup (last + 1)..(last + Len(news))
         /\ \A i \in DOMAIN ptrs : Push(ptrs, last, news)[i] = ptrs[i]
         /\ \A i \in DOMAIN Push(ptrs, last, news) \ DOMAIN ptrs :
              i - last \in DOMAIN news /\ Push(ptrs, last, news)[i] = news[i - last]
         /\ DOMAIN ptrs = 1..last => Numbered(Push(ptrs, last, news))
<1>. DEFINE D == DOMAIN ptrs \cup (last + 1)..(last + Len(news))
<1>1. DOMAIN Push(ptrs, last, news) = D
  BY DEF Push
<1>2. Len(news) \in Nat /\ DOMAIN news = 1..Len(news)
  OBVIOUS
<1>3. \A i \in DOMAIN ptrs : Push(ptrs, last, news)[i] = ptrs[i]
  BY DEF Push
<1>4. ASSUME NEW i \in D \ DOMAIN ptrs
      PROVE  i - last \in DOMAIN news /\ Push(ptrs, last, news)[i] = news[i - last]
  <2>1. i \in (last + 1)..(last + Len(news))
    OBVIOUS
  <2>2. i - last \in 1..Len(news)
    BY <2>1, <1>2
  <2>. QED  BY <2>2, <1>2 DEF Push
<1>5. DOMAIN ptrs = 1..last => Numbered(Push(ptrs, last, news))
  <2>. SUFFICES ASSUME DOMAIN ptrs = 1..last PROVE Numbered(Push(ptrs, last, news))
    OBVIOUS
  <2>1. last + Len(news) \in Nat
    BY <1>2
  <2>2. D = 1..(last + Len(news))
    BY <1>2
  <2>. QED  BY <2>1, <2>2, <1>1 DEF Numbered
<1>. QED  BY <1>1, <1>3, <1>4, <1>5

\* Running pointer p of an instance.
LEMMA ApplyResultGrows ==
  ASSUME NEW d, IsDefinition(d), NEW inst, IsInstance(inst), NEW p \in DOMAIN inst.ptrs,
         inst.ptrs[p].step \in DOMAIN d.steps, NEW r \in ExecutionResult, NEW last \in Nat,
         NEW new, new = ApplyResult(d, inst, p, r, last).ptrs
  PROVE  /\ Grows(inst.ptrs, new, p) /\ new[p] = After(d, inst.ptrs[p], r)
         /\ \A i \in DOMAIN new \ DOMAIN inst.ptrs :
              \E k \in DOMAIN new_pointers(d, inst.ptrs, p, r) :
                new[i] = new_pointers(d, inst.ptrs, p, r)[k]
         /\ DOMAIN inst.ptrs = 1..last => Numbered(new)
<1>. DEFINE x == After(d, inst.ptrs[p], r)
            news == new_pointers(d, inst.ptrs, p, r)
            here == [inst.ptrs EXCEPT ![p] = x]
<1>1. IsPointers(inst.ptrs) /\ inst.ptrs[p] \in ExecutionPointer
  BY InstanceParts DEF IsPointers
<1>2. new = Push(here, last, news)
  BY DEF ApplyResult, After, Instance
<1>3. news \in Seq(ExecutionPointer)
  BY <1>1, NewPointersType
<1>4. /\ DOMAIN here = DOMAIN inst.ptrs /\ here[p] = x
      /\ \A i \in DOMAIN inst.ptrs : i # p => here[i] = inst.ptrs[i]
  BY <1>1 DEF IsPointers
<1>5. /\ x.step = inst.ptrs[p].step /\ x.scope = inst.ptrs[p].scope
      /\ x.item = inst.ptrs[p].item /\ x.event = inst.ptrs[p].event
  BY <1>1, AfterFields
<1>6. /\ DOMAIN here \subseteq DOMAIN new
      /\ \A i \in DOMAIN here : new[i] = here[i]
      /\ \A i \in DOMAIN new \ DOMAIN here : \E k \in DOMAIN news : new[i] = news[k]
      /\ DOMAIN here = 1..last => Numbered(new)
  <2>. HIDE DEF here, news
  <2>1. /\ DOMAIN Push(here, last, news) = DOMAIN here \cup (last + 1)..(last + Len(news))
        /\ \A i \in DOMAIN here : Push(here, last, news)[i] = here[i]
        /\ \A i \in DOMAIN Push(here, last, news) \ DOMAIN here :
             i - last \in DOMAIN news /\ Push(here, last, news)[i] = news[i - last]
        /\ DOMAIN here = 1..last => Numbered(Push(here, last, news))
    BY <1>3, PushFields
  <2>. QED  BY <2>1, <1>2
<1>7. ASSUME NEW k \in DOMAIN news
      PROVE  /\ Fresh(news[k])
             /\ \/ news[k].scope = inst.ptrs[p].scope /\ news[k].item = 0
                \/ news[k].scope = ChildScope(inst.ptrs, p)
  BY <1>1, NewPointersFields
<1>. HIDE DEF x, news, here
<1>8. new[p] = x
  BY <1>4, <1>6
<1>. QED
  <2>1. Grows(inst.ptrs, new, p)
    BY <1>4, <1>5, <1>6, <1>7, <1>8 DEF Grows
  <2>. QED  BY <2>1, <1>4, <1>6, <1>8 DEF x, news

\* Skipping it.
LEMMA ApplySkipGrows ==
  ASSUME NEW d, IsDefinition(d), NEW inst, IsInstance(inst), NEW p \in DOMAIN inst.ptrs,
         inst.ptrs[p].step \in DOMAIN d.steps, NEW last \in Nat,
         NEW new, new = ApplySkip(d, inst, p, last).ptrs
  PROVE  /\ Grows(inst.ptrs, new, p)
         /\ new[p].status = "Skipped" /\ new[p].sleep = inst.ptrs[p].sleep
         /\ new[p].data = inst.ptrs[p].data
         /\ \A i \in DOMAIN new \ DOMAIN inst.ptrs :
              /\ d.steps[inst.ptrs[p].step].outcomes # <<>>
              /\ new[i].step = d.steps[inst.ptrs[p].step].outcomes[1].next
              /\ new[i].scope = inst.ptrs[p].scope /\ new[i].item = 0
         /\ DOMAIN inst.ptrs = 1..last => Numbered(new)
<1>. DEFINE x == [inst.ptrs[p] EXCEPT !.status = "Skipped", !.active = FALSE]
            step == d.steps[inst.ptrs[p].step]
            nxt == IF step.outcomes = <<>> THEN NoStep ELSE step.outcomes[1].next
            news == SkipSuccessor(d, inst.ptrs, p)
            here == [inst.ptrs EXCEPT ![p] = x]
<1>1. IsPointers(inst.ptrs) /\ inst.ptrs[p] \in ExecutionPointer
  BY InstanceParts DEF IsPointers
<1>2. new = Push(here, last, news)
  BY DEF ApplySkip, Instance
<1>3. news \in Seq(ExecutionPointer) /\ news = Continue(inst.ptrs, p, nxt)
  BY <1>1, SkipSuccessorType DEF SkipSuccessor
<1>4. /\ DOMAIN here = DOMAIN inst.ptrs /\ here[p] = x
      /\ \A i \in DOMAIN inst.ptrs : i # p => here[i] = inst.ptrs[i]
  BY <1>1 DEF IsPointers
<1>5. /\ x.step = inst.ptrs[p].step /\ x.scope = inst.ptrs[p].scope
      /\ x.item = inst.ptrs[p].item /\ x.event = inst.ptrs[p].event
      /\ x.status = "Skipped" /\ x.sleep = inst.ptrs[p].sleep /\ x.data = inst.ptrs[p].data
  BY <1>1 DEF ExecutionPointer
<1>6. /\ DOMAIN here \subseteq DOMAIN new
      /\ \A i \in DOMAIN here : new[i] = here[i]
      /\ \A i \in DOMAIN new \ DOMAIN here : \E k \in DOMAIN news : new[i] = news[k]
      /\ DOMAIN here = 1..last => Numbered(new)
  <2>. HIDE DEF here, news
  <2>1. /\ DOMAIN Push(here, last, news) = DOMAIN here \cup (last + 1)..(last + Len(news))
        /\ \A i \in DOMAIN here : Push(here, last, news)[i] = here[i]
        /\ \A i \in DOMAIN Push(here, last, news) \ DOMAIN here :
             i - last \in DOMAIN news /\ Push(here, last, news)[i] = news[i - last]
        /\ DOMAIN here = 1..last => Numbered(Push(here, last, news))
    BY <1>3, PushFields
  <2>. QED  BY <2>1, <1>2
<1>7. ASSUME NEW k \in DOMAIN news
      PROVE  /\ Fresh(news[k]) /\ news[k].scope = inst.ptrs[p].scope /\ news[k].item = 0
             /\ step.outcomes # <<>> /\ news[k].step = step.outcomes[1].next
  <2>. HIDE DEF news, step
  <2>1. /\ nxt # NoStep /\ Fresh(news[k]) /\ news[k].step = nxt
        /\ news[k].scope = inst.ptrs[p].scope /\ news[k].item = 0
    BY <1>3, ContinueFields
  <2>. QED  BY <2>1
<1>. HIDE DEF x, news, here, step
<1>8. new[p] = x
  BY <1>4, <1>6
<1>. QED
  <2>1. Grows(inst.ptrs, new, p)
    BY <1>4, <1>5, <1>6, <1>7, <1>8 DEF Grows
  <2>2. ASSUME NEW i \in DOMAIN new \ DOMAIN inst.ptrs
        PROVE  /\ step.outcomes # <<>> /\ new[i].step = step.outcomes[1].next
               /\ new[i].scope = inst.ptrs[p].scope /\ new[i].item = 0
    BY <1>4, <1>6, <1>7
  <2>. QED  BY <2>1, <2>2, <1>4, <1>5, <1>6, <1>8 DEF step

\* The clock changes the wake-up time of a sleeping pointer and nothing else.
LEMMA AwakeFields ==
  ASSUME NEW ptrs, IsPointers(ptrs), NEW p, NEW i \in DOMAIN ptrs
  PROVE  /\ Awake(ptrs, p)[i].step = ptrs[i].step
         /\ Awake(ptrs, p)[i].status = ptrs[i].status
         /\ Awake(ptrs, p)[i].active = ptrs[i].active
         /\ Awake(ptrs, p)[i].event = ptrs[i].event
         /\ Awake(ptrs, p)[i].data = ptrs[i].data
         /\ Awake(ptrs, p)[i].scope = ptrs[i].scope
         /\ Awake(ptrs, p)[i].item = ptrs[i].item
         /\ Awake(ptrs, p)[i].sleep = "future" => ptrs[i].sleep = "future"
         /\ ptrs[i].sleep # "future" => Awake(ptrs, p)[i] = ptrs[i]
<1>1. ptrs[i] \in ExecutionPointer
  BY DEF IsPointers
<1>2. CASE i = p /\ ptrs[i].sleep = "future"
  <2>. DEFINE x == [ptrs[i] EXCEPT !.sleep = "past"]
  <2>1. Awake(ptrs, p)[i] = x
    BY <1>2 DEF Awake
  <2>2. /\ x.step = ptrs[i].step /\ x.status = ptrs[i].status /\ x.active = ptrs[i].active
        /\ x.event = ptrs[i].event /\ x.data = ptrs[i].data /\ x.scope = ptrs[i].scope
        /\ x.item = ptrs[i].item /\ x.sleep = "past"
    BY <1>1 DEF ExecutionPointer
  <2>. HIDE DEF x
  <2>. QED  BY <2>1, <2>2, <1>2
<1>3. CASE ~(i = p /\ ptrs[i].sleep = "future")
  <2>1. Awake(ptrs, p)[i] = ptrs[i]
    BY <1>3 DEF Awake
  <2>. QED  BY <2>1
<1>. QED  BY <1>2, <1>3

-----------------------------------------------------------------------------
(* One copy of an instance, and an older one, under a step of a pass and   *)
(* under the clock.                                                        *)

\* A wake-up time in the future belongs to a Sleeping pointer.
SleepOK(ptrs) == \A p \in DOMAIN ptrs : ptrs[p].sleep = "future" => ptrs[p].status = "Sleeping"

\* `new' has every pointer of `old', the finished ones as they were.
Carries(old, new) ==
  \A p \in DOMAIN old : p \in DOMAIN new /\ (Done(old, p) => new[p] = old[p])

\* A pointer that can be run has not finished.
LEMMA RunnableNotDone ==
  ASSUME NEW ptrs, NEW p \in DOMAIN ptrs, is_pointer_runnable(ptrs[p]), SleepOK(ptrs)
  PROVE  ~Done(ptrs, p) /\ ptrs[p].sleep # "future" /\ ptrs[p].active
BY DEF is_pointer_runnable, Done, DoneStatus, SleepOK

LEMMA GrowsSleepOK ==
  ASSUME NEW old, NEW new, NEW p \in DOMAIN old, Grows(old, new, p), SleepOK(old),
         new[p].sleep = "future" => new[p].status = "Sleeping"
  PROVE  SleepOK(new)
<1>. SUFFICES ASSUME NEW i \in DOMAIN new, new[i].sleep = "future"
              PROVE  new[i].status = "Sleeping"
  BY DEF SleepOK
<1>1. CASE i \in DOMAIN old
  BY <1>1 DEF Grows, SleepOK
<1>2. CASE i \notin DOMAIN old
  BY <1>2 DEF Grows, Fresh
<1>. QED  BY <1>1, <1>2

\* What an older copy knows as finished is not touched.
LEMMA GrowsCarries ==
  ASSUME NEW a, NEW old, NEW new, NEW p \in DOMAIN old, Grows(old, new, p),
         ~Done(old, p), Carries(a, old)
  PROVE  Carries(a, new)
<1>. SUFFICES ASSUME NEW i \in DOMAIN a
              PROVE  i \in DOMAIN new /\ (Done(a, i) => new[i] = a[i])
  BY DEF Carries
<1>1. i \in DOMAIN old /\ (Done(a, i) => old[i] = a[i])
  BY DEF Carries
<1>2. Done(a, i) => i # p
  BY <1>1 DEF Done
<1>. QED  BY <1>1, <1>2 DEF Grows

LEMMA AwakeSleepOK ==
  ASSUME NEW ptrs, IsPointers(ptrs), NEW p, SleepOK(ptrs)
  PROVE  SleepOK(Awake(ptrs, p))
<1>1. DOMAIN Awake(ptrs, p) = DOMAIN ptrs
  BY DEF Awake
<1>. QED  BY <1>1, AwakeFields DEF SleepOK

\* The clock is the same for every copy.
LEMMA AwakeCarries ==
  ASSUME NEW a, IsPointers(a), NEW b, IsPointers(b), NEW p, Carries(a, b)
  PROVE  Carries(Awake(a, p), Awake(b, p))
<1>1. DOMAIN Awake(a, p) = DOMAIN a /\ DOMAIN Awake(b, p) = DOMAIN b
  BY DEF Awake
<1>. SUFFICES ASSUME NEW i \in DOMAIN a
              PROVE  /\ i \in DOMAIN b
                     /\ Done(Awake(a, p), i) => Awake(b, p)[i] = Awake(a, p)[i]
  BY <1>1 DEF Carries
<1>2. Done(Awake(a, p), i) => Done(a, i)
  BY AwakeFields DEF Done
<1>3. i \in DOMAIN b /\ (Done(a, i) => b[i] = a[i])
  BY DEF Carries
<1>4. i \in DOMAIN b /\ b[i] = a[i] => Awake(b, p)[i] = Awake(a, p)[i]
  BY DEF Awake
<1>. QED  BY <1>2, <1>3, <1>4

\* Runnable pointers stay runnable.
LEMMA AwakeRunnable ==
  ASSUME NEW ptrs, IsPointers(ptrs), NEW p, NEW i \in DOMAIN ptrs,
         is_pointer_runnable(ptrs[i])
  PROVE  is_pointer_runnable(Awake(ptrs, p)[i])
BY AwakeFields DEF is_pointer_runnable

LEMMA AwakeNumbered ==
  ASSUME NEW ptrs, NEW p, Numbered(ptrs)
  PROVE  Numbered(Awake(ptrs, p))
BY DEF Awake, Numbered

\* Finished pointers do not sleep, so the clock leaves them alone.
LEMMA AwakeKeepsDone ==
  ASSUME NEW ptrs, IsPointers(ptrs), NEW p, SleepOK(ptrs), NEW i \in DOMAIN ptrs, Done(ptrs, i)
  PROVE  Awake(ptrs, p)[i] = ptrs[i]
<1>1. ptrs[i].sleep # "future"
  BY DEF SleepOK, Done, DoneStatus
<1>. QED  BY <1>1, AwakeFields

-----------------------------------------------------------------------------
(* Sound definitions.                                                      *)

\* The successor that is taken is an outcome of the step.
LEMMA FindNextStepIn ==
  ASSUME NEW step \in WorkflowStep, NEW value
  PROVE  \/ find_next_step(step, value) = NoStep
         \/ \E i \in DOMAIN step.outcomes : find_next_step(step, value) = step.outcomes[i].next
<1>. DEFINE M(v) == {i \in DOMAIN step.outcomes : step.outcomes[i].value = v}
<1>1. step.outcomes \in Seq(StepOutcome)
  BY DEF WorkflowStep
<1>2. \A v : M(v) # {} => First(M(v)) \in DOMAIN step.outcomes
  <2>. SUFFICES ASSUME NEW v, M(v) # {} PROVE First(M(v)) \in DOMAIN step.outcomes
    OBVIOUS
  <2>1. M(v) \in SUBSET Nat
    BY <1>1
  <2>2. First(M(v)) \in M(v)
    BY <2>1, FirstIn
  <2>. QED  BY <2>2
<1>3. step.outcomes # <<>> => 1 \in DOMAIN step.outcomes
  BY <1>1
<1>. QED  BY <1>2, <1>3 DEF find_next_step

\* In a sound definition, every pointer that is pushed has a step.
LEMMA SoundSteps ==
  ASSUME NEW d, IsDefinition(d), Sound(d), NEW ptrs, IsPointers(ptrs), NEW p \in DOMAIN ptrs,
         ptrs[p].step \in DOMAIN d.steps, NEW r \in ExecutionResult,
         NEW k \in DOMAIN new_pointers(d, ptrs, p, r)
  PROVE  new_pointers(d, ptrs, p, r)[k].step \in DOMAIN d.steps
<1>. DEFINE step == d.steps[ptrs[p].step]
<1>1. step \in WorkflowStep /\ r.items \in Seq(Nat)
  BY DEF IsDefinition, ExecutionResult
<1>2. /\ \A i \in DOMAIN step.outcomes : step.outcomes[i].next \in DOMAIN d.steps
      /\ \A i \in DOMAIN step.children : step.children[i] \in DOMAIN d.steps
      /\ step.compensation_step_id \in DOMAIN d.steps \cup {NoStep}
  BY DEF Sound
<1>3. ASSUME NEW nxt, new_pointers(d, ptrs, p, r) = Continue(ptrs, p, nxt),
             nxt \in DOMAIN d.steps \cup {NoStep}
      PROVE  new_pointers(d, ptrs, p, r)[k].step \in DOMAIN d.steps
  BY <1>3, ContinueFields
<1>4. CASE r.kind = "proceed"
  <2>. DEFINE nxt == find_next_step(step, r.value)
  <2>1. new_pointers(d, ptrs, p, r) = Continue(ptrs, p, nxt)
    BY <1>4 DEF new_pointers
  <2>2. nxt = NoStep \/ \E i \in DOMAIN step.outcomes : nxt = step.outcomes[i].next
    <3>. HIDE DEF step
    <3>. QED  BY <1>1, FindNextStepIn
  <2>. HIDE DEF nxt
  <2>. QED  BY <2>1, <2>2, <1>2, <1>3
<1>5. CASE r.kind = "branch"
  <2>. DEFINE b == Branches(ptrs, p, step, r.items)
  <2>1. new_pointers(d, ptrs, p, r) = b
    BY <1>5 DEF new_pointers
  <2>2. \E j \in DOMAIN step.children : b[k].step = step.children[j]
    <3>. DEFINE items == r.items
    <3>1. k \in DOMAIN Branches(ptrs, p, step, items) /\ items \in Seq(Nat)
      BY <2>1, <1>1
    <3>. HIDE DEF step, items
    <3>2. Branches(ptrs, p, step, items)[k].step \in
            {step.children[j] : j \in DOMAIN step.children}
      BY <3>1, <1>1, BranchesFields
    <3>. QED  BY <3>2 DEF items
  <2>. HIDE DEF b
  <2>. QED  BY <2>1, <2>2, <1>2
<1>6. CASE r.kind = "fail" /\ BehaviorOf(d, ptrs[p].step).kind = "Compensate"
  BY <1>2, <1>3, <1>6 DEF new_pointers
<1>7. CASE /\ r.kind # "proceed" /\ r.kind # "branch"
           /\ ~(r.kind = "fail" /\ BehaviorOf(d, ptrs[p].step).kind = "Compensate")
  <2>1. new_pointers(d, ptrs, p, r) = <<>>
    BY <1>7 DEF new_pointers
  <2>2. DOMAIN <<>> = {}
    OBVIOUS
  <2>. QED  BY <2>1, <2>2
<1>. QED  BY <1>4, <1>5, <1>6, <1>7

\* Every pointer is on a step of the definition: no pass fails with StepNotFound.
OnSteps(d, ptrs) == \A p \in DOMAIN ptrs : ptrs[p].step \in DOMAIN d.steps

LEMMA SoundOnSteps ==
  ASSUME NEW d, IsDefinition(d), Sound(d), NEW inst, IsInstance(inst), OnSteps(d, inst.ptrs),
         NEW p \in DOMAIN inst.ptrs, NEW last \in Nat
  PROVE  /\ \A r \in ExecutionResult : OnSteps(d, ApplyResult(d, inst, p, r, last).ptrs)
         /\ OnSteps(d, ApplySkip(d, inst, p, last).ptrs)
<1>1. IsPointers(inst.ptrs) /\ inst.ptrs[p].step \in DOMAIN d.steps
  BY InstanceParts DEF OnSteps
<1>2. ASSUME NEW new, Grows(inst.ptrs, new, p),
             \A i \in DOMAIN new \ DOMAIN inst.ptrs : new[i].step \in DOMAIN d.steps
      PROVE  OnSteps(d, new)
  <2>. SUFFICES ASSUME NEW i \in DOMAIN new PROVE new[i].step \in DOMAIN d.steps
    BY DEF OnSteps
  <2>1. i \in DOMAIN inst.ptrs => new[i].step = inst.ptrs[i].step
    BY <1>2 DEF Grows
  <2>. QED  BY <2>1, <1>2 DEF OnSteps
<1>3. ASSUME NEW r \in ExecutionResult PROVE OnSteps(d, ApplyResult(d, inst, p, r, last).ptrs)
  <2>. DEFINE new == ApplyResult(d, inst, p, r, last).ptrs
  <2>1. new = ApplyResult(d, inst, p, r, last).ptrs
    OBVIOUS
  <2>. HIDE DEF new
  <2>2. /\ Grows(inst.ptrs, new, p)
        /\ \A i \in DOMAIN new \ DOMAIN inst.ptrs :
             \E k \in DOMAIN new_pointers(d, inst.ptrs, p, r) :
               new[i] = new_pointers(d, inst.ptrs, p, r)[k]
    BY <2>1, <1>1, ApplyResultGrows
  <2>3. \A i \in DOMAIN new \ DOMAIN inst.ptrs : new[i].step \in DOMAIN d.steps
    BY <2>2, <1>1, SoundSteps
  <2>. QED  BY <2>1, <2>2, <2>3, <1>2
<1>4. OnSteps(d, ApplySkip(d, inst, p, last).ptrs)
  <2>. DEFINE new == ApplySkip(d, inst, p, last).ptrs
              step == d.steps[inst.ptrs[p].step]
  <2>1. new = ApplySkip(d, inst, p, last).ptrs
    OBVIOUS
  <2>. HIDE DEF new
  <2>2. /\ Grows(inst.ptrs, new, p)
        /\ \A i \in DOMAIN new \ DOMAIN inst.ptrs :
             step.outcomes # <<>> /\ new[i].step = step.outcomes[1].next
    BY <2>1, <1>1, ApplySkipGrows
  <2>3. step.outcomes # <<>> => step.outcomes[1].next \in DOMAIN d.steps
    <3>1. step.outcomes \in Seq(StepOutcome)
      BY <1>1 DEF IsDefinition, WorkflowStep
    <3>2. step.outcomes # <<>> => 1 \in DOMAIN step.outcomes
      BY <3>1
    <3>. QED  BY <3>2, <1>1 DEF Sound
  <2>. QED  BY <2>1, <2>2, <2>3, <1>2
<1>. QED  BY <1>3, <1>4
=============================================================================
