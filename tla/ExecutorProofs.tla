--------------------------- MODULE ExecutorProofs ---------------------------
(***************************************************************************)
(* Theorems about the life of an instance (Executor), for every set of     *)
(* definitions and every bound: types, what no pass may undo, the join of  *)
(* nested blocks, the order of a sequential ForEach, and that no work is   *)
(* forgotten.                                                              *)
(***************************************************************************)
EXTENDS Executor, PointersProofs, FiniteSetTheorems

-----------------------------------------------------------------------------
(* The invariants of the proofs.                                           *)

\* The pointers a pass has still to run can be run, and no other step of the
\* pass, timer or write takes that away.
TodoInv == \A p \in todo : p \in DOMAIN mem.ptrs /\ is_pointer_runnable(mem.ptrs[p])

\* The operator's copy is older than the store, and both are older than the
\* working copy of a pass.
AgeInv ==
  /\ Carries(call.ptrs, inst.ptrs)
  /\ pc = "run" => Carries(inst.ptrs, mem.ptrs) /\ Carries(call.ptrs, mem.ptrs)

FinalInv ==
  /\ TypeOK /\ TodoInv
  /\ Numbered(inst.ptrs) /\ Numbered(mem.ptrs) /\ Numbered(call.ptrs)
  /\ SleepOK(inst.ptrs) /\ SleepOK(mem.ptrs) /\ SleepOK(call.ptrs)
  /\ AgeInv

\* Who can be Complete, and when.
CompleteInv ==
  /\ inst.status = "Complete" => all_done(inst.ptrs)
  /\ pc = "run" => inst.status # "Complete" /\ mem.status # "Complete"
  /\ call.status # "Complete"

\* A container that may have children: it has started them and remembers it,
\* in its persistence data or (SequenceStep) by the pointers themselves.
Spawned(step, data) ==
  /\ step.children # <<>>
  /\ \/ step.kind = "sequence"
     \/ step.kind \in {"if", "while", "saga"} /\ data.children
     \/ step.kind = "foreach" /\ step.collection > 0 /\ data.children

\* The pointers are a tree: a scope lists the ancestors of a pointer, from the
\* outermost to its parent, ...
Scoped(ptrs) ==
  \A q \in DOMAIN ptrs : \A k \in DOMAIN ptrs[q].scope :
    /\ ptrs[q].scope[k] \in DOMAIN ptrs
    /\ ptrs[ptrs[q].scope[k]].scope = SubSeq(ptrs[q].scope, 1, k - 1)

\* ... only containers that have spawned have pointers below them, ...
Owned(d, ptrs) ==
  \A p, q \in DOMAIN ptrs : Under(ptrs, q, p) =>
    /\ ptrs[p].step \in DOMAIN d.steps
    /\ Spawned(d.steps[ptrs[p].step], ptrs[p].data)

\* ... and a finished pointer has only finished ones below it.
Joined(ptrs) ==
  \A p, q \in DOMAIN ptrs : Done(ptrs, p) /\ Under(ptrs, q, p) => Done(ptrs, q)

TreeOK(d, ptrs) == Scoped(ptrs) /\ Owned(d, ptrs) /\ Joined(ptrs)

\* The definition's blocks can be joined: user code has no children of its
\* own, and a container has no condition that could skip it while its
\* children run.
Joinable(d) ==
  \A s \in DOMAIN d.steps :
    d.steps[s].children # <<>> => d.steps[s].kind # "task" /\ "false" \notin d.steps[s].when

\* OneItemAtATime, for one copy of the instance.
InTurn(d, ptrs) ==
  \A p, q, r \in DOMAIN ptrs :
    /\ ptrs[p].step \in DOMAIN d.steps
    /\ d.steps[ptrs[p].step].kind = "foreach"
    /\ ~d.steps[ptrs[p].step].run_parallel
    /\ ptrs[q].scope = ChildScope(ptrs, p) /\ Under(ptrs, r, p)
    /\ r < q /\ ptrs[q].item > 0 /\ ptrs[r].item # ptrs[q].item
    => Done(ptrs, r)

\* What the joins need of one copy, and of the three.
OneTree(d, ptrs) == TreeOK(d, ptrs) /\ InTurn(d, ptrs)
Trees == OneTree(def, inst.ptrs) /\ OneTree(def, mem.ptrs) /\ OneTree(def, call.ptrs)

\* Every pointer is on a step of the definition; one that is not active has
\* finished or waits for an event.
LiveOK(d, ptrs) ==
  \A p \in DOMAIN ptrs :
    /\ ptrs[p].step \in DOMAIN d.steps
    /\ ptrs[p].active \/ Done(ptrs, p) \/ ptrs[p].status = "WaitingForEvent"

\* A pass that is under way and a call that will be written have pointers, and
\* work that is left is in the queue.
QueueInv ==
  /\ LiveOK(def, inst.ptrs) /\ LiveOK(def, mem.ptrs) /\ LiveOK(def, call.ptrs)
  /\ DOMAIN inst.ptrs # {} /\ (pc = "run" => DOMAIN mem.ptrs # {})
  /\ call # NoMem => DOMAIN call.ptrs # {}
  /\ crashes = 0 /\ pc = "idle" /\ inst.status = "Runnable" /\ queued = 0 =>
       ~has_active(inst.ptrs) /\ ~all_done(inst.ptrs)

-----------------------------------------------------------------------------
(* The ids of the pointers, and where an instance starts.                  *)

\* Consecutive ids are counted by Last.
LEMMA LastCounts ==
  ASSUME Numbered(mem.ptrs)
  PROVE  Last \in Nat /\ DOMAIN mem.ptrs = 1..Last
<1>1. PICK n \in Nat : DOMAIN mem.ptrs = 1..n
  BY DEF Numbered
<1>2. Cardinality(1..n) = n
  BY FS_Interval
<1>. QED  BY <1>1, <1>2 DEF Last

\* A new instance and the empty copy have consecutive ids.
LEMMA NumberedStart ==
  ASSUME NEW d
  PROVE  Numbered(NewInstance(d).ptrs) /\ Numbered(NoMem.ptrs)
<1>1. DOMAIN NewInstance(d).ptrs = IF DOMAIN d.steps = {} THEN {} ELSE {1}
  BY DEF NewInstance, Instance
<1>2. 1..0 = {} /\ 1..1 = {1} /\ 0 \in Nat /\ 1 \in Nat
  OBVIOUS
<1>3. DOMAIN NoMem.ptrs = {}
  BY DEF NoMem, Instance
<1>. QED  BY <1>1, <1>2, <1>3 DEF Numbered

LEMMA SleepOKStart ==
  ASSUME NEW d
  PROVE  SleepOK(NewInstance(d).ptrs) /\ SleepOK(NoMem.ptrs)
<1>1. \A i \in DOMAIN NewInstance(d).ptrs : NewInstance(d).ptrs[i].sleep = "none"
  BY DEF NewInstance, Instance, NewPointer
<1>2. DOMAIN NoMem.ptrs = {}
  BY DEF NoMem, Instance
<1>. QED  BY <1>1, <1>2 DEF SleepOK

LEMMA NoMemType == IsInstance(NoMem)
<1>1. IsPointers(<<>>)
  BY DEF IsPointers
<1>. QED  BY <1>1, InstanceType DEF NoMem, WorkflowStatus

-----------------------------------------------------------------------------
(* A step of a pass.                                                       *)

\* What RunPointer and SkipPointer have in common.
LEMMA PassStep ==
  ASSUME FinalInv, NEW p, RunPointer(p) \/ SkipPointer(p)
  PROVE  /\ p \in DOMAIN mem.ptrs /\ ~Done(mem.ptrs, p) /\ pc = "run"
         /\ mem.ptrs[p].active /\ mem.ptrs[p].step \in DOMAIN def.steps
         /\ IsInstance(mem') /\ Grows(mem.ptrs, mem'.ptrs, p) /\ Numbered(mem'.ptrs)
         /\ mem'.ptrs[p].sleep = "future" => mem'.ptrs[p].status = "Sleeping"
         /\ mem.status # "Complete" => mem'.status # "Complete"
<1>1. /\ p \in DOMAIN mem.ptrs /\ ~Done(mem.ptrs, p) /\ mem.ptrs[p].sleep # "future"
      /\ mem.ptrs[p].active
  <2>1. p \in DOMAIN mem.ptrs /\ is_pointer_runnable(mem.ptrs[p])
    BY DEF FinalInv, TodoInv, RunPointer, SkipPointer
  <2>. QED  BY <2>1, RunnableNotDone DEF FinalInv
<1>2. IsDefinition(def) /\ IsInstance(mem) /\ IsPointers(mem.ptrs) /\ pc = "run"
  BY DefsAssumption, InstanceParts DEF FinalInv, TypeOK, RunPointer, SkipPointer
<1>3. Last \in Nat /\ DOMAIN mem.ptrs = 1..Last
  BY LastCounts DEF FinalInv
<1>4. mem.ptrs[p].step \in DOMAIN def.steps
  BY DEF RunPointer, SkipPointer, StepOf
<1>. DEFINE new == mem'.ptrs
<1>5. CASE RunPointer(p)
  <2>1. PICK r \in StepResults(def, mem.ptrs, p) : mem' = ApplyResult(def, mem, p, r, Last)
    BY <1>5 DEF RunPointer
  <2>2. r \in ExecutionResult
    BY <1>1, <1>2, <1>4, StepResultsType
  <2>3. IsInstance(mem')
    BY <2>1, <2>2, <1>1, <1>2, <1>3, <1>4, ApplyResultType
  <2>4. new = ApplyResult(def, mem, p, r, Last).ptrs
    BY <2>1
  <2>. HIDE DEF new
  <2>5. /\ Grows(mem.ptrs, new, p) /\ new[p] = After(def, mem.ptrs[p], r)
        /\ DOMAIN mem.ptrs = 1..Last => Numbered(new)
    BY <2>2, <2>4, <1>1, <1>2, <1>3, <1>4, ApplyResultGrows
  <2>6. new[p].status = "Sleeping" \/ new[p].sleep = mem.ptrs[p].sleep
    <3>1. mem.ptrs[p] \in ExecutionPointer
      BY <1>1, <1>2 DEF IsPointers
    <3>2. r.kind \in ResultKind
      BY <2>2 DEF ExecutionResult
    <3>. QED  BY <3>1, <3>2, <2>2, <2>5, AfterFields DEF ResultKind
  <2>7. mem.status # "Complete" => mem'.status # "Complete"
    BY <2>1 DEF ApplyResult, Instance, workflow_status
  <2>. QED  BY <2>3, <2>5, <2>6, <2>7, <1>1, <1>2, <1>3, <1>4 DEF new
<1>6. CASE SkipPointer(p)
  <2>1. mem' = ApplySkip(def, mem, p, Last)
    BY <1>6 DEF SkipPointer
  <2>2. IsInstance(mem')
    BY <2>1, <1>1, <1>2, <1>3, <1>4, ApplySkipType
  <2>3. new = ApplySkip(def, mem, p, Last).ptrs
    BY <2>1
  <2>. HIDE DEF new
  <2>4. /\ Grows(mem.ptrs, new, p) /\ new[p].sleep = mem.ptrs[p].sleep
        /\ DOMAIN mem.ptrs = 1..Last => Numbered(new)
    BY <2>3, <1>1, <1>2, <1>3, <1>4, ApplySkipGrows
  <2>5. mem.status # "Complete" => mem'.status # "Complete"
    BY <2>1 DEF ApplySkip, Instance
  <2>. QED  BY <2>2, <2>4, <2>5, <1>1, <1>2, <1>3, <1>4 DEF new
<1>. QED  BY <1>5, <1>6

-----------------------------------------------------------------------------
(* What no pass undoes.                                                    *)

\* A fresh instance, in the queue.
LEMMA FinalInvInit == Init => FinalInv
<1>. SUFFICES ASSUME Init PROVE FinalInv
  OBVIOUS
<1>1. IsInstance(NewInstance(def)) /\ IsInstance(NoMem)
  BY DefsAssumption, NewInstanceType, NoMemType DEF Init
<1>2. TypeOK
  BY <1>1, BoundsAssumption DEF Init, TypeOK
<1>3. TodoInv
  BY DEF Init, TodoInv
<1>4. DOMAIN NoMem.ptrs = {}
  BY DEF NoMem, Instance
<1>5. AgeInv
  BY <1>4 DEF Init, AgeInv, Carries
<1>. QED  BY <1>2, <1>3, <1>5, NumberedStart, SleepOKStart DEF Init, FinalInv

\* A step of a pass.
LEMMA FinalInvPass ==
  ASSUME FinalInv, NEW p, RunPointer(p) \/ SkipPointer(p)
  PROVE  FinalInv'
<1>1. /\ p \in DOMAIN mem.ptrs /\ ~Done(mem.ptrs, p) /\ pc = "run"
      /\ IsInstance(mem') /\ Grows(mem.ptrs, mem'.ptrs, p) /\ Numbered(mem'.ptrs)
      /\ mem'.ptrs[p].sleep = "future" => mem'.ptrs[p].status = "Sleeping"
  BY PassStep
<1>2. /\ todo' = todo \ {p} /\ UNCHANGED <<def, inst, pc, queued, call, ops, crashes>>
  BY DEF RunPointer, SkipPointer
<1>3. todo' \subseteq DOMAIN mem'.ptrs
  BY <1>1, <1>2 DEF FinalInv, TypeOK, Grows
<1>4. TypeOK'
  BY <1>1, <1>2, <1>3 DEF FinalInv, TypeOK
<1>5. TodoInv'
  BY <1>1, <1>2 DEF FinalInv, TodoInv, Grows
<1>6. SleepOK(mem'.ptrs)
  BY <1>1, GrowsSleepOK DEF FinalInv
<1>7. AgeInv'
  <2>1. Carries(inst.ptrs, mem.ptrs) /\ Carries(call.ptrs, mem.ptrs)
    BY <1>1 DEF FinalInv, AgeInv
  <2>2. Carries(inst.ptrs, mem'.ptrs) /\ Carries(call.ptrs, mem'.ptrs)
    BY <2>1, <1>1, GrowsCarries
  <2>. QED  BY <2>2, <1>2 DEF FinalInv, AgeInv
<1>. QED  BY <1>1, <1>2, <1>4, <1>5, <1>6, <1>7 DEF FinalInv

\* The clock.
LEMMA FinalInvTick ==
  ASSUME FinalInv, NEW p, Tick(p)
  PROVE  /\ FinalInv'
         /\ inst'.status = inst.status /\ inst'.ptrs = Awake(inst.ptrs, p)
         /\ mem'.status = mem.status /\ mem'.ptrs = Awake(mem.ptrs, p)
         /\ call'.status = call.status /\ call'.ptrs = Awake(call.ptrs, p)
<1>1. IsInstance(inst) /\ IsInstance(mem) /\ IsInstance(call)
  BY DEF FinalInv, TypeOK
<1>2. IsPointers(inst.ptrs) /\ IsPointers(mem.ptrs) /\ IsPointers(call.ptrs)
  BY <1>1, InstanceParts
<1>3. ASSUME NEW x, IsInstance(x)
      PROVE  /\ IsInstance([x EXCEPT !.ptrs = Awake(x.ptrs, p)])
             /\ [x EXCEPT !.ptrs = Awake(x.ptrs, p)].status = x.status
             /\ [x EXCEPT !.ptrs = Awake(x.ptrs, p)].ptrs = Awake(x.ptrs, p)
  <2>1. x.status \in WorkflowStatus /\ IsPointers(x.ptrs)
    BY <1>3, InstanceParts
  <2>2. IsPointers(Awake(x.ptrs, p))
    BY <2>1, AwakeType
  <2>3. [x EXCEPT !.ptrs = Awake(x.ptrs, p)] = Instance(x.status, Awake(x.ptrs, p))
    BY <1>3 DEF IsInstance, Instance
  <2>4. IsInstance(Instance(x.status, Awake(x.ptrs, p)))
    BY <2>1, <2>2, InstanceType
  <2>. QED  BY <2>3, <2>4 DEF Instance
<1>4. /\ inst' = [inst EXCEPT !.ptrs = Awake(inst.ptrs, p)]
      /\ mem' = [mem EXCEPT !.ptrs = Awake(mem.ptrs, p)]
      /\ call' = [call EXCEPT !.ptrs = Awake(call.ptrs, p)]
      /\ UNCHANGED <<def, pc, todo, queued, ops, crashes>>
  BY DEF Tick
<1>5. /\ IsInstance(inst') /\ IsInstance(mem') /\ IsInstance(call')
      /\ inst'.status = inst.status /\ inst'.ptrs = Awake(inst.ptrs, p)
      /\ mem'.status = mem.status /\ mem'.ptrs = Awake(mem.ptrs, p)
      /\ call'.status = call.status /\ call'.ptrs = Awake(call.ptrs, p)
  BY <1>1, <1>3, <1>4
<1>6. DOMAIN mem'.ptrs = DOMAIN mem.ptrs
  BY <1>5 DEF Awake
<1>7. TypeOK'
  BY <1>4, <1>5, <1>6 DEF FinalInv, TypeOK
<1>8. TodoInv'
  BY <1>2, <1>4, <1>5, <1>6, AwakeRunnable DEF FinalInv, TodoInv
<1>9. Numbered(inst'.ptrs) /\ Numbered(mem'.ptrs) /\ Numbered(call'.ptrs)
  BY <1>5, AwakeNumbered DEF FinalInv
<1>10. SleepOK(inst'.ptrs) /\ SleepOK(mem'.ptrs) /\ SleepOK(call'.ptrs)
  BY <1>2, <1>5, AwakeSleepOK DEF FinalInv
<1>11. AgeInv'
  <2>1. Carries(call'.ptrs, inst'.ptrs)
    BY <1>2, <1>5, AwakeCarries DEF FinalInv, AgeInv
  <2>2. pc = "run" => Carries(inst'.ptrs, mem'.ptrs) /\ Carries(call'.ptrs, mem'.ptrs)
    BY <1>2, <1>5, AwakeCarries DEF FinalInv, AgeInv
  <2>. QED  BY <2>1, <2>2, <1>4 DEF AgeInv
<1>. QED  BY <1>5, <1>7, <1>8, <1>9, <1>10, <1>11 DEF FinalInv

\* process_event writes one waiting pointer.
LEMMA DeliverFields ==
  ASSUME FinalInv, NEW p, DeliverEvent(p)
  PROVE  /\ IsInstance(inst') /\ DOMAIN inst'.ptrs = DOMAIN inst.ptrs
         /\ inst'.status = inst.status
         /\ p \in DOMAIN inst.ptrs /\ inst.ptrs[p].status = "WaitingForEvent"
         /\ \A i \in DOMAIN inst.ptrs : i # p => inst'.ptrs[i] = inst.ptrs[i]
         /\ inst'.ptrs[p].active
         /\ inst'.ptrs[p].status = inst.ptrs[p].status
         /\ inst'.ptrs[p].sleep = inst.ptrs[p].sleep
         /\ inst'.ptrs[p].step = inst.ptrs[p].step
         /\ inst'.ptrs[p].scope = inst.ptrs[p].scope
         /\ inst'.ptrs[p].item = inst.ptrs[p].item
         /\ inst'.ptrs[p].data = inst.ptrs[p].data
<1>. DEFINE x == [[inst.ptrs[p] EXCEPT !.event = TRUE] EXCEPT !.active = TRUE]
            q == [inst.ptrs EXCEPT ![p] = x]
<1>1. /\ IsInstance(inst) /\ inst.status \in WorkflowStatus /\ IsPointers(inst.ptrs)
      /\ p \in DOMAIN inst.ptrs /\ inst.ptrs[p].status = "WaitingForEvent"
  BY InstanceParts DEF FinalInv, TypeOK, DeliverEvent
<1>2. inst.ptrs[p] \in ExecutionPointer
  BY <1>1 DEF IsPointers
<1>3. /\ x \in ExecutionPointer /\ x.active /\ x.status = inst.ptrs[p].status
      /\ x.sleep = inst.ptrs[p].sleep /\ x.step = inst.ptrs[p].step
      /\ x.scope = inst.ptrs[p].scope /\ x.item = inst.ptrs[p].item
      /\ x.data = inst.ptrs[p].data
  BY <1>2 DEF ExecutionPointer
<1>4. inst' = Instance(inst.status, q)
  BY <1>1, <1>2 DEF DeliverEvent, Instance, IsInstance, IsPointers, ExecutionPointer
<1>. HIDE DEF x
<1>5. IsPointers(q) /\ DOMAIN q = DOMAIN inst.ptrs
  BY <1>1, <1>3, UpdateType
<1>6. q[p] = x /\ \A i \in DOMAIN inst.ptrs : i # p => q[i] = inst.ptrs[i]
  BY <1>1 DEF IsPointers
<1>. HIDE DEF q
<1>7. IsInstance(inst') /\ inst'.ptrs = q /\ inst'.status = inst.status
  BY <1>1, <1>4, <1>5, InstanceType DEF Instance
<1>. QED  BY <1>1, <1>3, <1>5, <1>6, <1>7

LEMMA FinalInvDeliver ==
  ASSUME FinalInv, NEW p, DeliverEvent(p)
  PROVE  FinalInv'
<1>1. /\ IsInstance(inst') /\ DOMAIN inst'.ptrs = DOMAIN inst.ptrs
      /\ p \in DOMAIN inst.ptrs /\ inst.ptrs[p].status = "WaitingForEvent"
      /\ \A i \in DOMAIN inst.ptrs : i # p => inst'.ptrs[i] = inst.ptrs[i]
      /\ inst'.ptrs[p].status = inst.ptrs[p].status
      /\ inst'.ptrs[p].sleep = inst.ptrs[p].sleep
  BY DeliverFields
<1>2. /\ UNCHANGED <<def, pc, mem, todo, call, ops, crashes>> /\ pc = "idle"
      /\ queued' = queued + 1
  BY DEF DeliverEvent
<1>3. queued' \in Nat
  BY <1>2 DEF FinalInv, TypeOK
<1>4. TypeOK' /\ TodoInv'
  BY <1>1, <1>2, <1>3 DEF FinalInv, TypeOK, TodoInv
<1>5. Numbered(inst'.ptrs) /\ SleepOK(inst'.ptrs)
  BY <1>1 DEF FinalInv, Numbered, SleepOK
<1>6. ~Done(inst.ptrs, p)
  BY <1>1 DEF Done, DoneStatus
<1>7. Carries(call.ptrs, inst'.ptrs)
  BY <1>1, <1>6 DEF FinalInv, AgeInv, Carries, Done
<1>. QED  BY <1>2, <1>4, <1>5, <1>7 DEF FinalInv, AgeInv

\* Every step.
LEMMA FinalInvNext == FinalInv /\ [Next]_vars => FinalInv'
<1>. SUFFICES ASSUME FinalInv, [Next]_vars PROVE FinalInv'
  OBVIOUS
<1>1. /\ TypeOK /\ TodoInv /\ AgeInv
      /\ IsInstance(inst) /\ IsInstance(mem) /\ IsInstance(call) /\ queued \in Nat
  BY DEF FinalInv, TypeOK
<1>2. DOMAIN NoMem.ptrs = {} /\ IsInstance(NoMem) /\ Numbered(NoMem.ptrs) /\ SleepOK(NoMem.ptrs)
  BY NumberedStart, SleepOKStart, NoMemType DEF NoMem, Instance
<1>3. CASE SkipInstance
  <2>1. queued' \in Nat
    BY <1>1, <1>3 DEF SkipInstance
  <2>. QED  BY <2>1, <1>3 DEF SkipInstance, FinalInv, TypeOK, TodoInv, AgeInv
<1>4. CASE BeginPass
  <2>1. queued' \in Nat
    BY <1>1, <1>4 DEF BeginPass
  <2>2. mem' = inst /\ todo' = Runnable(inst.ptrs) /\ pc' = "run"
        /\ UNCHANGED <<def, inst, call, ops, crashes>>
    BY <1>4 DEF BeginPass
  <2>3. TypeOK' /\ TodoInv'
    BY <2>1, <2>2, <1>1 DEF TypeOK, TodoInv, Runnable
  <2>4. Carries(inst.ptrs, inst.ptrs)
    BY DEF Carries
  <2>5. AgeInv'
    BY <2>2, <2>4, <1>1 DEF AgeInv
  <2>. QED  BY <2>2, <2>3, <2>5 DEF FinalInv
<1>5. CASE EndPass
  <2>1. /\ inst' = Concluded(mem) /\ pc = "run" /\ pc' = "idle" /\ mem' = NoMem
        /\ todo' = todo /\ todo = {} /\ UNCHANGED <<def, call, ops, crashes>>
    BY <1>5 DEF EndPass
  <2>2. queued' \in Nat
    BY <1>1, <1>5 DEF EndPass
  <2>3. IsInstance(inst') /\ inst'.ptrs = mem.ptrs
    BY <2>1, <1>1, ConcludedType
  <2>4. TypeOK' /\ TodoInv'
    BY <2>1, <2>2, <2>3, <1>1, <1>2 DEF TypeOK, TodoInv
  <2>5. AgeInv'
    BY <2>1, <2>3, <1>1 DEF AgeInv
  <2>. QED  BY <2>1, <2>3, <2>4, <2>5, <1>2 DEF FinalInv
<1>6. ASSUME NEW p \in Ids, RunPointer(p) \/ SkipPointer(p) PROVE FinalInv'
  BY <1>6, FinalInvPass
<1>7. ASSUME NEW p \in Ids, AbortPass(p) PROVE FinalInv'
  BY <1>1, <1>2, <1>7 DEF AbortPass, FinalInv, TypeOK, TodoInv, AgeInv
<1>8. ASSUME NEW p \in Ids, DeliverEvent(p) PROVE FinalInv'
  BY <1>8, FinalInvDeliver
<1>9. ASSUME NEW p \in Ids, Tick(p) PROVE FinalInv'
  BY <1>9, FinalInvTick
<1>10. ASSUME NEW from, NEW to \in WorkflowStatus, Operate(from, to) PROVE FinalInv'
  <2>1. /\ call' = [inst EXCEPT !.status = to] /\ ops < MaxOps /\ ops' = ops + 1
        /\ UNCHANGED <<def, inst, pc, mem, todo, queued, crashes>>
    BY <1>10 DEF Operate
  <2>2. ops' \in 0..MaxOps
    BY <2>1, <1>1, BoundsAssumption DEF TypeOK
  <2>3. IsInstance(call') /\ call'.ptrs = inst.ptrs
    BY <2>1, <1>1 DEF IsInstance
  <2>4. TypeOK' /\ TodoInv'
    BY <2>1, <2>2, <2>3, <1>1 DEF TypeOK, TodoInv
  <2>5. AgeInv'
    BY <2>1, <2>3, <1>1 DEF AgeInv, Carries
  <2>. QED  BY <2>1, <2>3, <2>4, <2>5 DEF FinalInv
<1>11. CASE Suspend \/ Resume \/ Terminate
  BY <1>10, <1>11 DEF Suspend, Resume, Terminate, WorkflowStatus
<1>12. CASE OperatorPersist
  <2>1. /\ inst' = call /\ call' = NoMem /\ UNCHANGED <<def, pc, mem, todo, ops, crashes>>
    BY <1>12 DEF OperatorPersist
  <2>2. queued' \in Nat
    BY <1>1, <1>12 DEF OperatorPersist
  <2>3. TypeOK' /\ TodoInv'
    BY <2>1, <2>2, <1>1, <1>2 DEF TypeOK, TodoInv
  <2>4. AgeInv'
    BY <2>1, <1>1, <1>2 DEF AgeInv, Carries
  <2>. QED  BY <2>1, <2>3, <2>4, <1>2 DEF FinalInv
<1>13. CASE Crash
  <2>1. crashes' \in 0..MaxCrashes
    BY <1>1, <1>13, BoundsAssumption DEF Crash, TypeOK
  <2>2. /\ pc' = "idle" /\ mem' = NoMem /\ todo' = {}
        /\ UNCHANGED <<def, inst, queued, call, ops>>
    BY <1>13 DEF Crash
  <2>. QED  BY <2>1, <2>2, <1>1, <1>2 DEF FinalInv, TypeOK, TodoInv, AgeInv
<1>14. CASE UNCHANGED vars
  BY <1>14 DEF vars, FinalInv, TypeOK, TodoInv, AgeInv, SleepOK, Numbered, Carries, Done
<1>. QED
  BY <1>3, <1>4, <1>5, <1>6, <1>7, <1>8, <1>9, <1>11, <1>12, <1>13, <1>14 DEF Next, Consumer

\* Types, for every set of definitions.
THEOREM ExecutorTypeCorrect == Spec => []TypeOK
<1>1. FinalInv => TypeOK
  BY DEF FinalInv
<1>. QED  BY <1>1, FinalInvInit, FinalInvNext, PTL DEF Spec

\* A step leaves what is finished in the store as it is.
LEMMA FinishedNext ==
  ASSUME FinalInv, [Next]_vars, ~OperatorPersist
  PROVE  \A i \in DOMAIN inst.ptrs :
           /\ i \in DOMAIN inst'.ptrs
           /\ Done(inst.ptrs, i) => inst'.ptrs[i] = inst.ptrs[i]
<1>. SUFFICES ASSUME NEW i \in DOMAIN inst.ptrs
              PROVE  /\ i \in DOMAIN inst'.ptrs
                     /\ Done(inst.ptrs, i) => inst'.ptrs[i] = inst.ptrs[i]
  OBVIOUS
<1>1. CASE EndPass
  <2>1. inst'.ptrs = mem.ptrs
    BY <1>1, ConcludedType DEF EndPass, FinalInv, TypeOK
  <2>2. Carries(inst.ptrs, mem.ptrs)
    BY <1>1 DEF EndPass, FinalInv, AgeInv
  <2>. QED  BY <2>1, <2>2 DEF Carries
<1>2. ASSUME NEW p \in Ids, DeliverEvent(p) PROVE i \in DOMAIN inst'.ptrs
             /\ (Done(inst.ptrs, i) => inst'.ptrs[i] = inst.ptrs[i])
  <2>1. /\ DOMAIN inst'.ptrs = DOMAIN inst.ptrs
        /\ inst.ptrs[p].status = "WaitingForEvent"
        /\ i # p => inst'.ptrs[i] = inst.ptrs[i]
    BY <1>2, DeliverFields
  <2>. QED  BY <2>1 DEF Done, DoneStatus
<1>3. ASSUME NEW p \in Ids, Tick(p) PROVE i \in DOMAIN inst'.ptrs
             /\ (Done(inst.ptrs, i) => inst'.ptrs[i] = inst.ptrs[i])
  <2>1. inst'.ptrs = Awake(inst.ptrs, p)
    BY <1>3, FinalInvTick
  <2>2. DOMAIN inst'.ptrs = DOMAIN inst.ptrs
    BY <2>1 DEF Awake
  <2>3. IsPointers(inst.ptrs) /\ SleepOK(inst.ptrs)
    BY InstanceParts DEF FinalInv, TypeOK
  <2>. QED  BY <2>1, <2>2, <2>3, AwakeKeepsDone
<1>4. CASE UNCHANGED inst
  BY <1>4
<1>. QED
  BY <1>1, <1>2, <1>3, <1>4
     DEF Next, Consumer, SkipInstance, BeginPass, RunPointer, SkipPointer, AbortPass,
         Suspend, Resume, Terminate, Operate, Crash, vars

\* What has finished stays as it is: no step but the stale write of an
\* operator's call removes a persisted pointer or changes a finished one.
THEOREM FinishedStaysFinal == Spec => FinishedIsFinal
<1>1. FinalInv /\ [Next]_vars =>
        [~OperatorPersist => \A p \in DOMAIN inst.ptrs :
           /\ p \in DOMAIN inst'.ptrs
           /\ Done(inst.ptrs, p) => inst'.ptrs[p] = inst.ptrs[p]]_vars
  BY FinishedNext
<1>. QED  BY <1>1, FinalInvInit, FinalInvNext, PTL DEF Spec, FinishedIsFinal

LEMMA CompleteInvInit == Init => CompleteInv
BY DEF Init, CompleteInv, NewInstance, NoMem, Instance

LEMMA CompleteInvNext == FinalInv /\ CompleteInv /\ [Next]_vars => CompleteInv'
<1>. SUFFICES ASSUME FinalInv, CompleteInv, [Next]_vars PROVE CompleteInv'
  OBVIOUS
<1>1. IsInstance(inst) /\ IsInstance(mem) /\ IsInstance(call)
  BY DEF FinalInv, TypeOK
<1>2. CASE SkipInstance
  BY <1>2 DEF SkipInstance, CompleteInv
<1>3. CASE BeginPass
  BY <1>3 DEF BeginPass, CompleteInv
<1>4. CASE EndPass
  <2>1. mem.status # "Complete" /\ call.status # "Complete"
    BY <1>4 DEF EndPass, CompleteInv
  <2>2. inst' = Concluded(mem) /\ inst'.ptrs = mem.ptrs /\ pc' = "idle" /\ call' = call
    BY <1>1, <1>4, ConcludedType DEF EndPass
  <2>3. inst'.status = "Complete" => all_done(mem.ptrs)
    BY <2>1, <2>2 DEF Concluded
  <2>. QED  BY <2>1, <2>2, <2>3 DEF CompleteInv
<1>5. ASSUME NEW p \in Ids, RunPointer(p) \/ SkipPointer(p) PROVE CompleteInv'
  <2>1. pc = "run" /\ (mem.status # "Complete" => mem'.status # "Complete")
    BY <1>5, PassStep
  <2>2. UNCHANGED <<inst, pc, call>>
    BY <1>5 DEF RunPointer, SkipPointer
  <2>. QED  BY <2>1, <2>2 DEF CompleteInv
<1>6. ASSUME NEW p \in Ids, AbortPass(p) PROVE CompleteInv'
  BY <1>6 DEF AbortPass, CompleteInv
<1>7. ASSUME NEW p \in Ids, DeliverEvent(p) PROVE CompleteInv'
  <2>1. /\ inst'.status = inst.status /\ p \in DOMAIN inst.ptrs
        /\ inst.ptrs[p].status = "WaitingForEvent"
    BY <1>7, DeliverFields
  <2>2. inst.status # "Complete"
    BY <2>1 DEF CompleteInv, all_done, DoneStatus
  <2>. QED  BY <2>1, <2>2, <1>7 DEF DeliverEvent, CompleteInv
<1>8. ASSUME NEW p \in Ids, Tick(p) PROVE CompleteInv'
  <2>1. /\ inst'.status = inst.status /\ inst'.ptrs = Awake(inst.ptrs, p)
        /\ mem'.status = mem.status /\ call'.status = call.status
    BY <1>8, FinalInvTick
  <2>2. IsPointers(inst.ptrs)
    BY <1>1, InstanceParts
  <2>3. all_done(inst.ptrs) => all_done(Awake(inst.ptrs, p))
    <3>1. DOMAIN Awake(inst.ptrs, p) = DOMAIN inst.ptrs
      BY DEF Awake
    <3>. QED  BY <3>1, <2>2, AwakeFields DEF all_done
  <2>4. pc' = pc
    BY <1>8 DEF Tick
  <2>. QED  BY <2>1, <2>3, <2>4 DEF CompleteInv
<1>9. ASSUME NEW from, NEW to \in {"Suspended", "Runnable", "Terminated"}, Operate(from, to)
      PROVE  CompleteInv'
  <2>1. call'.status = to
    BY <1>1, <1>9 DEF Operate, IsInstance
  <2>. QED  BY <2>1, <1>9 DEF Operate, CompleteInv
<1>10. CASE Suspend \/ Resume \/ Terminate
  BY <1>9, <1>10 DEF Suspend, Resume, Terminate
<1>11. CASE OperatorPersist
  BY <1>11 DEF OperatorPersist, CompleteInv, NoMem, Instance
<1>12. CASE Crash
  BY <1>12 DEF Crash, CompleteInv
<1>13. CASE UNCHANGED vars
  BY <1>13 DEF vars, CompleteInv
<1>. QED
  BY <1>2, <1>3, <1>4, <1>5, <1>6, <1>7, <1>8, <1>10, <1>11, <1>12, <1>13 DEF Next, Consumer

\* A Complete instance is left alone: no event, left over queue item or late
\* pass changes it.
THEOREM CompleteStaysFinal == Spec => CompleteIsFinal
<1>1. FinalInv /\ CompleteInv /\ [Next]_vars =>
        [~OperatorPersist /\ inst.status = "Complete" => inst' = inst]_vars
  <2>. SUFFICES ASSUME FinalInv, CompleteInv, [Next]_vars, ~OperatorPersist,
                       inst.status = "Complete"
                PROVE  inst' = inst
    OBVIOUS
  <2>1. pc # "run" /\ all_done(inst.ptrs)
    BY DEF CompleteInv
  <2>2. ~EndPass
    BY <2>1 DEF EndPass
  <2>3. ASSUME NEW p \in Ids PROVE ~DeliverEvent(p)
    BY <2>1 DEF DeliverEvent, all_done, DoneStatus
  <2>4. ASSUME NEW p \in Ids, Tick(p) PROVE inst' = inst
    <3>1. IsInstance(inst) /\ IsPointers(inst.ptrs) /\ SleepOK(inst.ptrs)
      BY InstanceParts DEF FinalInv, TypeOK
    <3>2. \A i \in DOMAIN inst.ptrs : Awake(inst.ptrs, p)[i] = inst.ptrs[i]
      BY <2>1, <3>1, AwakeKeepsDone DEF all_done, Done
    <3>3. Awake(inst.ptrs, p) = inst.ptrs
      <4>1. /\ DOMAIN Awake(inst.ptrs, p) = DOMAIN inst.ptrs
            /\ Awake(inst.ptrs, p) = [i \in DOMAIN inst.ptrs |-> Awake(inst.ptrs, p)[i]]
        BY DEF Awake
      <4>. QED  BY <4>1, <3>1, <3>2 DEF IsPointers
    <3>. QED  BY <2>4, <3>1, <3>3 DEF Tick, IsInstance
  <2>. QED
    BY <2>2, <2>3, <2>4
       DEF Next, Consumer, SkipInstance, BeginPass, RunPointer, SkipPointer, AbortPass,
           Suspend, Resume, Terminate, Operate, Crash, vars
<1>. QED
  BY <1>1, FinalInvInit, FinalInvNext, CompleteInvInit, CompleteInvNext, PTL
     DEF Spec, CompleteIsFinal

-----------------------------------------------------------------------------
(* What containers return while they have children.                        *)

\* The result of a container p does not lose its children: it completes only
\* when the level below is done, and it remembers that it has spawned.
Minds(d, ptrs, p, r) ==
  LET step == d.steps[ptrs[p].step]
      spawned == Spawned(step, ptrs[p].data)
  IN  /\ spawned /\ r.kind = "proceed" => BranchDone(ptrs, p)
      /\ spawned => r.kind # "fail"
      /\ spawned /\ r.kind \in {"branch", "sleep", "poll", "persist"} =>
           Spawned(step, r.data)
      /\ r.kind = "branch" /\ step.children # <<>> => Spawned(step, r.data)
      /\ r.kind = "branch" /\ step.kind = "foreach" /\ ~step.run_parallel =>
           /\ Len(r.items) = 1
           /\ spawned => BranchDone(ptrs, p)

LEMMA ContainersMind ==
  ASSUME NEW d, IsDefinition(d), NEW ptrs, IsPointers(ptrs), NEW p \in DOMAIN ptrs,
         ptrs[p].step \in DOMAIN d.steps, d.steps[ptrs[p].step].kind # "task",
         NEW r \in StepResults(d, ptrs, p)
  PROVE  Minds(d, ptrs, p, r)
<1>. DEFINE step == d.steps[ptrs[p].step]
            data == ptrs[p].data
            At(i) == [ChildrenActive EXCEPT !.index = i]
            Compensating == [ChildrenActive EXCEPT !.compensating = TRUE]
<1>1. step \in WorkflowStep /\ step.kind \in StepKind /\ step.collection \in Nat
  BY DEF IsDefinition, WorkflowStep
<1>2. data \in PersistenceData /\ data.index \in Nat
  BY DEF IsPointers, ExecutionPointer, PersistenceData
<1>3. ChildrenActive.children /\ Compensating.children /\ \A i : At(i).children
  BY DEF ChildrenActive, NoData
<1>4. /\ next.kind = "proceed" /\ wait_for_event.kind = "event"
      /\ poll_endpoint.kind = "poll" /\ failure.kind = "fail"
      /\ \A e : persist(e).kind = "persist" /\ persist(e).data = e
      /\ \A e : sleep(e).kind = "sleep" /\ sleep(e).data = e
      /\ \A e, items : /\ branch(items, e).kind = "branch" /\ branch(items, e).data = e
                       /\ branch(items, e).items = items
      /\ \A v : outcome(v).kind = "proceed"
  BY DEF next, wait_for_event, poll_endpoint, failure, persist, sleep, branch, outcome, Result
<1>5. \A i : Len(<<i>>) = 1
  OBVIOUS
<1>. HIDE DEF At, Compensating
<1>. USE DEF Minds
<1>6. CASE step.kind = "if"
  <2>1. r \in IfResults(step, ptrs, p)
    BY <1>6 DEF StepResults
  <2>. HIDE DEF step
  <2>2. \/ data.children /\ BranchDone(ptrs, p) /\ r = next
        \/ data.children /\ r = persist(ChildrenActive)
        \/ ~data.children /\ r = next
        \/ r = branch(<<1>>, ChildrenActive)
    BY <2>1 DEF IfResults, Join
  <2>. QED  BY <2>2, <1>3, <1>4, <1>6 DEF Spawned, step
<1>7. CASE step.kind = "while"
  <2>1. r \in WhileResults(step, ptrs, p)
    BY <1>7 DEF StepResults
  <2>. HIDE DEF step
  <2>2. \/ data.children /\ BranchDone(ptrs, p) /\ r = next
        \/ data.children /\ r = persist(ChildrenActive)
        \/ ~data.children /\ r = next
        \/ r = branch(<<1>>, ChildrenActive)
    BY <2>1 DEF WhileResults, Join
  <2>. QED  BY <2>2, <1>3, <1>4, <1>7 DEF Spawned, step
<1>8. CASE step.kind = "foreach"
  <2>1. r \in ForEachResults(step, ptrs, p)
    BY <1>8 DEF StepResults
  <2>. HIDE DEF step
  <2>2. \/ step.collection = 0 /\ r = next
        \/ data.children /\ BranchDone(ptrs, p) /\ r = next
        \/ data.children /\ r = persist(ChildrenActive)
        \/ data.children /\ r = persist(At(data.index))
        \/ /\ step.run_parallel /\ step.collection > 0
           /\ r = branch([i \in 1..step.collection |-> i], ChildrenActive)
        \/ /\ ~data.children /\ step.collection > 0
           /\ r = branch(<<data.index + 1>>, At(data.index))
        \/ /\ data.children /\ BranchDone(ptrs, p) /\ step.collection > 0
           /\ r = branch(<<(data.index + 1) + 1>>, At(data.index + 1))
    BY <2>1, <1>1, <1>2 DEF ForEachResults, Join, At
  <2>3. step.collection > 0 => ~(step.collection = 0)
    BY <1>1
  <2>. QED  BY <2>2, <2>3, <1>3, <1>4, <1>5, <1>8 DEF Spawned, step
<1>9. CASE step.kind = "sequence"
  <2>1. r \in SequenceResults(step, ptrs, p)
    BY <1>9 DEF StepResults
  <2>. HIDE DEF step
  <2>2. \/ BranchDone(ptrs, p) /\ r = next
        \/ r = persist(ChildrenActive)
        \/ r = branch(<<1>>, NoData)
    BY <2>1 DEF SequenceResults, Join
  <2>. QED  BY <2>2, <1>3, <1>4, <1>9 DEF Spawned, step
<1>10. CASE step.kind = "saga"
  <2>1. r \in SagaResults(step, ptrs, p)
    BY <1>10 DEF StepResults
  <2>. HIDE DEF step
  <2>2. \/ BranchDone(ptrs, p) /\ r = next
        \/ r = persist(Compensating)
        \/ r = persist(ChildrenActive)
        \/ r = branch(<<1>>, ChildrenActive)
        \/ r = branch(<<1>>, Compensating)
    BY <2>1 DEF SagaResults, Join, Compensating
  <2>. QED  BY <2>2, <1>3, <1>4, <1>10 DEF Spawned, step
<1>11. CASE step.kind \in {"wait_for", "delay", "schedule", "recur", "poll_endpoint",
                           "decide", "end", "sub_workflow"}
  <2>1. ~Spawned(step, data)
    BY <1>11 DEF Spawned
  <2>2. r.kind # "branch"
    <3>1. CASE step.kind = "wait_for"
      BY <3>1, <1>4 DEF StepResults, WaitForResults
    <3>2. CASE step.kind = "delay"
      BY <3>2, <1>4 DEF StepResults, DelayResults
    <3>3. CASE step.kind = "schedule"
      BY <3>3, <1>4 DEF StepResults, ScheduleResults, Join
    <3>4. CASE step.kind = "recur"
      <4>1. r \in RecurResults(step, ptrs, p)
        BY <3>4 DEF StepResults
      <4>. HIDE DEF step
      <4>2. r \in {next, sleep(ChildrenActive), persist(ChildrenActive)}
        BY <4>1 DEF RecurResults, Join
      <4>. QED  BY <4>2, <1>4
    <3>5. CASE step.kind = "poll_endpoint"
      BY <3>5, <1>4 DEF StepResults, PollEndpointResults
    <3>6. CASE step.kind = "decide"
      BY <3>6, <1>4 DEF StepResults, DecideResults
    <3>7. CASE step.kind = "end"
      BY <3>7, <1>4 DEF StepResults, EndResults
    <3>8. CASE step.kind = "sub_workflow"
      BY <3>8, <1>4 DEF StepResults, SubWorkflowResults, WaitForResults
    <3>. QED  BY <3>1, <3>2, <3>3, <3>4, <3>5, <3>6, <3>7, <3>8, <1>11
  <2>. QED  BY <2>1, <2>2
<1>. QED
  <2>1. step.kind # "task"
    OBVIOUS
  <2>. HIDE DEF step
  <2>. QED  BY <2>1, <1>1, <1>6, <1>7, <1>8, <1>9, <1>10, <1>11 DEF StepKind

-----------------------------------------------------------------------------
(* Scopes.                                                                 *)

\* Prefixes of a scope and of the scope below.
LEMMA Prefixes ==
  ASSUME NEW s \in Seq(Nat), NEW x \in Nat
  PROVE  /\ \A k \in 1..Len(s) : Append(SubSeq(s, 1, k - 1), s[k]) = SubSeq(s, 1, k)
         /\ \A k \in 1..Len(s) : SubSeq(Append(s, x), 1, k - 1) = SubSeq(s, 1, k - 1)
         /\ SubSeq(Append(s, x), 1, Len(s)) = s
         /\ \A k \in 1..Len(s) : Len(SubSeq(s, 1, k - 1)) = k - 1
         /\ SubSeq(s, 1, Len(s)) = s
<1>. DEFINE a == Append(s, x)
<1>1. /\ a \in Seq(Nat) /\ Len(a) = Len(s) + 1 /\ Len(s) \in Nat
      /\ \A i \in 1..Len(s) : a[i] = s[i]
  BY AppendProperties
<1>2. \A i \in 1..Len(s) : s[i] \in Nat
  BY ElementOfSeq
<1>3. \A i \in 1..Len(a) : a[i] \in Nat
  BY <1>1, ElementOfSeq
<1>4. ASSUME NEW k \in 0..Len(s)
      PROVE  /\ SubSeq(s, 1, k) \in Seq(Nat) /\ Len(SubSeq(s, 1, k)) = k
             /\ \A i \in 1..k : SubSeq(s, 1, k)[i] = s[i]
  <2>1. k \in Int /\ 1 \in Int /\ (1 <= k \/ k = 0)
    OBVIOUS
  <2>2. \A i \in 1..k : s[i] \in Nat
    BY <1>1, <1>2
  <2>3. /\ SubSeq(s, 1, k) \in Seq(Nat)
        /\ Len(SubSeq(s, 1, k)) = IF 1 <= k THEN k - 1 + 1 ELSE 0
        /\ \A i \in 1..(k - 1 + 1) : SubSeq(s, 1, k)[i] = s[1 + i - 1]
    BY <2>1, <2>2, SubSeqProperties
  <2>. QED  BY <2>1, <2>3
<1>5. ASSUME NEW k \in 0..Len(s)
      PROVE  /\ SubSeq(a, 1, k) \in Seq(Nat) /\ Len(SubSeq(a, 1, k)) = k
             /\ \A i \in 1..k : SubSeq(a, 1, k)[i] = s[i]
  <2>. HIDE DEF a
  <2>1. k \in Int /\ 1 \in Int /\ (1 <= k \/ k = 0)
    OBVIOUS
  <2>2. \A i \in 1..k : a[i] \in Nat
    BY <1>1, <1>3
  <2>3. /\ SubSeq(a, 1, k) \in Seq(Nat)
        /\ Len(SubSeq(a, 1, k)) = IF 1 <= k THEN k - 1 + 1 ELSE 0
        /\ \A i \in 1..(k - 1 + 1) : SubSeq(a, 1, k)[i] = a[1 + i - 1]
    BY <2>1, <2>2, SubSeqProperties
  <2>. QED  BY <2>1, <2>3, <1>1
<1>6. ASSUME NEW k \in 0..Len(s) PROVE SubSeq(a, 1, k) = SubSeq(s, 1, k)
  <2>. HIDE DEF a
  <2>. QED  BY <1>4, <1>5, SeqEqual
<1>7. ASSUME NEW k \in 1..Len(s)
      PROVE  Append(SubSeq(s, 1, k - 1), s[k]) = SubSeq(s, 1, k)
  <2>. DEFINE t == SubSeq(s, 1, k - 1)
              u == SubSeq(s, 1, k)
  <2>1. k - 1 \in 0..Len(s) /\ k \in 0..Len(s)
    BY <1>1
  <2>2. t \in Seq(Nat) /\ Len(t) = k - 1 /\ \A i \in 1..(k - 1) : t[i] = s[i]
    BY <2>1, <1>4
  <2>3. u \in Seq(Nat) /\ Len(u) = k /\ \A i \in 1..k : u[i] = s[i]
    BY <2>1, <1>4
  <2>4. s[k] \in Nat
    BY <1>2
  <2>. HIDE DEF t, u
  <2>5. /\ Append(t, s[k]) \in Seq(Nat) /\ Len(Append(t, s[k])) = k
        /\ \A i \in 1..(k - 1) : Append(t, s[k])[i] = s[i]
        /\ Append(t, s[k])[k] = s[k]
    BY <2>2, <2>4, AppendProperties
  <2>. DEFINE v == Append(t, s[k])
  <2>6. \A i \in 1..k : v[i] = u[i]
    <3>1. Len(s) \in Nat /\ \A i \in 1..k : i \in 1..(k - 1) \/ i = k
      BY <1>1
    <3>. HIDE DEF v
    <3>2. v[k] = s[k] /\ \A i \in 1..(k - 1) : v[i] = s[i]
      BY <2>5 DEF v
    <3>. QED  BY <3>1, <3>2, <2>3
  <2>7. Append(t, s[k]) = u
    BY <2>3, <2>5, <2>6, SeqEqual
  <2>. QED  BY <2>7 DEF t, u
<1>8. SubSeq(s, 1, Len(s)) = s
  BY SubSeqFull
<1>9. \A k \in 1..Len(s) : k - 1 \in 0..Len(s)
  BY <1>1
<1>10. \A k \in 1..Len(s) : SubSeq(a, 1, k - 1) = SubSeq(s, 1, k - 1)
  <2>. HIDE DEF a
  <2>. QED  BY <1>6, <1>9
<1>11. SubSeq(a, 1, Len(s)) = s
  <2>1. Len(s) \in 0..Len(s)
    BY <1>1
  <2>. HIDE DEF a
  <2>. QED  BY <2>1, <1>6, <1>8
<1>12. \A k \in 1..Len(s) : Len(SubSeq(s, 1, k - 1)) = k - 1
  BY <1>4, <1>9
<1>. QED  BY <1>7, <1>8, <1>10, <1>11, <1>12

\* Who is in the scope below.
LEMMA InAppend ==
  ASSUME NEW s \in Seq(Nat), NEW x \in Nat
  PROVE  /\ DOMAIN s = 1..Len(s) /\ DOMAIN Append(s, x) = 1..(Len(s) + 1)
         /\ \A k \in 1..Len(s) : Append(s, x)[k] = s[k]
         /\ Append(s, x)[Len(s) + 1] = x
         /\ Append(s, x) \in Seq(Nat) /\ Append(s, x) # s
<1>1. /\ Append(s, x) \in Seq(Nat) /\ Len(Append(s, x)) = Len(s) + 1 /\ Len(s) \in Nat
      /\ \A i \in 1..Len(s) : Append(s, x)[i] = s[i]
      /\ Append(s, x)[Len(s) + 1] = x
  BY AppendProperties
<1>. QED  BY <1>1

\* A pointer is not below itself.
LEMMA NotUnderSelf ==
  ASSUME NEW ptrs, IsPointers(ptrs), Scoped(ptrs), NEW p \in DOMAIN ptrs
  PROVE  ~Under(ptrs, p, p)
<1>. SUFFICES ASSUME NEW k \in DOMAIN ptrs[p].scope, ptrs[p].scope[k] = p
              PROVE  FALSE
  BY DEF Under
<1>1. ptrs[p].scope \in Seq(Nat) /\ p \in Nat
  BY DEF IsPointers, ExecutionPointer
<1>. DEFINE s == ptrs[p].scope
<1>2. s = SubSeq(s, 1, k - 1)
  BY DEF Scoped
<1>. HIDE DEF s
<1>3. s \in Seq(Nat) /\ k \in 1..Len(s) /\ Len(s) \in Nat
  BY <1>1 DEF s
<1>4. Len(SubSeq(s, 1, k - 1)) = k - 1
  BY <1>1, <1>3, Prefixes
<1>5. Len(s) = k - 1
  BY <1>2, <1>4
<1>. QED  BY <1>3, <1>5

\* Whatever is below p is a child of p or below a child of p.
LEMMA LevelBelow ==
  ASSUME NEW ptrs, IsPointers(ptrs), Scoped(ptrs), NEW p \in DOMAIN ptrs,
         NEW q \in DOMAIN ptrs, Under(ptrs, q, p)
  PROVE  \/ ptrs[q].scope = ChildScope(ptrs, p)
         \/ \E c \in DOMAIN ptrs : ptrs[c].scope = ChildScope(ptrs, p) /\ Under(ptrs, q, c)
<1>. DEFINE s == ptrs[q].scope
<1>1. PICK k \in DOMAIN s : s[k] = p
  BY DEF Under
<1>2. ptrs[p].scope = SubSeq(s, 1, k - 1)
  BY <1>1 DEF Scoped
<1>3. s \in Seq(Nat) /\ k \in 1..Len(s) /\ Len(s) \in Nat
  <2>1. ptrs[q] \in ExecutionPointer
    BY DEF IsPointers
  <2>2. s \in Seq(Nat)
    BY <2>1 DEF ExecutionPointer
  <2>. QED  BY <1>1, <2>2
<1>4. ASSUME NEW j \in DOMAIN s
      PROVE  s[j] \in DOMAIN ptrs /\ ptrs[s[j]].scope = SubSeq(s, 1, j - 1)
  BY DEF Scoped
<1>5. ASSUME NEW j \in DOMAIN s PROVE Under(ptrs, q, s[j])
  BY DEF Under
<1>. HIDE DEF s
<1>6. ChildScope(ptrs, p) = SubSeq(s, 1, k)
  <2>1. Append(SubSeq(s, 1, k - 1), s[k]) = SubSeq(s, 1, k)
    <3>1. 0 \in Nat  OBVIOUS
    <3>. QED  BY <3>1, <1>3, Prefixes
  <2>. QED  BY <2>1, <1>1, <1>2 DEF ChildScope
<1>7. CASE k = Len(s)
  BY <1>3, <1>6, <1>7, SubSeqFull DEF s
<1>8. CASE k < Len(s)
  <2>1. k + 1 \in DOMAIN s /\ (k + 1) - 1 = k
    BY <1>3, <1>8
  <2>. QED  BY <2>1, <1>4, <1>5, <1>6
<1>. QED  BY <1>3, <1>7, <1>8

\* is_branch_complete looks at one level; with every finished container
\* joined, all that is below has finished.
LEMMA BelowDone ==
  ASSUME NEW ptrs, IsPointers(ptrs), Scoped(ptrs), Joined(ptrs), NEW p \in DOMAIN ptrs,
         BranchDone(ptrs, p), NEW q \in DOMAIN ptrs, Under(ptrs, q, p)
  PROVE  Done(ptrs, q)
<1>1. \A c \in DOMAIN ptrs : ptrs[c].scope = ChildScope(ptrs, p) => Done(ptrs, c)
  BY DEF BranchDone, is_branch_complete, Done
<1>. QED  BY <1>1, LevelBelow DEF Joined

-----------------------------------------------------------------------------
(* The tree of pointers grows.                                             *)

\* What the result of container p must respect, in terms of the pointers
\* before (old) and after (new).
Respects(d, old, new, p) ==
  LET step == d.steps[old[p].step]
      spawned == Spawned(step, old[p].data)
      Child(i) == i \in DOMAIN new \ DOMAIN old /\ new[i].scope = ChildScope(old, p)
      inTurn == step.kind = "foreach" /\ ~step.run_parallel
  IN  /\ spawned => Spawned(step, new[p].data)
      /\ spawned /\ Done(new, p) => BranchDone(old, p)
      /\ \A i : Child(i) => Spawned(step, new[p].data) /\ ~Done(new, p)
      /\ \A i : Child(i) /\ inTurn /\ spawned => BranchDone(old, p)
      /\ \A i, j : Child(i) /\ Child(j) /\ inTurn => new[i].item = new[j].item

\* The hypotheses of the next lemmas.
Growing(d, old, new, p) ==
  /\ IsPointers(old) /\ IsPointers(new) /\ p \in DOMAIN old
  /\ old[p].step \in DOMAIN d.steps
  /\ Grows(old, new, p) /\ ~Done(old, p) /\ Respects(d, old, new, p)

\* Old pointers keep their step, scope and item.
LEMMA OldFields ==
  ASSUME NEW d, NEW old, NEW new, NEW p, Growing(d, old, new, p), NEW i \in DOMAIN old
  PROVE  /\ i \in DOMAIN new
         /\ new[i].step = old[i].step /\ new[i].scope = old[i].scope
         /\ new[i].item = old[i].item /\ ChildScope(new, i) = ChildScope(old, i)
         /\ \A q \in DOMAIN old : Under(new, q, i) <=> Under(old, q, i)
<1>1. \A q \in DOMAIN old : q \in DOMAIN new /\ new[q].scope = old[q].scope
  BY DEF Growing, Grows
<1>2. i \in DOMAIN new /\ new[i].step = old[i].step /\ new[i].scope = old[i].scope
      /\ new[i].item = old[i].item
  BY DEF Growing, Grows
<1>. QED  BY <1>1, <1>2 DEF ChildScope, Under

\* A new pointer is below what p is below, and perhaps below p.
LEMMA NewUnder ==
  ASSUME NEW d, NEW old, NEW new, NEW p, Growing(d, old, new, p), Scoped(old),
         NEW q \in DOMAIN new, q \notin DOMAIN old
  PROVE  /\ new[q].scope = old[p].scope \/ new[q].scope = ChildScope(old, p)
         /\ \A k \in DOMAIN new[q].scope : new[q].scope[k] \in DOMAIN old
         /\ \A i \in DOMAIN new : Under(new, q, i) =>
              i \in DOMAIN old /\ (Under(old, p, i) \/ i = p)
         /\ Under(new, q, p) => new[q].scope = ChildScope(old, p)
<1>1. /\ IsPointers(old) /\ p \in DOMAIN old /\ old[p].scope \in Seq(Nat) /\ p \in Nat
      /\ new[q].scope = old[p].scope \/ new[q].scope = ChildScope(old, p)
  BY DEF Growing, Grows, IsPointers, ExecutionPointer
<1>2. ~Under(old, p, p)
  BY <1>1, NotUnderSelf
<1>. DEFINE s == old[p].scope
<1>3. \A k \in DOMAIN s : s[k] \in DOMAIN old
  BY <1>1 DEF Scoped
<1>4. CASE new[q].scope = s
  <2>1. \A i \in DOMAIN new : Under(new, q, i) => i \in DOMAIN old /\ Under(old, p, i)
    BY <1>3, <1>4 DEF Under
  <2>2. ~Under(new, q, p)
    BY <1>2, <1>4 DEF Under
  <2>. QED  BY <2>1, <2>2, <1>1, <1>3, <1>4
<1>5. CASE new[q].scope = Append(s, p)
  <2>1. /\ DOMAIN s = 1..Len(s) /\ DOMAIN Append(s, p) = 1..(Len(s) + 1)
        /\ \A k \in 1..Len(s) : Append(s, p)[k] = s[k]
        /\ Append(s, p)[Len(s) + 1] = p
    BY <1>1, InAppend
  <2>2. \A k \in 1..(Len(s) + 1) : k \in 1..Len(s) \/ k = Len(s) + 1
    BY <1>1
  <2>3. \A k \in DOMAIN new[q].scope : new[q].scope[k] \in DOMAIN old
    BY <2>1, <2>2, <1>1, <1>3, <1>5
  <2>4. ASSUME NEW i \in DOMAIN new, Under(new, q, i)
        PROVE  i \in DOMAIN old /\ (Under(old, p, i) \/ i = p)
    <3>1. PICK k \in DOMAIN new[q].scope : new[q].scope[k] = i
      BY <2>4 DEF Under
    <3>2. CASE k \in 1..Len(s)
      <4>1. k \in DOMAIN s /\ s[k] = i
        BY <3>1, <3>2, <2>1, <1>5
      <4>. QED  BY <4>1, <1>3 DEF Under
    <3>3. CASE k = Len(s) + 1
      BY <3>1, <3>3, <2>1, <1>1, <1>5
    <3>. QED  BY <3>1, <3>2, <3>3, <2>1, <2>2, <1>5
  <2>. QED  BY <2>3, <2>4, <1>5 DEF ChildScope
<1>. QED  BY <1>1, <1>4, <1>5 DEF ChildScope

LEMMA GrowsScoped ==
  ASSUME NEW d, NEW old, NEW new, NEW p, Growing(d, old, new, p), Scoped(old)
  PROVE  Scoped(new)
<1>. SUFFICES ASSUME NEW q \in DOMAIN new, NEW k \in DOMAIN new[q].scope
              PROVE  /\ new[q].scope[k] \in DOMAIN new
                     /\ new[new[q].scope[k]].scope = SubSeq(new[q].scope, 1, k - 1)
  BY DEF Scoped
<1>1. CASE q \in DOMAIN old
  <2>1. new[q].scope = old[q].scope
    BY <1>1, OldFields
  <2>2. old[q].scope[k] \in DOMAIN old
        /\ old[old[q].scope[k]].scope = SubSeq(old[q].scope, 1, k - 1)
    BY <2>1, <1>1 DEF Scoped
  <2>. QED  BY <2>1, <2>2, OldFields
<1>2. CASE q \notin DOMAIN old
  <2>1. /\ new[q].scope = old[p].scope \/ new[q].scope = ChildScope(old, p)
        /\ new[q].scope[k] \in DOMAIN old
    BY <1>2, NewUnder
  <2>2. IsPointers(old) /\ p \in DOMAIN old /\ old[p].scope \in Seq(Nat) /\ p \in Nat
    BY DEF Growing, IsPointers, ExecutionPointer
  <2>. DEFINE s == old[p].scope
  <2>3. old[new[q].scope[k]].scope = SubSeq(new[q].scope, 1, k - 1)
    <3>1. CASE new[q].scope = s
      BY <3>1, <2>2 DEF Scoped
    <3>2. CASE new[q].scope = Append(s, p)
      <4>1. /\ DOMAIN s = 1..Len(s) /\ DOMAIN Append(s, p) = 1..(Len(s) + 1)
            /\ \A j \in 1..Len(s) : Append(s, p)[j] = s[j]
            /\ Append(s, p)[Len(s) + 1] = p
        BY <2>2, InAppend
      <4>2. /\ \A j \in 1..Len(s) : SubSeq(Append(s, p), 1, j - 1) = SubSeq(s, 1, j - 1)
            /\ SubSeq(Append(s, p), 1, Len(s)) = s
        BY <2>2, Prefixes
      <4>3. k \in 1..Len(s) \/ k = Len(s) + 1
        BY <4>1, <3>2, <2>2
      <4>4. CASE k \in 1..Len(s)
        <5>1. old[s[k]].scope = SubSeq(s, 1, k - 1)
          BY <4>1, <4>4, <2>2 DEF Scoped
        <5>. QED  BY <5>1, <4>1, <4>2, <4>4, <3>2
      <4>5. CASE k = Len(s) + 1
        <5>1. k - 1 = Len(s)
          BY <4>5, <2>2
        <5>. QED  BY <5>1, <4>1, <4>2, <4>5, <3>2
      <4>. QED  BY <4>3, <4>4, <4>5
    <3>. QED  BY <3>1, <3>2, <2>1 DEF ChildScope
  <2>. QED  BY <2>1, <2>3, OldFields
<1>. QED  BY <1>1, <1>2

LEMMA GrowsOwned ==
  ASSUME NEW d, NEW old, NEW new, NEW p, Growing(d, old, new, p), Scoped(old), Owned(d, old)
  PROVE  Owned(d, new)
<1>. SUFFICES ASSUME NEW i \in DOMAIN new, NEW q \in DOMAIN new, Under(new, q, i)
              PROVE  /\ new[i].step \in DOMAIN d.steps
                     /\ Spawned(d.steps[new[i].step], new[i].data)
  BY DEF Owned
<1>1. p \in DOMAIN old /\ old[p].step \in DOMAIN d.steps
  BY DEF Growing
\* An old pointer that had others below it still has them.
<1>2. ASSUME NEW o \in DOMAIN old, Under(old, o, i), i \in DOMAIN old
      PROVE  /\ new[i].step \in DOMAIN d.steps
             /\ Spawned(d.steps[new[i].step], new[i].data)
  <2>1. /\ old[i].step \in DOMAIN d.steps /\ Spawned(d.steps[old[i].step], old[i].data)
        /\ new[i].step = old[i].step
    BY <1>2, OldFields DEF Owned
  <2>2. CASE i = p
    BY <2>1, <2>2 DEF Growing, Respects
  <2>3. CASE i # p
    BY <2>1, <2>3, <1>2 DEF Growing, Grows
  <2>. QED  BY <2>2, <2>3
<1>3. CASE q \in DOMAIN old
  <2>1. \E k \in DOMAIN old[q].scope : old[q].scope[k] = i
    BY <1>3, OldFields DEF Under
  <2>2. i \in DOMAIN old /\ Under(old, q, i)
    BY <2>1, <1>3 DEF Scoped, Under
  <2>. QED  BY <2>2, <1>2, <1>3
<1>4. CASE q \notin DOMAIN old
  <2>1. /\ i \in DOMAIN old /\ (Under(old, p, i) \/ i = p)
        /\ Under(new, q, p) => new[q].scope = ChildScope(old, p)
    BY <1>4, NewUnder
  <2>2. CASE Under(old, p, i)
    BY <2>1, <2>2, <1>1, <1>2
  <2>3. CASE i = p
    <3>1. new[q].scope = ChildScope(old, p)
      BY <2>1, <2>3
    <3>2. Spawned(d.steps[old[p].step], new[p].data)
      BY <3>1, <1>4 DEF Growing, Respects
    <3>. QED  BY <3>2, <2>3, <1>1, OldFields
  <2>. QED  BY <2>1, <2>2, <2>3
<1>. QED  BY <1>3, <1>4

\* The heart of the matter: a container that finishes has nothing running
\* below it, at any depth, and nothing is started below what has finished.
LEMMA GrowsJoined ==
  ASSUME NEW d, NEW old, NEW new, NEW p, Growing(d, old, new, p), TreeOK(d, old)
  PROVE  Joined(new)
<1>. SUFFICES ASSUME NEW i \in DOMAIN new, NEW q \in DOMAIN new, Done(new, i), Under(new, q, i)
              PROVE  Done(new, q)
  BY DEF Joined
<1>1. Scoped(old) /\ Owned(d, old) /\ Joined(old) /\ IsPointers(old) /\ p \in DOMAIN old
  BY DEF TreeOK, Growing
<1>2. ~Done(old, p) /\ \A o \in DOMAIN old : o # p => new[o] = old[o]
  BY DEF Growing, Grows
<1>3. CASE q \in DOMAIN old
  <2>1. \E k \in DOMAIN old[q].scope : old[q].scope[k] = i
    BY <1>3, OldFields DEF Under
  <2>2. i \in DOMAIN old /\ Under(old, q, i)
    BY <2>1, <1>1, <1>3 DEF Scoped, Under
  <2>3. CASE i = p
    <3>1. Spawned(d.steps[old[p].step], old[p].data)
      BY <2>2, <2>3, <1>1, <1>3 DEF Owned
    <3>2. BranchDone(old, p)
      BY <3>1, <2>3 DEF Growing, Respects
    <3>3. Done(old, q)
      BY <3>2, <2>2, <2>3, <1>1, <1>3, BelowDone
    <3>. QED  BY <3>3, <1>2, <1>3 DEF Done
  <2>4. CASE i # p
    <3>1. Done(old, i)
      BY <2>2, <2>4, <1>2 DEF Done
    <3>2. Done(old, q)
      BY <3>1, <2>2, <1>1, <1>3 DEF Joined
    <3>. QED  BY <3>2, <1>2, <1>3 DEF Done
  <2>. QED  BY <2>3, <2>4
<1>4. CASE q \notin DOMAIN old
  <2>1. /\ i \in DOMAIN old /\ (Under(old, p, i) \/ i = p)
        /\ Under(new, q, p) => new[q].scope = ChildScope(old, p)
    BY <1>1, <1>4, NewUnder
  <2>2. CASE i = p
    <3>1. new[q].scope = ChildScope(old, p)
      BY <2>1, <2>2
    <3>. QED  BY <3>1, <2>2, <1>4 DEF Growing, Respects
  <2>3. CASE i # p
    <3>1. Done(old, i)
      BY <2>1, <2>3, <1>2 DEF Done
    <3>. QED  BY <3>1, <2>1, <2>3, <1>1, <1>2 DEF Joined
  <2>. QED  BY <2>2, <2>3
<1>. QED  BY <1>3, <1>4

\* A sequential ForEach starts an item when the ones before are finished.
LEMMA GrowsInTurn ==
  ASSUME NEW d, NEW old, NEW new, NEW p, Growing(d, old, new, p), TreeOK(d, old),
         InTurn(d, old), Numbered(old), Numbered(new)
  PROVE  InTurn(d, new)
<1>. SUFFICES ASSUME NEW i \in DOMAIN new, NEW q \in DOMAIN new, NEW r \in DOMAIN new,
                     new[i].step \in DOMAIN d.steps,
                     d.steps[new[i].step].kind = "foreach",
                     ~d.steps[new[i].step].run_parallel,
                     new[q].scope = ChildScope(new, i), Under(new, r, i),
                     r < q, new[q].item > 0, new[r].item # new[q].item
              PROVE  Done(new, r)
  BY DEF InTurn
<1>1. /\ Scoped(old) /\ Owned(d, old) /\ Joined(old) /\ IsPointers(old) /\ p \in DOMAIN old
      /\ IsPointers(new)
  BY DEF TreeOK, Growing
<1>2. ~Done(old, p) /\ \A o \in DOMAIN old : o # p => new[o] = old[o]
  BY DEF Growing, Grows
\* i owns r, so it is an old pointer.
<1>3. i \in DOMAIN old
  <2>1. PICK k \in DOMAIN new[r].scope : new[r].scope[k] = i
    BY DEF Under
  <2>2. CASE r \in DOMAIN old
    BY <2>1, <2>2, <1>1, OldFields DEF Scoped
  <2>3. CASE r \notin DOMAIN old
    BY <2>1, <2>3, <1>1, NewUnder
  <2>. QED  BY <2>2, <2>3
<1>4. /\ new[i].step = old[i].step /\ ChildScope(new, i) = ChildScope(old, i)
  BY <1>3, OldFields
<1>5. ASSUME q \in DOMAIN old, r \notin DOMAIN old PROVE FALSE
  <2>1. PICK n \in Nat : DOMAIN old = 1..n
    BY DEF Numbered
  <2>2. PICK m \in Nat : DOMAIN new = 1..m
    BY DEF Numbered
  <2>. QED  BY <2>1, <2>2, <1>5
<1>6. CASE q \in DOMAIN old
  <2>1. r \in DOMAIN old
    BY <1>5, <1>6
  <2>2. /\ old[q].scope = ChildScope(old, i) /\ Under(old, r, i)
        /\ old[q].item = new[q].item /\ old[r].item = new[r].item
    BY <2>1, <1>3, <1>4, <1>6, OldFields
  <2>3. Done(old, r)
    BY <2>1, <2>2, <1>3, <1>4, <1>6 DEF InTurn
  <2>. QED  BY <2>1, <2>3, <1>2 DEF Done
<1>7. CASE q \notin DOMAIN old
  <2>1. new[q].scope = ChildScope(old, p)
    <3>1. \/ new[q].scope = old[p].scope /\ new[q].item = 0
          \/ new[q].scope = ChildScope(old, p)
      BY <1>7 DEF Growing, Grows
    <3>. QED  BY <3>1
  <2>2. i = p
    <3>1. /\ old[p].scope \in Seq(Nat) /\ old[i].scope \in Seq(Nat) /\ p \in Nat /\ i \in Nat
          /\ Append(old[p].scope, p) = Append(old[i].scope, i)
      BY <2>1, <1>1, <1>3, <1>4 DEF ChildScope, IsPointers, ExecutionPointer
    <3>. QED  BY <3>1, AppendInjective
  <2>3. CASE r \in DOMAIN old
    <3>1. Under(old, r, p)
      BY <2>2, <2>3, <1>3, OldFields
    <3>2. Spawned(d.steps[old[p].step], old[p].data)
      BY <3>1, <2>3, <1>1 DEF Owned
    <3>3. BranchDone(old, p)
      BY <3>2, <2>1, <2>2, <1>4, <1>7 DEF Growing, Respects
    <3>4. Done(old, r)
      BY <3>1, <3>3, <2>3, <1>1, BelowDone
    <3>. QED  BY <3>4, <2>3, <1>2 DEF Done
  <2>4. CASE r \notin DOMAIN old
    <3>1. new[r].scope = ChildScope(old, p)
      BY <2>2, <2>4, <1>1, NewUnder
    <3>2. new[r].item = new[q].item
      BY <3>1, <2>1, <2>2, <2>4, <1>4, <1>7 DEF Growing, Respects
    <3>. QED  BY <3>2
  <2>. QED  BY <2>3, <2>4
<1>. QED  BY <1>6, <1>7

-----------------------------------------------------------------------------
(* Blocks are joined.                                                      *)

\* Running a pointer of a joinable definition respects its children.
LEMMA RunRespects ==
  ASSUME NEW d, IsDefinition(d), Joinable(d), NEW m, IsInstance(m), NEW p \in DOMAIN m.ptrs,
         m.ptrs[p].step \in DOMAIN d.steps, NEW r \in StepResults(d, m.ptrs, p),
         NEW last \in Nat, NEW new, new = ApplyResult(d, m, p, r, last).ptrs
  PROVE  Respects(d, m.ptrs, new, p)
<1>. DEFINE old == m.ptrs
            step == d.steps[old[p].step]
            news == new_pointers(d, old, p, r)
<1>1. IsPointers(old) /\ old[p] \in ExecutionPointer /\ r \in ExecutionResult
  BY InstanceParts, StepResultsType DEF IsPointers
<1>2. step \in WorkflowStep
  BY DEF IsDefinition
<1>3. /\ new[p] = After(d, old[p], r)
      /\ \A i \in DOMAIN new \ DOMAIN old : \E k \in DOMAIN news : new[i] = news[k]
  BY <1>1, ApplyResultGrows
<1>4. ASSUME NEW k \in DOMAIN news
      PROVE  /\ r.kind # "branch" => news[k].scope = old[p].scope
             /\ r.kind = "branch" =>
                  /\ step.children # <<>>
                  /\ \E j \in DOMAIN r.items : news[k].item = r.items[j]
  BY <1>1, NewPointersFields
<1>5. old[p].scope # ChildScope(old, p)
  <2>1. old[p].scope \in Seq(Nat) /\ p \in Nat
    BY <1>1 DEF IsPointers, ExecutionPointer
  <2>. QED  BY <2>1, InAppend DEF ChildScope
<1>6. ASSUME NEW i \in DOMAIN new \ DOMAIN old, new[i].scope = ChildScope(old, p)
      PROVE  /\ r.kind = "branch" /\ step.children # <<>>
             /\ \E j \in DOMAIN r.items : new[i].item = r.items[j]
  BY <1>3, <1>4, <1>5, <1>6
<1>7. /\ r.kind = "proceed" => new[p].data = old[p].data
      /\ r.kind = "event" => new[p].data = old[p].data /\ new[p].status = "WaitingForEvent"
      /\ r.kind = "fail" => new[p].data = old[p].data
      /\ r.kind \in {"branch", "persist"} => new[p].data = r.data /\ new[p].status = "Running"
      /\ r.kind \in {"sleep", "poll"} => new[p].data = r.data /\ new[p].status = "Sleeping"
      /\ r.kind \in ResultKind
  BY <1>1, <1>3, AfterFields DEF ExecutionResult
<1>8. r.items \in Seq(Nat)
  BY <1>1 DEF ExecutionResult
<1>9. CASE step.kind # "task"
  <2>1. Minds(d, old, p, r)
    BY <1>1, <1>9, ContainersMind
  <2>. DEFINE spawned == Spawned(step, old[p].data)
              inTurn == step.kind = "foreach" /\ ~step.run_parallel
  <2>2. /\ spawned /\ r.kind = "proceed" => BranchDone(old, p)
        /\ spawned => r.kind # "fail"
        /\ spawned /\ r.kind \in {"branch", "sleep", "poll", "persist"} => Spawned(step, r.data)
        /\ r.kind = "branch" /\ step.children # <<>> => Spawned(step, r.data)
        /\ r.kind = "branch" /\ inTurn => Len(r.items) = 1 /\ (spawned => BranchDone(old, p))
    BY <2>1 DEF Minds
  <2>3. spawned => Spawned(step, new[p].data)
    <3>. HIDE DEF step
    <3>. QED  BY <2>2, <1>7 DEF ResultKind
  <2>4. spawned /\ Done(new, p) => BranchDone(old, p)
    <3>. HIDE DEF spawned
    <3>. QED  BY <2>2, <1>7 DEF ResultKind, Done, DoneStatus
  <2>5. ASSUME NEW i \in DOMAIN new \ DOMAIN old, new[i].scope = ChildScope(old, p)
        PROVE  /\ Spawned(step, new[p].data) /\ ~Done(new, p)
               /\ inTurn => new[i].item = r.items[1]
               /\ inTurn /\ spawned => BranchDone(old, p)
    <3>1. r.kind = "branch" /\ step.children # <<>>
      BY <2>5, <1>6
    <3>2. PICK j \in DOMAIN r.items : new[i].item = r.items[j]
      BY <2>5, <1>6
    <3>3. Spawned(step, new[p].data) /\ ~Done(new, p)
      BY <3>1, <2>2, <1>7 DEF Done, DoneStatus
    <3>4. inTurn => j = 1
      BY <3>1, <2>2, <1>8
    <3>. QED  BY <3>1, <3>2, <3>3, <3>4, <2>2
  <2>. HIDE DEF step, spawned, inTurn
  <2>. QED  BY <2>3, <2>4, <2>5 DEF Respects, step, spawned, inTurn
<1>10. CASE step.kind = "task"
  <2>1. step.children = <<>>
    BY <1>10 DEF Joinable
  <2>2. ~Spawned(step, old[p].data)
    BY <2>1 DEF Spawned
  <2>. QED  BY <2>1, <2>2, <1>6 DEF Respects
<1>. QED  BY <1>9, <1>10

\* Skipping one does: it has none.
LEMMA SkipRespects ==
  ASSUME NEW d, IsDefinition(d), Joinable(d), NEW m, IsInstance(m), NEW p \in DOMAIN m.ptrs,
         m.ptrs[p].step \in DOMAIN d.steps, "false" \in d.steps[m.ptrs[p].step].when,
         NEW last \in Nat, NEW new, new = ApplySkip(d, m, p, last).ptrs
  PROVE  Respects(d, m.ptrs, new, p)
<1>. DEFINE old == m.ptrs
            step == d.steps[old[p].step]
<1>1. IsPointers(old) /\ old[p].scope \in Seq(Nat) /\ p \in Nat
  BY InstanceParts DEF IsPointers, ExecutionPointer
<1>2. ~Spawned(step, old[p].data)
  BY DEF Joinable, Spawned
<1>3. \A i \in DOMAIN new \ DOMAIN old : new[i].scope = old[p].scope
  BY ApplySkipGrows
<1>4. old[p].scope # ChildScope(old, p)
  BY <1>1, InAppend DEF ChildScope
<1>. QED  BY <1>2, <1>3, <1>4 DEF Respects

\* A step of a pass.
LEMMA TreePass ==
  ASSUME FinalInv, Joinable(def), OneTree(def, mem.ptrs), NEW p, RunPointer(p) \/ SkipPointer(p)
  PROVE  OneTree(def, mem'.ptrs)
<1>1. /\ p \in DOMAIN mem.ptrs /\ ~Done(mem.ptrs, p) /\ mem.ptrs[p].step \in DOMAIN def.steps
      /\ IsInstance(mem') /\ Grows(mem.ptrs, mem'.ptrs, p) /\ Numbered(mem'.ptrs)
  BY PassStep
<1>2. IsDefinition(def) /\ IsInstance(mem) /\ Last \in Nat /\ Numbered(mem.ptrs)
  BY DefsAssumption, LastCounts DEF FinalInv, TypeOK
<1>3. IsPointers(mem.ptrs) /\ IsPointers(mem'.ptrs)
  BY <1>1, <1>2, InstanceParts
<1>. DEFINE new == mem'.ptrs
<1>4. Respects(def, mem.ptrs, new, p)
  <2>1. CASE RunPointer(p)
    <3>1. PICK r \in StepResults(def, mem.ptrs, p) : mem' = ApplyResult(def, mem, p, r, Last)
      BY <2>1 DEF RunPointer
    <3>2. new = ApplyResult(def, mem, p, r, Last).ptrs
      BY <3>1
    <3>. HIDE DEF new
    <3>. QED  BY <3>2, <1>1, <1>2, RunRespects
  <2>2. CASE SkipPointer(p)
    <3>1. "false" \in def.steps[mem.ptrs[p].step].when
      BY <2>2 DEF SkipPointer, StepOf
    <3>2. new = ApplySkip(def, mem, p, Last).ptrs
      BY <2>2 DEF SkipPointer
    <3>. HIDE DEF new
    <3>. QED  BY <3>1, <3>2, <1>1, <1>2, SkipRespects
  <2>. QED  BY <2>1, <2>2
<1>5. Growing(def, mem.ptrs, new, p)
  BY <1>1, <1>3, <1>4 DEF Growing
<1>. HIDE DEF new
<1>6. TreeOK(def, mem.ptrs) /\ InTurn(def, mem.ptrs) /\ Numbered(new)
  BY <1>1 DEF OneTree, new
<1>7. Scoped(new)
  BY <1>5, <1>6, GrowsScoped DEF TreeOK
<1>8. Owned(def, new)
  BY <1>5, <1>6, GrowsOwned DEF TreeOK
<1>9. Joined(new)
  BY <1>5, <1>6, GrowsJoined
<1>10. InTurn(def, new)
  BY <1>2, <1>5, <1>6, GrowsInTurn
<1>. QED  BY <1>7, <1>8, <1>9, <1>10 DEF OneTree, TreeOK, new

\* Writes that leave step, scope, item, data and status of every pointer
\* alone: the clock and process_event.
LEMMA TreeFrame ==
  ASSUME NEW d, NEW old, NEW new, OneTree(d, old), DOMAIN new = DOMAIN old,
         \A i \in DOMAIN old : /\ new[i].step = old[i].step /\ new[i].scope = old[i].scope
                               /\ new[i].item = old[i].item /\ new[i].data = old[i].data
                               /\ new[i].status = old[i].status
  PROVE  OneTree(d, new)
<1>1. \A p, q \in DOMAIN old : Under(new, q, p) <=> Under(old, q, p)
  BY DEF Under
<1>2. \A p \in DOMAIN old : Done(new, p) <=> Done(old, p)
  BY DEF Done
<1>3. \A p \in DOMAIN old : ChildScope(new, p) = ChildScope(old, p)
  BY DEF ChildScope
<1>4. Scoped(new)
  BY DEF OneTree, TreeOK, Scoped
<1>5. Owned(d, new)
  BY <1>1 DEF OneTree, TreeOK, Owned
<1>6. Joined(new)
  BY <1>1, <1>2 DEF OneTree, TreeOK, Joined
<1>7. InTurn(d, new)
  BY <1>1, <1>2, <1>3 DEF OneTree, InTurn
<1>. QED  BY <1>4, <1>5, <1>6, <1>7 DEF OneTree, TreeOK

LEMMA TreeAwake ==
  ASSUME NEW d, NEW ptrs, IsPointers(ptrs), OneTree(d, ptrs), NEW p
  PROVE  OneTree(d, Awake(ptrs, p))
<1>. DEFINE new == Awake(ptrs, p)
<1>1. DOMAIN new = DOMAIN ptrs
  BY DEF Awake
<1>2. \A i \in DOMAIN ptrs : /\ new[i].step = ptrs[i].step /\ new[i].scope = ptrs[i].scope
                             /\ new[i].item = ptrs[i].item /\ new[i].data = ptrs[i].data
                             /\ new[i].status = ptrs[i].status
  BY AwakeFields
<1>. HIDE DEF new
<1>3. OneTree(d, new)
  BY <1>1, <1>2, TreeFrame
<1>. QED  BY <1>3 DEF new

\* No pointers, or a single one at the top.
LEMMA TreeStart ==
  ASSUME NEW d
  PROVE  OneTree(d, NewInstance(d).ptrs) /\ OneTree(d, NoMem.ptrs)
<1>1. ASSUME NEW ptrs, \A i \in DOMAIN ptrs : ptrs[i].scope = <<>>
      PROVE  OneTree(d, ptrs)
  <2>1. DOMAIN <<>> = {}
    OBVIOUS
  <2>2. \A p, q \in DOMAIN ptrs : ~Under(ptrs, q, p)
    BY <1>1, <2>1 DEF Under
  <2>3. Scoped(ptrs)
    BY <1>1, <2>1 DEF Scoped
  <2>. QED  BY <2>2, <2>3 DEF OneTree, TreeOK, Owned, Joined, InTurn
<1>2. \A i \in DOMAIN NewInstance(d).ptrs : NewInstance(d).ptrs[i].scope = <<>>
  BY DEF NewInstance, Instance, NewPointer
<1>3. DOMAIN NoMem.ptrs = {}
  BY DEF NoMem, Instance
<1>. QED  BY <1>1, <1>2, <1>3

LEMMA TreesInit == Init => Trees
BY TreeStart DEF Init, Trees

LEMMA TreesNext ==
  ASSUME FinalInv, Joinable(def), Trees, [Next]_vars
  PROVE  Trees'
<1>1. IsInstance(inst) /\ IsInstance(mem) /\ IsInstance(call)
  BY DEF FinalInv, TypeOK
<1>2. IsPointers(inst.ptrs) /\ IsPointers(mem.ptrs) /\ IsPointers(call.ptrs)
  BY <1>1, InstanceParts
<1>3. OneTree(def, NoMem.ptrs)
  BY TreeStart
<1>4. CASE SkipInstance
  BY <1>4 DEF SkipInstance, Trees
<1>5. CASE BeginPass
  BY <1>5 DEF BeginPass, Trees
<1>6. CASE EndPass
  <2>1. inst'.ptrs = mem.ptrs /\ mem' = NoMem /\ UNCHANGED <<def, call>>
    BY <1>1, <1>6, ConcludedType DEF EndPass
  <2>. QED  BY <2>1, <1>3 DEF Trees
<1>7. ASSUME NEW p \in Ids, RunPointer(p) \/ SkipPointer(p) PROVE Trees'
  <2>1. OneTree(def, mem'.ptrs)
    BY <1>7, TreePass DEF Trees
  <2>2. UNCHANGED <<def, inst, call>>
    BY <1>7 DEF RunPointer, SkipPointer
  <2>. QED  BY <2>1, <2>2 DEF Trees
<1>8. ASSUME NEW p \in Ids, AbortPass(p) PROVE Trees'
  BY <1>3, <1>8 DEF AbortPass, Trees
<1>9. ASSUME NEW p \in Ids, DeliverEvent(p) PROVE Trees'
  <2>. DEFINE new == inst'.ptrs
  <2>1. /\ DOMAIN new = DOMAIN inst.ptrs /\ p \in DOMAIN inst.ptrs
        /\ \A i \in DOMAIN inst.ptrs : i # p => new[i] = inst.ptrs[i]
        /\ new[p].status = inst.ptrs[p].status /\ new[p].step = inst.ptrs[p].step
        /\ new[p].scope = inst.ptrs[p].scope /\ new[p].item = inst.ptrs[p].item
        /\ new[p].data = inst.ptrs[p].data
    BY <1>9, DeliverFields
  <2>. HIDE DEF new
  <2>2. OneTree(def, new)
    BY <2>1, TreeFrame DEF Trees
  <2>. QED  BY <2>2, <1>9 DEF Trees, DeliverEvent, new
<1>10. ASSUME NEW p \in Ids, Tick(p) PROVE Trees'
  <2>1. /\ inst'.ptrs = Awake(inst.ptrs, p) /\ mem'.ptrs = Awake(mem.ptrs, p)
        /\ call'.ptrs = Awake(call.ptrs, p) /\ def' = def
    BY <1>10, FinalInvTick DEF Tick
  <2>. QED  BY <2>1, <1>2, TreeAwake DEF Trees
<1>11. ASSUME NEW from, NEW to, Operate(from, to) PROVE Trees'
  <2>1. call'.ptrs = inst.ptrs /\ UNCHANGED <<def, inst, mem>>
    BY <1>1, <1>11 DEF Operate, IsInstance
  <2>. QED  BY <2>1 DEF Trees
<1>12. CASE OperatorPersist
  BY <1>3, <1>12 DEF OperatorPersist, Trees
<1>13. CASE Crash
  BY <1>3, <1>13 DEF Crash, Trees
<1>14. CASE UNCHANGED vars
  BY <1>14 DEF vars, Trees
<1>. QED
  BY <1>4, <1>5, <1>6, <1>7, <1>8, <1>9, <1>10, <1>11, <1>12, <1>13, <1>14
     DEF Next, Consumer, Suspend, Resume, Terminate

\* The invariant of every run of joinable definitions.
LEMMA TreesAlways ==
  ASSUME \A d \in Defs : Joinable(d)
  PROVE  Spec => [](FinalInv /\ Trees)
<1>1. FinalInv /\ Trees /\ [Next]_vars => FinalInv' /\ Trees'
  <2>1. FinalInv => Joinable(def)
    BY DEF FinalInv, TypeOK
  <2>. QED  BY <2>1, FinalInvNext, TreesNext
<1>. QED  BY <1>1, FinalInvInit, TreesInit, PTL DEF Spec

\* A block is joined: a Complete container has only finished pointers below
\* it, at any depth, if no container has a condition of its own.
THEOREM BlocksAreJoined ==
  ASSUME \A d \in Defs : Joinable(d)
  PROVE  Spec => []BlocksJoined
<1>1. Trees => BlocksJoined
  BY DEF Trees, OneTree, TreeOK, Joined, BlocksJoined, Done, DoneStatus
<1>. QED  BY <1>1, TreesAlways, PTL

\* A sequential ForEach has one item in flight, under the same hypothesis.
THEOREM OneItemInFlight ==
  ASSUME \A d \in Defs : Joinable(d)
  PROVE  Spec => []OneItemAtATime
<1>1. Trees => OneItemAtATime
  BY DEF Trees, OneTree, InTurn, OneItemAtATime
<1>. QED  BY <1>1, TreesAlways, PTL

-----------------------------------------------------------------------------
(* No work is forgotten.                                                   *)

\* One copy, when a pointer has been run or skipped.
LEMMA GrowsLive ==
  ASSUME NEW d, NEW old, NEW new, NEW p \in DOMAIN old, Grows(old, new, p), LiveOK(d, old),
         new[p].active \/ Done(new, p) \/ new[p].status = "WaitingForEvent",
         \A i \in DOMAIN new \ DOMAIN old : new[i].step \in DOMAIN d.steps
  PROVE  LiveOK(d, new)
<1>. SUFFICES ASSUME NEW i \in DOMAIN new
              PROVE  /\ new[i].step \in DOMAIN d.steps
                     /\ new[i].active \/ Done(new, i) \/ new[i].status = "WaitingForEvent"
  BY DEF LiveOK
<1>1. CASE i \in DOMAIN old /\ i # p
  BY <1>1 DEF Grows, LiveOK, Done
<1>2. CASE i = p
  BY <1>2 DEF Grows, LiveOK
<1>3. CASE i \notin DOMAIN old
  BY <1>3 DEF Grows, Fresh
<1>. QED  BY <1>1, <1>2, <1>3

LEMMA LivePass ==
  ASSUME FinalInv, Sound(def), LiveOK(def, mem.ptrs), NEW p, RunPointer(p) \/ SkipPointer(p)
  PROVE  LiveOK(def, mem'.ptrs)
<1>1. /\ p \in DOMAIN mem.ptrs /\ mem.ptrs[p].active /\ mem.ptrs[p].step \in DOMAIN def.steps
      /\ Grows(mem.ptrs, mem'.ptrs, p)
  BY PassStep
<1>2. IsDefinition(def) /\ IsInstance(mem) /\ Last \in Nat /\ IsPointers(mem.ptrs)
  BY DefsAssumption, LastCounts, InstanceParts DEF FinalInv, TypeOK
<1>. DEFINE new == mem'.ptrs
<1>3. CASE RunPointer(p)
  <2>1. PICK r \in StepResults(def, mem.ptrs, p) : mem' = ApplyResult(def, mem, p, r, Last)
    BY <1>3 DEF RunPointer
  <2>2. r \in ExecutionResult
    BY <1>1, <1>2, StepResultsType
  <2>3. new = ApplyResult(def, mem, p, r, Last).ptrs
    BY <2>1
  <2>. HIDE DEF new
  <2>4. /\ new[p] = After(def, mem.ptrs[p], r)
        /\ \A i \in DOMAIN new \ DOMAIN mem.ptrs :
             \E k \in DOMAIN new_pointers(def, mem.ptrs, p, r) :
               new[i] = new_pointers(def, mem.ptrs, p, r)[k]
    BY <2>2, <2>3, <1>1, <1>2, ApplyResultGrows
  <2>5. \A i \in DOMAIN new \ DOMAIN mem.ptrs : new[i].step \in DOMAIN def.steps
    BY <2>2, <2>4, <1>1, <1>2, SoundSteps
  <2>6. new[p].active \/ Done(new, p) \/ new[p].status = "WaitingForEvent"
    <3>1. mem.ptrs[p] \in ExecutionPointer /\ r.kind \in ResultKind
      BY <2>2, <1>1, <1>2 DEF IsPointers, ExecutionResult
    <3>2. \/ new[p].active \/ new[p].status = "WaitingForEvent"
          \/ new[p].status \in {"Complete", "Failed"}
      BY <3>1, <2>2, <2>4, <1>1, AfterFields DEF ResultKind
    <3>. QED  BY <3>2 DEF Done, DoneStatus
  <2>7. Grows(mem.ptrs, new, p)
    BY <1>1 DEF new
  <2>8. LiveOK(def, new)
    BY <2>5, <2>6, <2>7, <1>1, GrowsLive
  <2>. QED  BY <2>8 DEF new
<1>4. CASE SkipPointer(p)
  <2>1. new = ApplySkip(def, mem, p, Last).ptrs
    BY <1>4 DEF SkipPointer
  <2>. DEFINE step == def.steps[mem.ptrs[p].step]
  <2>. HIDE DEF new
  <2>2. /\ new[p].status = "Skipped"
        /\ \A i \in DOMAIN new \ DOMAIN mem.ptrs :
             step.outcomes # <<>> /\ new[i].step = step.outcomes[1].next
    BY <2>1, <1>1, <1>2, ApplySkipGrows
  <2>3. step.outcomes # <<>> => step.outcomes[1].next \in DOMAIN def.steps
    <3>1. step.outcomes \in Seq(StepOutcome)
      BY <1>1, <1>2 DEF IsDefinition, WorkflowStep
    <3>2. step.outcomes # <<>> => 1 \in DOMAIN step.outcomes
      BY <3>1
    <3>. QED  BY <3>2, <1>1 DEF Sound
  <2>4. Grows(mem.ptrs, new, p)
    BY <1>1 DEF new
  <2>5. LiveOK(def, new)
    BY <2>2, <2>3, <2>4, <1>1, GrowsLive DEF Done, DoneStatus
  <2>. QED  BY <2>5 DEF new
<1>. QED  BY <1>3, <1>4

LEMMA LiveAwake ==
  ASSUME NEW d, NEW ptrs, IsPointers(ptrs), LiveOK(d, ptrs), NEW p
  PROVE  /\ LiveOK(d, Awake(ptrs, p)) /\ DOMAIN Awake(ptrs, p) = DOMAIN ptrs
         /\ has_active(Awake(ptrs, p)) => has_active(ptrs)
         /\ all_done(Awake(ptrs, p)) => all_done(ptrs)
<1>1. DOMAIN Awake(ptrs, p) = DOMAIN ptrs
  BY DEF Awake
<1>2. \A i \in DOMAIN ptrs : /\ Awake(ptrs, p)[i].step = ptrs[i].step
                             /\ Awake(ptrs, p)[i].status = ptrs[i].status
                             /\ Awake(ptrs, p)[i].active = ptrs[i].active
  BY AwakeFields
<1>. QED  BY <1>1, <1>2 DEF LiveOK, has_active, all_done, Done

LEMMA QueueInvInit == Init /\ Sound(def) => QueueInv
<1>. SUFFICES ASSUME Init, Sound(def) PROVE QueueInv
  OBVIOUS
<1>1. IsDefinition(def) /\ 0 \in DOMAIN def.steps
  BY DefsAssumption DEF Init, Sound, IsDefinition
<1>2. /\ DOMAIN inst.ptrs = {1} /\ inst.ptrs[1] = NewPointer(0, NoPointer, <<>>, 0)
  BY <1>1 DEF Init, NewInstance, Instance
<1>3. LiveOK(def, inst.ptrs)
  BY <1>1, <1>2 DEF LiveOK, NewPointer
<1>4. DOMAIN NoMem.ptrs = {}
  BY DEF NoMem, Instance
<1>. QED  BY <1>2, <1>3, <1>4 DEF Init, QueueInv, LiveOK

LEMMA QueueInvNext ==
  ASSUME FinalInv, Sound(def), QueueInv, [Next]_vars
  PROVE  QueueInv'
<1>1. /\ IsInstance(inst) /\ IsInstance(mem) /\ IsInstance(call) /\ queued \in Nat
      /\ crashes \in Nat
  BY BoundsAssumption DEF FinalInv, TypeOK
<1>2. IsPointers(inst.ptrs) /\ IsPointers(mem.ptrs) /\ IsPointers(call.ptrs)
  BY <1>1, InstanceParts
<1>3. DOMAIN NoMem.ptrs = {} /\ LiveOK(def, NoMem.ptrs)
  BY DEF NoMem, Instance, LiveOK
<1>4. /\ LiveOK(def, inst.ptrs) /\ LiveOK(def, mem.ptrs) /\ LiveOK(def, call.ptrs)
      /\ DOMAIN inst.ptrs # {} /\ (pc = "run" => DOMAIN mem.ptrs # {})
      /\ call # NoMem => DOMAIN call.ptrs # {}
  BY DEF QueueInv
<1>5. CASE SkipInstance
  BY <1>5 DEF SkipInstance, QueueInv
<1>6. CASE BeginPass
  BY <1>6 DEF BeginPass, QueueInv
<1>7. CASE EndPass
  <2>1. /\ inst'.ptrs = mem.ptrs /\ inst' = Concluded(mem) /\ pc = "run" /\ mem' = NoMem
        /\ UNCHANGED <<def, call>>
        /\ queued' = queued + (IF NeedsRequeue(inst') THEN 1 ELSE 0)
    BY <1>1, <1>7, ConcludedType DEF EndPass
  <2>2. queued' = 0 => ~NeedsRequeue(inst')
    BY <2>1, <1>1
  <2>3. inst'.status = "Runnable" /\ queued' = 0 => ~has_active(mem.ptrs)
    BY <2>1, <2>2 DEF NeedsRequeue
  <2>4. inst'.status = "Runnable" => ~all_done(mem.ptrs)
    <3>1. CASE mem.status = "Runnable" /\ all_done(mem.ptrs)
      <4>1. inst'.status = "Complete"
        BY <3>1, <2>1, <1>1 DEF Concluded, IsInstance
      <4>. QED  BY <4>1
    <3>2. CASE ~(mem.status = "Runnable" /\ all_done(mem.ptrs))
      BY <3>2, <2>1 DEF Concluded
    <3>. QED  BY <3>1, <3>2
  <2>5. pc' = "idle"
    BY <1>7 DEF EndPass
  <2>. QED  BY <2>1, <2>3, <2>4, <2>5, <1>3, <1>4 DEF QueueInv
<1>8. ASSUME NEW p \in Ids, RunPointer(p) \/ SkipPointer(p) PROVE QueueInv'
  <2>1. /\ pc = "run" /\ p \in DOMAIN mem.ptrs /\ Grows(mem.ptrs, mem'.ptrs, p)
        /\ LiveOK(def, mem'.ptrs)
    BY <1>4, <1>8, PassStep, LivePass
  <2>2. DOMAIN mem'.ptrs # {}
    BY <2>1 DEF Grows
  <2>3. UNCHANGED <<def, inst, pc, queued, call, ops, crashes>>
    BY <1>8 DEF RunPointer, SkipPointer
  <2>. QED  BY <2>1, <2>2, <2>3, <1>4 DEF QueueInv
<1>9. ASSUME NEW p \in Ids PROVE ~AbortPass(p)
  <2>. SUFFICES ASSUME AbortPass(p) PROVE FALSE
    OBVIOUS
  <2>1. mem.ptrs[p].step \in DOMAIN def.steps
    BY <1>4 DEF AbortPass, FinalInv, TodoInv, LiveOK
  <2>. QED  BY <2>1 DEF AbortPass, StepOf, Sound
<1>10. ASSUME NEW p \in Ids, DeliverEvent(p) PROVE QueueInv'
  <2>. DEFINE new == inst'.ptrs
  <2>1. /\ DOMAIN new = DOMAIN inst.ptrs /\ p \in DOMAIN inst.ptrs
        /\ \A i \in DOMAIN inst.ptrs : i # p => new[i] = inst.ptrs[i]
        /\ new[p].active /\ new[p].step = inst.ptrs[p].step
    BY <1>10, DeliverFields
  <2>. HIDE DEF new
  <2>2. LiveOK(def, new)
    BY <2>1, <1>4 DEF LiveOK, Done
  <2>3. UNCHANGED <<def, pc, mem, call, crashes>> /\ queued' = queued + 1
    BY <1>10 DEF DeliverEvent
  <2>4. queued' # 0
    BY <2>3, <1>1
  <2>. QED  BY <2>1, <2>2, <2>3, <2>4, <1>4 DEF QueueInv, new
<1>11. ASSUME NEW p \in Ids, Tick(p) PROVE QueueInv'
  <2>1. /\ inst'.status = inst.status /\ inst'.ptrs = Awake(inst.ptrs, p)
        /\ mem'.ptrs = Awake(mem.ptrs, p) /\ call'.ptrs = Awake(call.ptrs, p)
        /\ call'.status = call.status
    BY <1>11, FinalInvTick
  <2>2. UNCHANGED <<def, pc, queued, crashes>>
    BY <1>11 DEF Tick
  <2>3. call' # NoMem => call # NoMem
    <3>. SUFFICES ASSUME call = NoMem PROVE call' = NoMem
      OBVIOUS
    <3>1. Awake(<<>>, p) = <<>>
      BY DEF Awake
    <3>. QED  BY <3>1, <1>11 DEF Tick, NoMem, Instance
  <2>. QED  BY <2>1, <2>2, <2>3, <1>2, <1>4, LiveAwake DEF QueueInv
<1>12. ASSUME NEW from, NEW to, Operate(from, to) PROVE QueueInv'
  <2>1. call'.ptrs = inst.ptrs /\ UNCHANGED <<def, inst, pc, mem, queued, crashes>>
    BY <1>1, <1>12 DEF Operate, IsInstance
  <2>. QED  BY <2>1 DEF QueueInv
<1>13. CASE OperatorPersist
  <2>1. /\ call # NoMem /\ inst' = call /\ call' = NoMem /\ UNCHANGED <<def, pc, mem, crashes>>
        /\ queued' = queued + (IF call.status = "Runnable" THEN 1 ELSE 0)
    BY <1>13 DEF OperatorPersist
  <2>2. call.status = "Runnable" => queued' # 0
    BY <2>1, <1>1
  <2>. QED  BY <2>1, <2>2, <1>3, <1>4 DEF QueueInv
<1>14. CASE Crash
  <2>1. crashes' # 0
    BY <1>1, <1>14 DEF Crash
  <2>. QED  BY <2>1, <1>3, <1>4, <1>14 DEF Crash, QueueInv
<1>15. CASE UNCHANGED vars
  BY <1>15 DEF vars, QueueInv
<1>. QED
  BY <1>5, <1>6, <1>7, <1>8, <1>9, <1>10, <1>11, <1>12, <1>13, <1>14, <1>15
     DEF Next, Consumer, Suspend, Resume, Terminate

\* No work is forgotten: a Runnable instance of a sound definition that is not
\* in the queue and not being executed waits for an event.
THEOREM NeverStuck == Spec => []NotStuck
<1>. DEFINE I == FinalInv /\ (Sound(def) => QueueInv)
<1>1. Init => I
  BY FinalInvInit, QueueInvInit
<1>2. I /\ [Next]_vars => I'
  <2>1. [Next]_vars => def' = def
    BY DEF Next, Consumer, SkipInstance, BeginPass, EndPass, RunPointer, SkipPointer,
           AbortPass, DeliverEvent, Tick, Suspend, Resume, Terminate, Operate,
           OperatorPersist, Crash, vars
  <2>. QED  BY <2>1, FinalInvNext, QueueInvNext
<1>3. I => NotStuck
  BY DEF QueueInv, NotStuck, LiveOK, has_active, all_done, Done
<1>. HIDE DEF I
<1>. QED  BY <1>1, <1>2, <1>3, PTL DEF Spec
=============================================================================
