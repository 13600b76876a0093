------------------------------ MODULE Executor ------------------------------
(***************************************************************************)
(* The life of one workflow instance under one workflow consumer:          *)
(* WorkflowExecutor::execute run again and again, pass after pass, on the  *)
(* persisted instance, while events arrive, time passes, an operator       *)
(* suspends, resumes or terminates the instance, and the process crashes.  *)
(*                                                                         *)
(*   inst    the instance as the persistence provider holds it             *)
(*   mem     the copy a pass works on, persisted only at its end           *)
(*   todo    runnable_indices: the pointers this pass has still to run     *)
(*   queued  how many times the instance is in the workflow queue          *)
(*   call    what the operator's call that is under way will write: its    *)
(*           own copy of the whole instance                                *)
(*                                                                         *)
(* A pass is several steps (a step body may take hours), so operators and  *)
(* crashes interleave with it; loading and persisting are single steps     *)
(* here and Engine takes them apart, with several hosts, the lock and the  *)
(* subscriptions.  `now' is read once at the start of a pass, which is why *)
(* todo is computed there and not refreshed.                               *)
(***************************************************************************)
EXTENDS Primitives, FiniteSets

CONSTANTS
  Defs,         \* the workflow definitions considered
  MaxPointers,  \* bound on the pointers of the instance (loops)
  MaxOps,       \* bound on operator calls
  MaxCrashes    \* bound on crashes of the consumer's process

ASSUME DefsAssumption == \A d \in Defs : IsDefinition(d)
ASSUME BoundsAssumption ==
  MaxPointers \in Nat \ {0} /\ MaxOps \in Nat /\ MaxCrashes \in Nat

VARIABLES def, inst, pc, mem, todo, queued, call, ops, crashes
vars == <<def, inst, pc, mem, todo, queued, call, ops, crashes>>

\* mem while no pass is running, call while no operator is at work.
NoMem == Instance("Runnable", <<>>)

\* start_workflow creates the instance and queues it.
Init ==
  /\ def \in Defs
  /\ inst = NewInstance(def)
  /\ pc = "idle" /\ mem = NoMem /\ todo = {}
  /\ queued = 1 /\ call = NoMem /\ ops = 0 /\ crashes = 0

Last == Cardinality(DOMAIN mem.ptrs)
StepOf(p) == mem.ptrs[p].step

-----------------------------------------------------------------------------
(* One pass of the executor.                                               *)

\* The instance is not Runnable: the queue item is used up, nothing happens.
SkipInstance ==
  /\ pc = "idle" /\ queued > 0 /\ inst.status # "Runnable"
  /\ queued' = queued - 1
  /\ UNCHANGED <<def, inst, pc, mem, todo, call, ops, crashes>>

BeginPass ==
  /\ pc = "idle" /\ queued > 0 /\ inst.status = "Runnable"
  /\ queued' = queued - 1
  /\ pc' = "run" /\ mem' = inst /\ todo' = Runnable(inst.ptrs)
  /\ UNCHANGED <<def, inst, call, ops, crashes>>

RunPointer(p) ==
  /\ pc = "run" /\ p \in todo
  /\ StepOf(p) \in DOMAIN def.steps
  /\ "true" \in def.steps[StepOf(p)].when
  /\ \E r \in StepResults(def, mem.ptrs, p) :
       mem' = ApplyResult(def, mem, p, r, Last)
  /\ Cardinality(DOMAIN mem'.ptrs) <= MaxPointers
  /\ todo' = todo \ {p}
  /\ UNCHANGED <<def, inst, pc, queued, call, ops, crashes>>

SkipPointer(p) ==
  /\ pc = "run" /\ p \in todo
  /\ StepOf(p) \in DOMAIN def.steps
  /\ "false" \in def.steps[StepOf(p)].when
  /\ mem' = ApplySkip(def, mem, p, Last)
  /\ Cardinality(DOMAIN mem'.ptrs) <= MaxPointers
  /\ todo' = todo \ {p}
  /\ UNCHANGED <<def, inst, pc, queued, call, ops, crashes>>

\* A missing step or a condition that cannot be evaluated ends the pass with
\* an error: what it did is not persisted and the instance is not re-queued.
AbortPass(p) ==
  /\ pc = "run" /\ p \in todo
  /\ StepOf(p) \in DOMAIN def.steps => "error" \in def.steps[StepOf(p)].when
  /\ pc' = "idle" /\ mem' = NoMem /\ todo' = {}
  /\ UNCHANGED <<def, inst, queued, call, ops, crashes>>

\* Conclude, persist, and queue follow-up work.
EndPass ==
  /\ pc = "run" /\ todo = {}
  /\ inst' = Concluded(mem)
  /\ queued' = queued + (IF NeedsRequeue(inst') THEN 1 ELSE 0)
  /\ pc' = "idle" /\ mem' = NoMem
  /\ UNCHANGED <<def, todo, call, ops, crashes>>

-----------------------------------------------------------------------------
(* The environment of the pass.                                            *)

\* process_event, under the instance's lock: the pointer gets the event and
\* the instance is queued.  A pointer waits, not active, with an open
\* subscription until it is given an event; a step may wait more than once.
DeliverEvent(p) ==
  /\ pc = "idle"
  /\ p \in DOMAIN inst.ptrs
  /\ inst.ptrs[p].status = "WaitingForEvent" /\ ~inst.ptrs[p].active
  /\ inst' = [inst EXCEPT !.ptrs[p].event = TRUE, !.ptrs[p].active = TRUE]
  /\ queued' = queued + 1
  /\ UNCHANGED <<def, pc, mem, todo, call, ops, crashes>>

\* The sleep_until of pointer p passes; it is an absolute time, the same in
\* every copy of the instance.
Tick(p) ==
  /\ Asleep(inst.ptrs, p) \/ Asleep(mem.ptrs, p)
  /\ inst' = [inst EXCEPT !.ptrs = Awake(inst.ptrs, p)]
  /\ mem' = [mem EXCEPT !.ptrs = Awake(mem.ptrs, p)]
  /\ call' = [call EXCEPT !.ptrs = Awake(call.ptrs, p)]
  /\ UNCHANGED <<def, pc, todo, queued, ops, crashes>>

\* The operator's calls read the instance ...
Operate(from, to) ==
  /\ call = NoMem /\ ops < MaxOps /\ ops' = ops + 1
  /\ inst.status \in from
  /\ call' = [inst EXCEPT !.status = to]
  /\ UNCHANGED <<def, inst, pc, mem, todo, queued, crashes>>

Suspend == Operate({"Runnable"}, "Suspended")
Resume == Operate({"Suspended"}, "Runnable")
Terminate == Operate({"Runnable", "Suspended"}, "Terminated")

\* ... and write it back whole, without the lock: a pass can have begun, ended
\* or both in between.  resume_workflow also queues the instance.
OperatorPersist ==
  /\ call # NoMem
  /\ inst' = call /\ call' = NoMem
  /\ queued' = queued + (IF call.status = "Runnable" THEN 1 ELSE 0)
  /\ UNCHANGED <<def, pc, mem, todo, ops, crashes>>

\* The process dies in a pass: the working copy is lost, and so is the work
\* item, which was removed from the queue when it was dequeued.
Crash ==
  /\ pc = "run" /\ crashes < MaxCrashes
  /\ crashes' = crashes + 1
  /\ pc' = "idle" /\ mem' = NoMem /\ todo' = {}
  /\ UNCHANGED <<def, inst, queued, call, ops>>

Ids == 1..MaxPointers

Consumer ==
  \/ SkipInstance \/ BeginPass \/ EndPass
  \/ \E p \in Ids : RunPointer(p) \/ SkipPointer(p) \/ AbortPass(p)

Next ==
  \/ Consumer
  \/ \E p \in Ids : DeliverEvent(p) \/ Tick(p)
  \/ Suspend \/ Resume \/ Terminate \/ OperatorPersist \/ Crash

Spec == Init /\ [][Next]_vars

\* The consumer loop keeps running, clocks advance and a call that was begun
\* is carried out; nobody has to begin one or to publish an event.
FairSpec ==
  /\ Spec
  /\ WF_vars(Consumer) /\ WF_vars(OperatorPersist)
  /\ \A p \in Ids : WF_vars(Tick(p))

-----------------------------------------------------------------------------
(* Properties.                                                             *)

\* Types of the variables.
TypeOK ==
  /\ def \in Defs
  /\ IsInstance(inst) /\ IsInstance(mem) /\ IsInstance(call)
  /\ pc \in {"idle", "run"}
  /\ todo \subseteq DOMAIN mem.ptrs
  /\ queued \in Nat /\ ops \in 0..MaxOps /\ crashes \in 0..MaxCrashes

Under(ptrs, q, p) == \E k \in DOMAIN ptrs[q].scope : ptrs[q].scope[k] = p

\* A block is joined: when the pointer of a container is Complete, every
\* pointer below it, at any depth, has finished, in the pass and in the
\* store.  is_branch_complete looks at one level only, so this depends on
\* each level in between waiting for its own children, on compensation
\* pointers staying in the scope of the step that failed, and on a child's
\* successor being added in the same step that finishes the child.
BlocksJoined ==
  \A ptrs \in {inst.ptrs, mem.ptrs} : \A p, q \in DOMAIN ptrs :
    ptrs[p].status = "Complete" /\ Under(ptrs, q, p) => Done(ptrs, q)

\* A sequential ForEach has one item in flight: before a pointer of a later
\* item is created, everything under the ForEach that was created before is
\* finished, the successors and compensations of earlier items included.
OneItemAtATime ==
  \A ptrs \in {inst.ptrs, mem.ptrs} : \A p, q, r \in DOMAIN ptrs :
    /\ ptrs[p].step \in DOMAIN def.steps
    /\ def.steps[ptrs[p].step].kind = "foreach"
    /\ ~def.steps[ptrs[p].step].run_parallel
    /\ ptrs[q].scope = ChildScope(ptrs, p) /\ Under(ptrs, r, p)
    /\ r < q /\ ptrs[q].item > 0 /\ ptrs[r].item # ptrs[q].item
    => Done(ptrs, r)

\* No work is forgotten: an instance that is Runnable, not in the queue and
\* not being executed has no active pointer and waits for an event, if its
\* definition is sound and no pass was lost to a crash.
NotStuck ==
  Sound(def) /\ crashes = 0 /\ pc = "idle" /\ queued = 0 /\ inst.status = "Runnable" =>
    /\ ~has_active(inst.ptrs)
    /\ \E p \in DOMAIN inst.ptrs : inst.ptrs[p].status = "WaitingForEvent"

\* What has finished stays as it is: no step but the stale write of an
\* operator's call removes a persisted pointer or changes a finished one,
\* whatever passes are lost to crashes, and also in the passes that such a
\* write falls into or precedes.
FinishedIsFinal ==
  [][~OperatorPersist => \A p \in DOMAIN inst.ptrs :
       /\ p \in DOMAIN inst'.ptrs
       /\ Done(inst.ptrs, p) => inst'.ptrs[p] = inst.ptrs[p]]_vars

\* A Complete instance is left alone: no event, left over queue item or late
\* pass changes it, and no operator's call begun after it completed.
CompleteIsFinal == [][~OperatorPersist /\ inst.status = "Complete" => inst' = inst]_vars

\* Nothing in the definition waits for the outside or loops by itself.
Terminating(d) ==
  /\ Sound(d)
  /\ \A s \in DOMAIN d.steps :
       /\ d.steps[s].kind \in
            {"task", "if", "sequence", "foreach", "saga", "decide", "end"}
       /\ \A r \in d.steps[s].results : r.kind \in {"proceed", "branch", "fail"}

\* A Runnable instance of a terminating definition stops being Runnable, also
\* after it was suspended and resumed, unless a pass of it is lost to a crash:
\* retries are bounded, blocks join, and each pass that leaves work queues the
\* next one.
EventuallyEnds ==
  Terminating(def) /\ inst.status = "Runnable" ~> inst.status # "Runnable" \/ crashes > 0

\* lib.rs, execution model: after a crash "the next executor invocation will
\* resume from step 4 because the pointer state was persisted".
ResumesAfterCrash ==
  crashes > 0 /\ pc = "idle" /\ inst.status = "Runnable"
    ~> pc = "run" \/ inst.status # "Runnable"

\* The pointers of the store that are on a step of the given kind.
On(kind, ptrs) ==
  {p \in DOMAIN ptrs : /\ ptrs[p].step \in DOMAIN def.steps
                       /\ def.steps[ptrs[p].step].kind = kind}

\* DelayStep "sleeps for a specified duration before proceeding".
DelayProceeds ==
  \A p \in Ids : p \in On("delay", inst.ptrs) ~>
                   p \in DOMAIN inst.ptrs /\ Done(inst.ptrs, p)

\* ScheduleStep "schedules child execution after a delay": when it is done,
\* its children have been executed.
ScheduleRunsChildren ==
  \A p \in On("schedule", inst.ptrs) :
    Done(inst.ptrs, p) /\ def.steps[inst.ptrs[p].step].children # <<>>
      => \E q \in DOMAIN inst.ptrs : Under(inst.ptrs, q, p)

\* SequenceStep "executes its children sequentially": a child starts when
\* the children before it have finished.
SequenceInOrder ==
  \A p \in On("sequence", inst.ptrs) : \A q, r \in DOMAIN inst.ptrs :
    /\ inst.ptrs[q].scope = ChildScope(inst.ptrs, p)
    /\ inst.ptrs[r].scope = ChildScope(inst.ptrs, p)
    /\ q < r
    => Done(inst.ptrs, q)

\* SequenceStep "completes when all children have finished": it is not left,
\* and its successor not started, before that.
SequenceJoins ==
  \A p \in On("sequence", inst.ptrs) : \A q \in DOMAIN inst.ptrs :
    Done(inst.ptrs, p) /\ Under(inst.ptrs, q, p) => Done(inst.ptrs, q)

\* "Terminated workflows cannot be resumed": the pass that terminated the
\* instance, for the error behaviour of one of its steps, persists that.
TerminatedByPass ==
  [][mem.status = "Terminated" =>
       (IF pc' = "run" THEN mem' ELSE inst').status = "Terminated"]_vars
=============================================================================
