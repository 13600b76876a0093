---------------------------- MODULE EngineProofs ----------------------------
(***************************************************************************)
(* Proofs about Engine, for every number of hosts, instances, requests and *)
(* faults and every definition.  First what the consumers hold: types,     *)
(* mutual exclusion over an instance, locks that are not forgotten.  Then  *)
(* what the hosts write: work refers to instances that exist, no consumer  *)
(* writes over what another one wrote, what is finished stays finished,    *)
(* waiters are subscribed, events are kept, a completion is announced once *)
(* and sub-workflows are awaited.                                          *)
(***************************************************************************)
EXTENDS Engine, PointersProofs

-----------------------------------------------------------------------------
(* Instances.                                                              *)

\* The absent instance is none.
LEMMA AbsentIsNone ==
  /\ Absent.status = "Absent" /\ DOMAIN Absent.ptrs = {}
  /\ ~IsInstance(Absent) /\ IsStored(Absent)
<1>1. Absent.status = "Absent" /\ Absent.ptrs = <<>>
  BY DEF Absent, Instance
<1>2. DOMAIN <<>> = {}
  OBVIOUS
<1>3. "Absent" \notin WorkflowStatus
  BY DEF WorkflowStatus
<1>. QED  BY <1>1, <1>2, <1>3 DEF IsInstance, IsStored

\* Writing a status leaves an instance.
LEMMA StatusType ==
  ASSUME NEW inst, IsInstance(inst), NEW status \in WorkflowStatus
  PROVE  IsInstance([inst EXCEPT !.status = status])
BY DEF IsInstance

\* What process_event writes to the waiting pointer leaves an instance.
LEMMA DeliveredType ==
  ASSUME NEW inst, IsStored(inst), NEW p
  PROVE  /\ IsStored(Delivered(inst, p))
         /\ inst # Absent => Delivered(inst, p) # Absent
<1>1. CASE p \in DOMAIN inst.ptrs /\ inst.ptrs[p].status = "WaitingForEvent"
  <2>1. IsInstance(inst)
    BY <1>1, AbsentIsNone DEF IsStored
  <2>. DEFINE x == [inst.ptrs[p] EXCEPT !.event = TRUE, !.active = TRUE]
              q == [inst.ptrs EXCEPT ![p] = x]
  <2>2. x \in ExecutionPointer
    BY <2>1, <1>1 DEF IsInstance, ExecutionPointer
  <2>3. IsPointers(q)
    <3>. HIDE DEF x
    <3>. QED  BY <2>1, <2>2, <1>1, InstanceParts, UpdateType
  <2>4. Delivered(inst, p) = Instance(inst.status, q)
    BY <2>1, <1>1 DEF Delivered, Instance, IsInstance
  <2>. HIDE DEF q
  <2>5. IsInstance(Delivered(inst, p))
    BY <2>1, <2>3, <2>4, InstanceParts, InstanceType
  <2>. QED  BY <2>5, AbsentIsNone DEF IsStored
<1>2. CASE ~(p \in DOMAIN inst.ptrs /\ inst.ptrs[p].status = "WaitingForEvent")
  BY <1>2 DEF Delivered
<1>. QED  BY <1>1, <1>2

\* The clock keeps an instance an instance, with the same pointers on the same
\* steps, and an absent one absent.
LEMMA LaterType ==
  ASSUME NEW inst, IsStored(inst), NEW p
  PROVE  /\ IsStored(Later(inst, p)) /\ DOMAIN Later(inst, p).ptrs = DOMAIN inst.ptrs
         /\ IsInstance(inst) => IsInstance(Later(inst, p))
         /\ inst # Absent => Later(inst, p) # Absent
         /\ inst = Absent => Later(inst, p) = Absent
         /\ \A i \in DOMAIN inst.ptrs : Later(inst, p).ptrs[i].step = inst.ptrs[i].step
<1>1. CASE IsInstance(inst)
  <2>1. IsPointers(inst.ptrs) /\ inst.status \in WorkflowStatus
    BY <1>1, InstanceParts
  <2>2. Later(inst, p) = Instance(inst.status, Awake(inst.ptrs, p))
    BY <1>1 DEF Later, Instance, IsInstance
  <2>3. IsInstance(Later(inst, p))
    BY <2>1, <2>2, AwakeType, InstanceType
  <2>4. Later(inst, p).ptrs = Awake(inst.ptrs, p)
    BY <2>2 DEF Instance
  <2>. QED  BY <2>1, <2>3, <2>4, <1>1, AwakeType, AbsentIsNone DEF IsStored
<1>2. CASE inst = Absent
  <2>1. Awake(<<>>, p) = <<>>
    BY DEF Awake
  <2>2. Later(Absent, p) = Absent
    BY <2>1 DEF Later, Absent, Instance
  <2>. QED  BY <2>2, <1>2, AbsentIsNone
<1>. QED  BY <1>1, <1>2 DEF IsStored

-----------------------------------------------------------------------------
(* Frame lemmas: a step of one consumer or request.                        *)

\* A sequence over a set is one over a larger set.
LEMMA SeqMono ==
  ASSUME NEW S, NEW T, S \subseteq T, NEW s \in Seq(S)
  PROVE  s \in Seq(T)
<1>1. \A i \in 1..Len(s) : s[i] \in T
  BY ElementOfSeq
<1>. QED  BY <1>1, SeqDef

\* More events do no harm.
LEMMA MoreEvents ==
  ASSUME NEW n \in Nat, NEW m \in Nat, n <= m
  PROVE  /\ \A c : WcTypeOK(c, n) => WcTypeOK(c, m)
         /\ \A c, ss : EcTypeOK(c, n, ss) => EcTypeOK(c, m, ss)
         /\ \A r, c : RqTypeOK(r, c, n) => RqTypeOK(r, c, m)
<1>1. \A e \in 0..n : e \in 0..m
  OBVIOUS
<1>2. \A c : WcTypeOK(c, n) => WcTypeOK(c, m)
  BY <1>1 DEF WcTypeOK
<1>3. \A c, ss : EcTypeOK(c, n, ss) => EcTypeOK(c, m, ss)
  BY <1>1 DEF EcTypeOK
<1>4. \A r, c : RqTypeOK(r, c, n) => RqTypeOK(r, c, m)
  BY <1>1 DEF RqTypeOK
<1>. QED  BY <1>2, <1>3, <1>4

\* Host h's workflow consumer takes a step.
LEMMA WcFrame ==
  ASSUME TypeOK, NEW h \in Hosts, DOMAIN wc' = Hosts,
         \A g \in Hosts \ {h} : wc'[g] = wc[g],
         events' \in Seq(Event), Len(events) <= Len(events'),
         WcTypeOK(wc'[h], Len(events'))
  PROVE  WcsTypeOK'
<1>1. Len(events) \in Nat /\ Len(events') \in Nat
  BY DEF TypeOK, ProvidersTypeOK
<1>2. \A g \in Hosts \ {h} : WcTypeOK(wc'[g], Len(events'))
  BY <1>1, MoreEvents DEF TypeOK, WcsTypeOK
<1>. QED  BY <1>2 DEF WcsTypeOK

\* The event consumers and the requests meanwhile.
LEMMA OthersFrame ==
  ASSUME TypeOK, events' \in Seq(Event), Len(events) <= Len(events')
  PROVE  /\ ec' = ec /\ DOMAIN subs \subseteq DOMAIN subs' => EcsTypeOK'
         /\ rq' = rq => RqsTypeOK'
         /\ wc' = wc => WcsTypeOK'
         /\ evQueue' = evQueue => evQueue' \in Seq(1..Len(events'))
<1>1. Len(events) \in Nat /\ Len(events') \in Nat
  BY DEF TypeOK, ProvidersTypeOK
<1>2. ASSUME ec' = ec, DOMAIN subs \subseteq DOMAIN subs'
      PROVE  EcsTypeOK'
  <2>1. \A h \in Hosts : EcTypeOK(ec[h], Len(events'), DOMAIN subs)
    BY <1>1, MoreEvents DEF TypeOK, EcsTypeOK
  <2>2. \A c, n : EcTypeOK(c, n, DOMAIN subs) => EcTypeOK(c, n, DOMAIN subs')
    BY <1>2 DEF EcTypeOK
  <2>. QED  BY <2>1, <2>2, <1>2 DEF EcsTypeOK, TypeOK
<1>3. ASSUME rq' = rq PROVE RqsTypeOK'
  BY <1>1, <1>3, MoreEvents DEF TypeOK, RqsTypeOK
<1>4. ASSUME wc' = wc PROVE WcsTypeOK'
  BY <1>1, <1>4, MoreEvents DEF TypeOK, WcsTypeOK
<1>5. evQueue \in Seq(1..Len(events'))
  <2>1. 1..Len(events) \subseteq 1..Len(events')  BY <1>1
  <2>. QED  BY <2>1, SeqMono DEF TypeOK, ProvidersTypeOK
<1>. QED  BY <1>2, <1>3, <1>4, <1>5

-----------------------------------------------------------------------------
(* Types: the workflow consumer.                                           *)

\* The idle state, and the state in which only the lock is left to release.
LEMMA IdleType ==
  ASSUME NEW n \in Nat, NEW w \in Workflows
  PROVE  /\ WcTypeOK(IdleWc, n)
         /\ WcTypeOK([IdleWc EXCEPT !.pc = "release", !.w = w], n)
         /\ WcTypeOK([IdleWc EXCEPT !.pc = "requeue", !.w = w], n)
         /\ WcTypeOK([IdleWc EXCEPT !.pc = "teardown", !.w = w], n)
<1>1. <<>> \in Seq(EventSubscription) /\ 0 \in 0..n
  OBVIOUS
<1>. QED  BY <1>1, AbsentIsNone DEF WcTypeOK, IdleWc, WcPc, WcHolding, WcWorking

\* The steps that handle the queue item, the lock and the services.
LEMMA WcOuterType ==
  ASSUME TypeOK, NEW h \in Hosts,
         \/ WcDequeue(h) \/ WcDrop(h) \/ WcBounce(h) \/ WcAccept(h)
         \/ WcProvision(h) \/ WcInjectLoad(h) \/ WcInject(h) \/ WcTeardown(h)
         \/ WcAcquire(h) \/ WcBusy(h) \/ WcLoad(h)
         \/ WcAnnounce(h) \/ WcRequeue(h) \/ WcRelease(h)
  PROVE  TypeOK'
<1>. DEFINE n == Len(events)
<1>1. /\ n \in Nat /\ events \in Seq(Event)
      /\ DOMAIN wc = Hosts /\ WcTypeOK(wc[h], n) /\ wc[h].pc \in WcPc
      /\ wc[h].pc # "idle" => wc[h].w \in Workflows
  BY DEF TypeOK, ProvidersTypeOK, WcsTypeOK, WcTypeOK
<1>2. events' = events /\ ec' = ec /\ subs' = subs /\ rq' = rq
  BY DEF WcDequeue, WcDrop, WcBounce, WcAccept, WcProvision, WcInjectLoad, WcInject,
         WcTeardown, WcAcquire, WcBusy, WcLoad, WcAnnounce, WcRequeue, WcRelease,
         persistence, queues
<1>3. WcTypeOK(Executed(h), n) \/ wc[h].pc = "idle"
  BY <1>1, IdleType DEF Executed
<1>4. ProvidersTypeOK'
  <2>1. CASE WcDequeue(h)
    BY <2>1 DEF WcDequeue, TypeOK, ProvidersTypeOK, persistence
  <2>2. CASE WcBounce(h) \/ WcRequeue(h)
    <3>1. wc[h].w \in Workflows
      BY <2>2, <1>1 DEF WcBounce, WcRequeue
    <3>2. wfQueue' \in Seq(Workflows)
      <4>1. wfQueue' = Append(wfQueue, wc[h].w)  BY <2>2 DEF WcBounce, WcRequeue
      <4>2. wfQueue \in Seq(Workflows)  BY DEF TypeOK, ProvidersTypeOK
      <4>. QED  BY <3>1, <4>1, <4>2
    <3>. QED
      BY <3>2, <2>2 DEF WcBounce, WcRequeue, TypeOK, ProvidersTypeOK, persistence
  <2>3. CASE WcInject(h)
    BY <2>3, <1>1 DEF WcInject, TypeOK, ProvidersTypeOK, queues, WcTypeOK
  <2>4. CASE WcLoad(h)
    BY <2>4, <1>1 DEF WcLoad, TypeOK, ProvidersTypeOK, persistence, queues
  <2>5. CASE WcAnnounce(h)
    <3>1. wc[h].e \in 1..n  BY <2>5, <1>1 DEF WcAnnounce, WcTypeOK
    <3>. QED  BY <3>1, <2>5 DEF WcAnnounce, TypeOK, ProvidersTypeOK, persistence
  <2>6. CASE WcDrop(h) \/ WcAccept(h) \/ WcInjectLoad(h) \/ WcBusy(h)
    BY <2>6 DEF WcDrop, WcAccept, WcInjectLoad, WcBusy, TypeOK, ProvidersTypeOK,
                persistence, queues
  <2>7. CASE WcProvision(h) \/ WcTeardown(h) \/ WcAcquire(h) \/ WcRelease(h)
    BY <2>7, <1>1 DEF WcProvision, WcTeardown, WcAcquire, WcRelease, TypeOK,
                      ProvidersTypeOK, persistence, queues
  <2>. QED  BY <2>1, <2>2, <2>3, <2>4, <2>5, <2>6, <2>7
<1>5. DOMAIN wc' = Hosts /\ \A g \in Hosts \ {h} : wc'[g] = wc[g]
  BY <1>1 DEF WcDequeue, WcDrop, WcBounce, WcAccept, WcProvision, WcInjectLoad, WcInject,
         WcTeardown, WcAcquire, WcBusy, WcLoad, WcAnnounce, WcRequeue, WcRelease
<1>6. WcTypeOK(wc'[h], n)
  <2>1. CASE WcDrop(h) \/ WcBounce(h) \/ WcTeardown(h) \/ WcBusy(h) \/ WcRelease(h)
    <3>1. wc'[h] = IdleWc \/ wc'[h] = Executed(h)
      BY <2>1, <1>1 DEF WcDrop, WcBounce, WcTeardown, WcBusy, WcRelease
    <3>2. wc[h].pc # "idle"
      BY <2>1 DEF WcDrop, WcBounce, WcTeardown, WcBusy, WcRelease
    <3>. QED  BY <3>1, <3>2, <1>1, <1>3, IdleType
  <2>2. CASE WcDequeue(h)
    <3>1. Head(wfQueue) \in Workflows
      BY <2>2 DEF WcDequeue, TypeOK, ProvidersTypeOK
    <3>. QED  BY <3>1, <2>2, <1>1 DEF WcDequeue, WcTypeOK, WcPc, WcHolding, WcWorking
  <2>3. CASE WcAccept(h) \/ WcProvision(h) \/ WcAcquire(h) \/ WcRequeue(h) \/ WcAnnounce(h)
    BY <2>3, <1>1 DEF WcAccept, WcProvision, WcAcquire, WcRequeue, WcAnnounce, WcTypeOK,
                      WcPc, WcHolding, WcWorking
  <2>4. CASE WcInjectLoad(h) \/ WcInject(h)
    <3>1. IsStored(store[wc[h].w]) /\ IsStored(Absent) /\ DOMAIN Absent.ptrs = {}
      BY <2>4, <1>1, AbsentIsNone
         DEF WcInjectLoad, WcInject, TypeOK, ProvidersTypeOK
    <3>. QED  BY <3>1, <2>4, <1>1 DEF WcInjectLoad, WcInject, WcTypeOK, WcPc, WcHolding, WcWorking
  <2>5. CASE WcLoad(h)
    <3>. DEFINE inst == store[wc[h].w]
    <3>1. IsStored(inst) /\ (inst.status = "Runnable" => IsInstance(inst))
      BY <2>5, <1>1, AbsentIsNone DEF WcLoad, TypeOK, ProvidersTypeOK, IsStored
    <3>2. Runnable(inst.ptrs) \subseteq DOMAIN inst.ptrs
      BY DEF Runnable
    <3>3. CASE inst.status = "Runnable"
      <4>1. wc' = [wc EXCEPT ![h].pc = "run", ![h].mem = inst, ![h].snap = inst, ![h].todo = Runnable(inst.ptrs)]
        BY <2>5, <3>3 DEF WcLoad
      <4>2. wc[h].pc = "load"
        BY <2>5 DEF WcLoad
      <4>. HIDE DEF inst
      <4>. QED  BY <3>1, <3>2, <3>3, <4>1, <4>2, <1>1 DEF WcTypeOK, WcPc, WcHolding, WcWorking
    <3>4. CASE inst.status # "Runnable"
      <4>1. wc' = [wc EXCEPT ![h].pc = "release"] /\ wc[h].pc = "load"
        BY <2>5, <3>4 DEF WcLoad
      <4>. QED  BY <4>1, <1>1 DEF WcTypeOK, WcPc, WcHolding, WcWorking
    <3>. QED  BY <3>3, <3>4
  <2>. QED  BY <2>1, <2>2, <2>3, <2>4, <2>5
<1>7. WcsTypeOK'
  BY <1>1, <1>2, <1>5, <1>6, WcFrame
<1>8. EcsTypeOK' /\ RqsTypeOK'
  BY <1>1, <1>2, OthersFrame
<1>. QED  BY <1>4, <1>7, <1>8 DEF TypeOK

\* A pointer has been dealt with.
LEMMA AdvanceType ==
  ASSUME TypeOK, NEW h \in Hosts, wc[h].pc \in {"run", "queue_child"}, NEW p, NEW inst,
         IsInstance(inst), DOMAIN wc[h].mem.ptrs \subseteq DOMAIN inst.ptrs,
         NEW n \in Nat, NEW new \in Seq(EventSubscription),
         Advance(h, p, inst, n, new), events' = events
  PROVE  WcsTypeOK' /\ lastId' \in [Workflows -> Nat]
<1>1. /\ events \in Seq(Event) /\ Len(events) \in Nat
      /\ DOMAIN wc = Hosts /\ WcTypeOK(wc[h], Len(events))
  BY DEF TypeOK, ProvidersTypeOK, WcsTypeOK
<1>2. DOMAIN wc' = Hosts /\ \A g \in Hosts \ {h} : wc'[g] = wc[g]
  BY <1>1 DEF Advance
<1>3. /\ DOMAIN wc'[h] = DOMAIN wc[h]
      /\ wc'[h].pc = "run" /\ wc'[h].mem = inst /\ wc'[h].todo = wc[h].todo \ {p}
      /\ wc'[h].new = wc[h].new \o new
      /\ wc'[h].w = wc[h].w /\ wc'[h].snap = wc[h].snap /\ wc'[h].e = wc[h].e
  BY <1>1 DEF Advance, WcTypeOK
<1>4. wc[h].new \o new \in Seq(EventSubscription)
  BY <1>1 DEF WcTypeOK
<1>5. WcTypeOK(wc'[h], Len(events'))
  BY <1>1, <1>3, <1>4 DEF WcTypeOK, WcPc, WcHolding, WcWorking, IsStored
<1>6. WcsTypeOK'
  BY <1>1, <1>2, <1>5, WcFrame
<1>7. lastId' \in [Workflows -> Nat]
  <2>1. wc[h].w \in Workflows /\ lastId \in [Workflows -> Nat]
    BY <1>1 DEF WcTypeOK, TypeOK, ProvidersTypeOK
  <2>2. lastId[wc[h].w] + n \in Nat
    BY <2>1
  <2>. QED  BY <2>1, <2>2 DEF Advance
<1>. QED  BY <1>6, <1>7

\* What the executor relies on when it turns to pointer p.
LEMMA OnTurnType ==
  ASSUME TypeOK, NEW h \in Hosts, wc[h].pc \in {"run", "queue_child"}, NEW p \in wc[h].todo
  PROVE  /\ wc[h].w \in Workflows /\ IsDefinition(DefAt(h))
         /\ IsInstance(wc[h].mem) /\ IsPointers(wc[h].mem.ptrs)
         /\ p \in DOMAIN wc[h].mem.ptrs /\ p \in Nat
         /\ lastId[wc[h].w] \in Nat
         /\ wc[h].pc = "queue_child" => HasStep(h, wc[h].p)
<1>1. WcTypeOK(wc[h], Len(events)) /\ lastId \in [Workflows -> Nat]
  BY DEF TypeOK, WcsTypeOK, ProvidersTypeOK
<1>2. wc[h].w \in Workflows /\ IsInstance(wc[h].mem) /\ p \in DOMAIN wc[h].mem.ptrs
  BY <1>1 DEF WcTypeOK, WcWorking
<1>3. IsPointers(wc[h].mem.ptrs)
  BY <1>2, InstanceParts
<1>4. p \in Nat
  BY <1>2, <1>3 DEF IsPointers
<1>5. IsDefinition(DefAt(h))
  BY <1>2, SetsAssumption DEF DefAt
<1>6. wc[h].pc = "queue_child" => HasStep(h, wc[h].p)
  BY <1>1 DEF WcTypeOK, HasStep, DefAt
<1>. QED  BY <1>1, <1>2, <1>3, <1>4, <1>5, <1>6

\* A result has been applied.
LEMMA AdvanceWithType ==
  ASSUME TypeOK, NEW h \in Hosts, wc[h].pc \in {"run", "queue_child"},
         NEW p \in wc[h].todo, HasStep(h, p),
         NEW r \in ExecutionResult, NEW new \in Seq(EventSubscription),
         AdvanceWith(h, p, r, new), events' = events
  PROVE  WcsTypeOK' /\ lastId' \in [Workflows -> Nat]
<1>. DEFINE inst == ApplyResult(DefAt(h), wc[h].mem, p, r, lastId[wc[h].w])
            n == Len(new_pointers(DefAt(h), wc[h].mem.ptrs, p, r))
<1>1. IsInstance(inst) /\ DOMAIN wc[h].mem.ptrs \subseteq DOMAIN inst.ptrs
  BY OnTurnType, ApplyResultType DEF HasStep
<1>2. new_pointers(DefAt(h), wc[h].mem.ptrs, p, r) \in Seq(ExecutionPointer)
  BY OnTurnType, NewPointersType DEF HasStep
<1>3. n \in Nat
  BY <1>2
<1>4. Advance(h, p, inst, n, new)
  BY DEF AdvanceWith
<1>. HIDE DEF inst, n
<1>. QED  BY <1>1, <1>3, <1>4, AdvanceType

\* A pass completes its instance and makes the completion event.
LEMMA AnnounceType ==
  ASSUME TypeOK, NEW h \in Hosts, wc[h].pc = "run", wc[h].todo = {},
         NEW done, IsInstance(done), NEW ev \in Event, events' = Append(events, ev),
         wc' = [wc EXCEPT ![h].pc = "announce", ![h].mem = done, ![h].e = Len(events) + 1],
         UNCHANGED <<store, subs, wfQueue, evQueue, locked, up, ec, rq, lastId, dirty>>,
         faults' \in 0..MaxFaults
  PROVE  TypeOK'
<1>. DEFINE n == Len(events)
<1>1. /\ n \in Nat /\ events \in Seq(Event)
      /\ DOMAIN wc = Hosts /\ WcTypeOK(wc[h], n) /\ ProvidersTypeOK
  BY DEF TypeOK, ProvidersTypeOK, WcsTypeOK
<1>2. events' \in Seq(Event) /\ Len(events') = n + 1
  BY <1>1
<1>3. DOMAIN wc' = Hosts /\ \A g \in Hosts \ {h} : wc'[g] = wc[g]
  BY <1>1
<1>4. WcTypeOK(wc'[h], n + 1)
  BY <1>1 DEF WcTypeOK, WcPc, WcHolding, WcWorking, IsStored
<1>5. WcsTypeOK'
  BY <1>1, <1>2, <1>3, <1>4, WcFrame
<1>6. EcsTypeOK' /\ RqsTypeOK' /\ evQueue' \in Seq(1..Len(events'))
  BY <1>1, <1>2, OthersFrame
<1>7. ProvidersTypeOK'
  BY <1>1, <1>2, <1>6 DEF ProvidersTypeOK
<1>. QED  BY <1>5, <1>6, <1>7 DEF TypeOK

\* The steps of a pass.
LEMMA WcPassType ==
  ASSUME TypeOK, NEW h \in Hosts,
         \/ \E p \in wc[h].todo :
              WcRun(h, p) \/ WcSkip(h, p) \/ WcAbort(h, p) \/ WcStartChild(h, p)
         \/ WcQueueChild(h) \/ WcConclude(h) \/ WcPersist(h)
  PROVE  TypeOK'
<1>. DEFINE n == Len(events)
<1>1. /\ n \in Nat /\ events \in Seq(Event)
      /\ DOMAIN wc = Hosts /\ WcTypeOK(wc[h], n) /\ ProvidersTypeOK
  BY DEF TypeOK, ProvidersTypeOK, WcsTypeOK
<1>2. ASSUME NEW p \in wc[h].todo, WcRun(h, p) PROVE TypeOK'
  <2>1. PICK r \in StepResults(DefAt(h), wc[h].mem.ptrs, p) :
          AdvanceWith(h, p, r,
            IF r.kind = "event"
            THEN <<Subscription(wc[h].w, p, StepAt(h, p).value, Len(events))>> ELSE <<>>)
    BY <1>2 DEF WcRun
  <2>. DEFINE new == IF r.kind = "event"
                     THEN <<Subscription(wc[h].w, p, StepAt(h, p).value, Len(events))>>
                     ELSE <<>>
  <2>2. wc[h].pc = "run" /\ HasStep(h, p)
    BY <1>2 DEF WcRun, OnTurn
  <2>3. r \in ExecutionResult
    BY <2>1, <2>2, OnTurnType, StepResultsType DEF HasStep
  <2>4. StepAt(h, p).value \in Value
    BY <2>2, OnTurnType DEF StepAt, HasStep, IsDefinition, WorkflowStep
  <2>5. Subscription(wc[h].w, p, StepAt(h, p).value, Len(events)) \in EventSubscription
    BY <2>2, <2>4, <1>1, OnTurnType DEF Subscription, EventSubscription
  <2>6. new \in Seq(EventSubscription)
    BY <2>5
  <2>7. /\ store' = store /\ subs' = subs /\ events' = events /\ queues' = queues
        /\ locked' = locked /\ up' = up /\ ec' = ec /\ rq' = rq
        /\ dirty' = dirty /\ faults' = faults
    BY <1>2 DEF WcRun, persistence, queues
  <2>. HIDE DEF new
  <2>8. WcsTypeOK' /\ lastId' \in [Workflows -> Nat]
    BY <2>1, <2>2, <2>3, <2>6, <2>7, AdvanceWithType DEF new
  <2>9. EcsTypeOK' /\ RqsTypeOK'
    BY <2>7, <1>1, OthersFrame
  <2>10. ProvidersTypeOK'
    BY <2>7, <2>8, <1>1 DEF ProvidersTypeOK, queues
  <2>. QED  BY <2>8, <2>9, <2>10 DEF TypeOK
<1>3. ASSUME NEW p \in wc[h].todo, WcSkip(h, p) PROVE TypeOK'
  <2>. DEFINE inst == ApplySkip(DefAt(h), wc[h].mem, p, lastId[wc[h].w])
              k == Len(SkipSuccessor(DefAt(h), wc[h].mem.ptrs, p))
  <2>1. wc[h].pc = "run" /\ HasStep(h, p)
    BY <1>3 DEF WcSkip, OnTurn
  <2>2. IsInstance(inst) /\ DOMAIN wc[h].mem.ptrs \subseteq DOMAIN inst.ptrs
    BY <2>1, OnTurnType, ApplySkipType DEF HasStep
  <2>3. SkipSuccessor(DefAt(h), wc[h].mem.ptrs, p) \in Seq(ExecutionPointer)
    BY <2>1, OnTurnType, SkipSuccessorType DEF HasStep
  <2>4. k \in Nat /\ <<>> \in Seq(EventSubscription)
    BY <2>3
  <2>5. Advance(h, p, inst, k, <<>>)
    BY <1>3 DEF WcSkip
  <2>. HIDE DEF inst, k
  <2>6. /\ store' = store /\ subs' = subs /\ events' = events /\ queues' = queues
        /\ locked' = locked /\ up' = up /\ ec' = ec /\ rq' = rq
        /\ dirty' = dirty /\ faults' = faults
    BY <1>3 DEF WcSkip, persistence, queues
  <2>7. WcsTypeOK' /\ lastId' \in [Workflows -> Nat]
    BY <2>1, <2>2, <2>4, <2>5, <2>6, AdvanceType
  <2>8. EcsTypeOK' /\ RqsTypeOK'
    BY <2>6, <1>1, OthersFrame
  <2>9. ProvidersTypeOK'
    BY <2>6, <2>7, <1>1 DEF ProvidersTypeOK, queues
  <2>. QED  BY <2>7, <2>8, <2>9 DEF TypeOK
<1>4. ASSUME NEW p \in wc[h].todo, WcAbort(h, p) PROVE TypeOK'
  <2>1. wc[h].pc = "run"
    BY <1>4 DEF WcAbort, OnTurn
  <2>2. wc[h].w \in Workflows
    BY <2>1, OnTurnType
  <2>3. /\ UNCHANGED <<store, subs, events, wfQueue, evQueue, locked, up, ec, rq, lastId,
                       dirty, faults>>
        /\ wc' = [wc EXCEPT ![h] = [IdleWc EXCEPT !.pc = "release", !.w = wc[h].w]]
    BY <1>4 DEF WcAbort, persistence, queues
  <2>4. WcsTypeOK'
    <3>1. DOMAIN wc' = Hosts /\ \A g \in Hosts \ {h} : wc'[g] = wc[g]
      BY <2>3, <1>1
    <3>2. wc'[h] = [IdleWc EXCEPT !.pc = "release", !.w = wc[h].w]
      BY <2>3, <1>1
    <3>3. WcTypeOK(wc'[h], Len(events'))
      BY <3>2, <2>2, <2>3, <1>1, IdleType
    <3>. QED  BY <3>1, <3>3, <2>3, <1>1, WcFrame
  <2>5. EcsTypeOK' /\ RqsTypeOK'
    BY <2>3, <1>1, OthersFrame
  <2>6. ProvidersTypeOK'
    BY <2>3, <1>1 DEF ProvidersTypeOK
  <2>. QED  BY <2>4, <2>5, <2>6 DEF TypeOK
<1>5. ASSUME NEW p \in wc[h].todo, WcStartChild(h, p) PROVE TypeOK'
  <2>1. PICK c \in Children[wc[h].w] :
          /\ Create(c)
          /\ wc' = [wc EXCEPT ![h].pc = "queue_child", ![h].p = p, ![h].child = c]
    BY <1>5 DEF WcStartChild
  <2>2. wc[h].pc = "run" /\ HasStep(h, p)
    BY <1>5 DEF WcStartChild, OnTurn
  <2>3. c \in Workflows /\ IsDefinition(DefOf[c])
    BY <2>1, <2>2, OnTurnType, SetsAssumption
  <2>4. UNCHANGED <<subs, events, wfQueue, evQueue, locked, up, ec, rq, dirty, faults>>
    BY <1>5 DEF WcStartChild, queues
  <2>5. IsStored(NewInstance(DefOf[c]))
    BY <2>3, NewInstanceType DEF IsStored
  <2>6. ProvidersTypeOK'
    BY <2>1, <2>3, <2>4, <2>5, <1>1 DEF ProvidersTypeOK, Create
  <2>7. DOMAIN wc' = Hosts /\ \A g \in Hosts \ {h} : wc'[g] = wc[g]
    BY <2>1, <1>1
  <2>8. WcTypeOK(wc'[h], Len(events'))
    BY <2>1, <2>2, <2>3, <2>4, <1>1 DEF WcTypeOK, WcPc, WcHolding, WcWorking, HasStep, DefAt
  <2>9. WcsTypeOK' /\ EcsTypeOK' /\ RqsTypeOK'
    BY <2>4, <2>7, <2>8, <1>1, WcFrame, OthersFrame
  <2>. QED  BY <2>6, <2>9 DEF TypeOK
<1>6. ASSUME WcQueueChild(h) PROVE TypeOK'
  <2>. DEFINE s == Subscription(wc[h].w, wc[h].p, wc[h].child, Len(events))
  <2>1. /\ wc[h].pc = "queue_child" /\ wfQueue' = Append(wfQueue, wc[h].child)
        /\ AdvanceWith(h, wc[h].p, wait_for_event, <<s>>)
        /\ UNCHANGED <<store, subs, events, evQueue, locked, up, ec, rq, dirty, faults>>
    BY <1>6 DEF WcQueueChild, persistence
  <2>2. wc[h].p \in wc[h].todo /\ wc[h].child \in Workflows
    BY <2>1, <1>1 DEF WcTypeOK
  <2>3. HasStep(h, wc[h].p) /\ wc[h].p \in Nat /\ wc[h].w \in Workflows
    BY <2>1, <2>2, OnTurnType
  <2>4. s \in EventSubscription
    BY <2>2, <2>3, <1>1 DEF Subscription, EventSubscription
  <2>. HIDE DEF s
  <2>5. <<s>> \in Seq(EventSubscription)
    BY <2>4
  <2>6. wait_for_event \in ExecutionResult
    <3>1. NoData \in PersistenceData  BY DEF NoData, PersistenceData
    <3>. QED  BY <3>1, ConstructorTypes
  <2>7. WcsTypeOK' /\ lastId' \in [Workflows -> Nat]
    BY <2>1, <2>2, <2>3, <2>5, <2>6, AdvanceWithType
  <2>8. EcsTypeOK' /\ RqsTypeOK'
    BY <2>1, <1>1, OthersFrame
  <2>9. wfQueue' \in Seq(Workflows)
    BY <2>1, <2>2, <1>1 DEF ProvidersTypeOK
  <2>10. ProvidersTypeOK'
    BY <2>1, <2>7, <2>9, <1>1 DEF ProvidersTypeOK
  <2>. QED  BY <2>7, <2>8, <2>10 DEF TypeOK
<1>7. ASSUME WcConclude(h) PROVE TypeOK'
  <2>. DEFINE done == Concluded(wc[h].mem)
  <2>1. /\ wc[h].pc = "run" /\ wc[h].todo = {}
        /\ UNCHANGED <<store, subs, wfQueue, evQueue, locked, up, ec, rq, lastId, dirty, faults>>
    BY <1>7 DEF WcConclude, queues
  <2>2. wc[h].w \in Workflows /\ IsInstance(wc[h].mem)
    BY <2>1, <1>1 DEF WcTypeOK, WcWorking
  <2>3. IsInstance(done)
    BY <2>2, ConcludedType
  <2>. HIDE DEF done
  <2>4. CASE done.status # wc[h].mem.status
    <3>1. /\ events' = Append(events, NewEvent(wc[h].w))
          /\ wc' = [wc EXCEPT ![h].pc = "announce", ![h].mem = done, ![h].e = Len(events) + 1]
      BY <2>4, <1>7 DEF WcConclude, done
    <3>2. NewEvent(wc[h].w) \in Event
      BY <2>2 DEF NewEvent, Event
    <3>3. faults' \in 0..MaxFaults
      BY <2>1, <1>1 DEF ProvidersTypeOK
    <3>. QED  BY <3>1, <3>2, <3>3, <2>1, <2>3, AnnounceType
  <2>5. CASE done.status = wc[h].mem.status
    <3>1. events' = events /\ wc' = [wc EXCEPT ![h].pc = "persist"]
      BY <2>5, <1>7 DEF WcConclude, done
    <3>2. DOMAIN wc' = Hosts /\ \A g \in Hosts \ {h} : wc'[g] = wc[g]
      BY <3>1, <1>1
    <3>3. WcTypeOK(wc'[h], Len(events'))
      BY <3>1, <2>1, <2>2, <1>1 DEF WcTypeOK, WcPc, WcHolding, WcWorking
    <3>4. WcsTypeOK' /\ EcsTypeOK' /\ RqsTypeOK'
      BY <3>1, <3>2, <3>3, <2>1, <1>1, WcFrame, OthersFrame
    <3>5. ProvidersTypeOK'
      BY <3>1, <2>1, <1>1 DEF ProvidersTypeOK
    <3>. QED  BY <3>4, <3>5 DEF TypeOK
  <2>. QED  BY <2>4, <2>5
<1>8. ASSUME WcPersist(h) PROVE TypeOK'
  <2>. DEFINE pc == IF NeedsRequeue(wc[h].mem) THEN "requeue" ELSE "release"
  <2>1. /\ wc[h].pc = "persist" /\ store' = [store EXCEPT ![wc[h].w] = wc[h].mem]
        /\ subs' = subs \o wc[h].new
        /\ wc' = [wc EXCEPT ![h] = [IdleWc EXCEPT !.pc = pc, !.w = wc[h].w]]
        /\ UNCHANGED <<events, wfQueue, evQueue, locked, up, ec, rq, lastId, dirty, faults>>
    BY <1>8 DEF WcPersist, queues
  <2>2. wc[h].w \in Workflows /\ IsStored(wc[h].mem) /\ wc[h].new \in Seq(EventSubscription)
    BY <2>1, <1>1 DEF WcTypeOK
  <2>3. subs' \in Seq(EventSubscription) /\ DOMAIN subs \subseteq DOMAIN subs'
    <3>1. subs \in Seq(EventSubscription)  BY <1>1 DEF ProvidersTypeOK
    <3>. QED  BY <3>1, <2>1, <2>2
  <2>4. DOMAIN wc' = Hosts /\ \A g \in Hosts \ {h} : wc'[g] = wc[g]
    BY <2>1, <1>1
  <2>5. WcTypeOK(wc'[h], Len(events'))
    <3>1. wc'[h] = [IdleWc EXCEPT !.pc = pc, !.w = wc[h].w] /\ pc \in {"requeue", "release"}
      BY <2>1, <1>1
    <3>. HIDE DEF pc
    <3>. QED  BY <3>1, <2>1, <2>2, <1>1, IdleType
  <2>6. WcsTypeOK' /\ EcsTypeOK' /\ RqsTypeOK'
    BY <2>1, <2>3, <2>4, <2>5, <1>1, WcFrame, OthersFrame
  <2>7. ProvidersTypeOK'
    BY <2>1, <2>2, <2>3, <1>1 DEF ProvidersTypeOK
  <2>. QED  BY <2>6, <2>7 DEF TypeOK
<1>. QED  BY <1>2, <1>3, <1>4, <1>5, <1>6, <1>7, <1>8

-----------------------------------------------------------------------------
(* Types: the event consumer.                                              *)

\* Host h's event consumer takes a step.
LEMMA EcFrame ==
  ASSUME TypeOK, NEW h \in Hosts, DOMAIN ec' = Hosts,
         \A g \in Hosts \ {h} : ec'[g] = ec[g],
         Len(events') = Len(events), DOMAIN subs' = DOMAIN subs,
         EcTypeOK(ec'[h], Len(events), DOMAIN subs)
  PROVE  EcsTypeOK'
BY DEF TypeOK, EcsTypeOK

\* The steps of process_event.
LEMMA EcType ==
  ASSUME TypeOK, NEW h \in Hosts, EventConsumer(h)
  PROVE  TypeOK'
<1>. DEFINE n == Len(events)
            ss == DOMAIN subs
<1>1. /\ n \in Nat /\ events \in Seq(Event) /\ subs \in Seq(EventSubscription)
      /\ DOMAIN ec = Hosts /\ EcTypeOK(ec[h], n, ss) /\ ProvidersTypeOK
  BY DEF TypeOK, ProvidersTypeOK, EcsTypeOK
<1>2. EcTypeOK(IdleEc, n, ss)
  BY <1>1, AbsentIsNone DEF EcTypeOK, IdleEc, EcPc, EcHolding
<1>3. \A s \in ss : subs[s] \in EventSubscription /\ subs[s].w \in Workflows
  <2>1. \A s \in ss : subs[s] \in EventSubscription  BY <1>1, ElementOfSeq
  <2>. QED  BY <2>1 DEF EventSubscription
<1>4. wc' = wc /\ rq' = rq
  BY DEF EventConsumer, EcDequeue, EcLookup, EcAcquire, EcBusy, EcLoad, EcPersist, EcQueue,
         EcTerminate, EcRelease, EcDone
<1>5. DOMAIN ec' = Hosts /\ \A g \in Hosts \ {h} : ec'[g] = ec[g]
  BY <1>1 DEF EventConsumer, EcDequeue, EcLookup, EcAcquire, EcBusy, EcLoad, EcPersist,
              EcQueue, EcTerminate, EcRelease, EcDone
<1>6. /\ events' \in Seq(Event) /\ Len(events') = n
      /\ subs' \in Seq(EventSubscription) /\ DOMAIN subs' = DOMAIN subs
      /\ ProvidersTypeOK' /\ EcTypeOK(ec'[h], n, ss)
  <2>1. CASE EcDequeue(h)
    <3>1. evQueue # <<>> /\ evQueue \in Seq(1..n)
      BY <2>1, <1>1 DEF EcDequeue, ProvidersTypeOK
    <3>2. Head(evQueue) \in 1..n /\ Tail(evQueue) \in Seq(1..n)
      BY <3>1
    <3>3. ProvidersTypeOK'
      BY <3>2, <2>1, <1>1 DEF EcDequeue, ProvidersTypeOK, persistence
    <3>4. EcTypeOK(ec'[h], n, ss)
      BY <3>2, <2>1, <1>1 DEF EcDequeue, EcTypeOK, EcPc, EcHolding
    <3>. QED  BY <3>3, <3>4, <2>1, <1>1 DEF EcDequeue, persistence
  <2>2. CASE EcLookup(h)
    <3>. DEFINE c == [ec[h] EXCEPT !.pc = "next", !.todo = {s \in DOMAIN subs : Matches(s, ec[h].e)}]
    <3>1. EcTypeOK(c, n, ss)
      BY <2>2, <1>1 DEF EcLookup, EcTypeOK, EcPc, EcHolding
    <3>2. ec'[h] = c \/ ec'[h] = IdleEc
      BY <2>2, <1>1 DEF EcLookup
    <3>. HIDE DEF c
    <3>3. EcTypeOK(ec'[h], n, ss)
      BY <3>1, <3>2, <1>2
    <3>. QED  BY <3>3, <2>2, <1>1 DEF EcLookup, ProvidersTypeOK, persistence, queues
  <2>3. ASSUME NEW s \in ec[h].todo, EcAcquire(h, s) \/ EcBusy(h, s)
        PROVE  <1>6!:
    <3>1. s \in ss /\ subs[s].w \in Workflows
      BY <1>1, <1>3 DEF EcTypeOK
    <3>2. CASE EcAcquire(h, s)
      <4>1. EcTypeOK(ec'[h], n, ss)
        BY <3>1, <3>2, <1>1 DEF EcAcquire, EcTypeOK, EcPc, EcHolding
      <4>. QED  BY <4>1, <3>1, <3>2, <1>1 DEF EcAcquire, ProvidersTypeOK, persistence, queues
    <3>3. CASE EcBusy(h, s)
      <4>1. ec'[h] = IdleEc /\ evQueue' = Append(evQueue, ec[h].e)
        BY <3>3, <1>1 DEF EcBusy
      <4>2. ec[h].e \in 1..n
        BY <3>3, <1>1 DEF EcBusy, EcTypeOK
      <4>3. evQueue' \in Seq(1..n)
        BY <4>1, <4>2, <1>1 DEF ProvidersTypeOK
      <4>. QED  BY <4>1, <4>3, <3>3, <1>1, <1>2 DEF EcBusy, ProvidersTypeOK, persistence
    <3>. QED  BY <2>3, <3>2, <3>3
  <2>4. CASE EcLoad(h)
    <3>. DEFINE m == Delivered(store[ec[h].w], subs[ec[h].s].ptr)
    <3>1. ec[h].w \in Workflows
      BY <2>4, <1>1 DEF EcLoad, EcTypeOK, EcHolding
    <3>2. IsStored(store[ec[h].w]) /\ IsStored(m)
      BY <3>1, <1>1, DeliveredType DEF ProvidersTypeOK
    <3>. HIDE DEF m
    <3>3. EcTypeOK(ec'[h], n, ss)
      BY <3>2, <2>4, <1>1 DEF EcLoad, EcTypeOK, EcPc, EcHolding, m
    <3>. QED
      BY <3>1, <3>3, <2>4, <1>1 DEF EcLoad, ProvidersTypeOK, persistence, queues
  <2>5. CASE EcPersist(h)
    <3>1. ec[h].w \in Workflows /\ IsStored(ec[h].mem)
      BY <2>5, <1>1 DEF EcPersist, EcTypeOK, EcHolding
    <3>2. EcTypeOK(ec'[h], n, ss)
      BY <2>5, <1>1, AbsentIsNone DEF EcPersist, EcTypeOK, EcPc, EcHolding
    <3>. QED  BY <3>1, <3>2, <2>5, <1>1 DEF EcPersist, ProvidersTypeOK, queues
  <2>6. CASE EcQueue(h)
    <3>1. ec[h].w \in Workflows
      BY <2>6, <1>1 DEF EcQueue, EcTypeOK, EcHolding
    <3>2. wfQueue' \in Seq(Workflows)
      <4>1. wfQueue' = Append(wfQueue, ec[h].w) /\ wfQueue \in Seq(Workflows)
        BY <2>6, <1>1 DEF EcQueue, ProvidersTypeOK
      <4>. QED  BY <4>1, <3>1
    <3>3. EcTypeOK(ec'[h], n, ss)
      BY <2>6, <1>1 DEF EcQueue, EcTypeOK, EcPc, EcHolding
    <3>. QED  BY <3>2, <3>3, <2>6, <1>1 DEF EcQueue, ProvidersTypeOK, persistence
  <2>7. CASE EcTerminate(h)
    <3>. DEFINE s == ec[h].s
    <3>1. s \in ss
      BY <2>7, <1>1 DEF EcTerminate, EcTypeOK, EcHolding
    <3>2. [subs[s] EXCEPT !.open = FALSE] \in EventSubscription /\ subs[s].open \in BOOLEAN
      BY <3>1, <1>3 DEF EventSubscription
    <3>3. subs' = [subs EXCEPT ![s] = [subs[s] EXCEPT !.open = FALSE]]
      BY <2>7 DEF EcTerminate
    <3>4. subs' \in Seq(EventSubscription) /\ DOMAIN subs' = ss
      BY <3>1, <3>2, <3>3, <1>1, ExceptSeq
    <3>5. (StrictTerminate => subs[s].open) \in BOOLEAN
      OBVIOUS
    <3>6. EcTypeOK(ec'[h], n, ss)
      BY <3>5, <2>7, <1>1 DEF EcTerminate, EcTypeOK, EcPc, EcHolding
    <3>. QED  BY <3>4, <3>6, <2>7, <1>1 DEF EcTerminate, ProvidersTypeOK, queues
  <2>8. CASE EcRelease(h)
    <3>1. EcTypeOK([IdleEc EXCEPT !.pc = "next", !.e = ec[h].e,
                                  !.todo = ec[h].todo \ {ec[h].s}], n, ss)
      BY <2>8, <1>1, <1>2 DEF EcRelease, EcTypeOK, IdleEc, EcPc, EcHolding
    <3>2. EcTypeOK(ec'[h], n, ss)
      BY <3>1, <2>8, <1>1, <1>2 DEF EcRelease
    <3>. QED  BY <3>2, <2>8, <1>1 DEF EcRelease, ProvidersTypeOK, persistence, queues
  <2>9. CASE EcDone(h)
    <3>. DEFINE e == ec[h].e
    <3>1. e \in 1..n
      BY <2>9, <1>1 DEF EcDone, EcTypeOK
    <3>2. [events[e] EXCEPT !.processed = TRUE] \in Event
      <4>1. events[e] \in Event  BY <3>1, <1>1, ElementOfSeq
      <4>. QED  BY <4>1 DEF Event
    <3>3. events' = [events EXCEPT ![e] = [events[e] EXCEPT !.processed = TRUE]]
      BY <2>9 DEF EcDone
    <3>4. events' \in Seq(Event) /\ Len(events') = n
      BY <3>1, <3>2, <3>3, <1>1, ExceptSeq
    <3>5. ec'[h] = IdleEc
      BY <2>9, <1>1 DEF EcDone
    <3>. QED  BY <3>4, <3>5, <2>9, <1>1, <1>2 DEF EcDone, ProvidersTypeOK, queues
  <2>. QED  BY <2>1, <2>2, <2>3, <2>4, <2>5, <2>6, <2>7, <2>8, <2>9 DEF EventConsumer
<1>7. EcsTypeOK'
  BY <1>1, <1>5, <1>6, EcFrame
<1>8. WcsTypeOK' /\ RqsTypeOK'
  BY <1>1, <1>4, <1>6, OthersFrame
<1>. QED  BY <1>6, <1>7, <1>8 DEF TypeOK

-----------------------------------------------------------------------------
(* Types: requests, time and faults.                                       *)

\* Request r takes a step.
LEMMA RqFrame ==
  ASSUME TypeOK, NEW r \in Requests, DOMAIN rq' = Requests,
         \A q \in Requests \ {r} : rq'[q] = rq[q],
         events' \in Seq(Event), Len(events) <= Len(events'),
         RqTypeOK(r, rq'[r], Len(events'))
  PROVE  RqsTypeOK'
<1>1. Len(events) \in Nat /\ Len(events') \in Nat
  BY DEF TypeOK, ProvidersTypeOK
<1>2. \A q \in Requests \ {r} : RqTypeOK(q, rq'[q], Len(events'))
  BY <1>1, MoreEvents DEF TypeOK, RqsTypeOK
<1>. QED  BY <1>2 DEF RqsTypeOK

\* The API calls.
LEMMA RqType ==
  ASSUME TypeOK, NEW r \in Requests, Request(r)
  PROVE  TypeOK'
<1>. DEFINE n == Len(events)
<1>1. /\ n \in Nat /\ events \in Seq(Event)
      /\ DOMAIN rq = Requests /\ RqTypeOK(r, rq[r], n) /\ ProvidersTypeOK
  BY DEF TypeOK, ProvidersTypeOK, RqsTypeOK
<1>2. /\ r.op \in Op
      /\ r.op = "publish" => r.on \in Keys
      /\ r.op # "publish" => r.on \in Workflows
  BY RequestsAssumption
<1>3. RqTypeOK(r, [NewRq EXCEPT !.pc = "done"], n)
  BY <1>1, AbsentIsNone DEF RqTypeOK, NewRq, RqPc
<1>4. ec' = ec /\ wc' = wc /\ subs' = subs
  BY DEF Request, RqStart, RqPublish, RqLoad, RqPersist, RqQueue, persistence
<1>5. DOMAIN rq' = Requests /\ \A q \in Requests \ {r} : rq'[q] = rq[q]
  BY <1>1 DEF Request, RqStart, RqPublish, RqLoad, RqPersist, RqQueue
<1>6. /\ events' \in Seq(Event) /\ n <= Len(events')
      /\ ProvidersTypeOK' /\ RqTypeOK(r, rq'[r], Len(events'))
  <2>1. CASE RqStart(r)
    <3>1. r.on \in Workflows
      BY <2>1, <1>2 DEF RqStart
    <3>2. IsStored(NewInstance(DefOf[r.on]))
      BY <3>1, SetsAssumption, NewInstanceType DEF IsStored
    <3>3. RqTypeOK(r, rq'[r], Len(events'))
      BY <2>1, <1>1 DEF RqStart, RqTypeOK, RqPc
    <3>. QED  BY <3>1, <3>2, <3>3, <2>1, <1>1 DEF RqStart, Create, ProvidersTypeOK, queues
  <2>2. CASE RqPublish(r)
    <3>1. NewEvent(r.on) \in Event
      BY <2>2, <1>2 DEF RqPublish, NewEvent, Event
    <3>2. events' = Append(events, NewEvent(r.on))
      BY <2>2 DEF RqPublish
    <3>3. events' \in Seq(Event) /\ Len(events') = n + 1
      BY <3>1, <3>2, <1>1
    <3>4. evQueue' \in Seq(1..Len(events'))
      BY <3>3, <2>2, <1>1, OthersFrame DEF RqPublish, queues
    <3>5. RqTypeOK(r, rq'[r], n + 1)
      BY <2>2, <1>1 DEF RqPublish, RqTypeOK, RqPc
    <3>6. ProvidersTypeOK'
      BY <3>3, <3>4, <2>2, <1>1 DEF RqPublish, ProvidersTypeOK, queues
    <3>. QED  BY <3>3, <3>5, <3>6, <1>1
  <2>3. CASE RqLoad(r)
    <3>1. r.on \in Workflows /\ IsInstance(store[r.on])
      BY <2>3, <1>1, <1>2 DEF RqLoad, ProvidersTypeOK, IsStored
    <3>2. To(r.op) \in WorkflowStatus
      BY DEF To, WorkflowStatus
    <3>3. IsStored([store[r.on] EXCEPT !.status = To(r.op)])
      BY <3>1, <3>2, StatusType DEF IsStored
    <3>4. RqTypeOK(r, [pc |-> "persist", mem |-> [store[r.on] EXCEPT !.status = To(r.op)],
                       e |-> 0], n)
      BY <3>3, <2>3, <1>1 DEF RqLoad, RqTypeOK, RqPc
    <3>5. RqTypeOK(r, rq'[r], n)
      BY <3>4, <2>3, <1>1, <1>3 DEF RqLoad
    <3>. QED  BY <3>5, <2>3, <1>1 DEF RqLoad, ProvidersTypeOK, persistence, queues
  <2>4. CASE RqPersist(r)
    <3>2. IsStored(rq[r].mem)
      BY <1>1 DEF RqTypeOK
    <3>3. RqTypeOK(r, rq'[r], n)
      <4>1. rq'[r] = [NewRq EXCEPT !.pc = IF r.op = "resume" THEN "queue" ELSE "done"]
        BY <2>4, <1>1 DEF RqPersist
      <4>2. RqTypeOK(r, [NewRq EXCEPT !.pc = "queue"], n) \/ r.op = "publish"
        BY <1>1, AbsentIsNone DEF RqTypeOK, NewRq, RqPc
      <4>. QED  BY <4>1, <4>2, <1>3
    <3>4. ProvidersTypeOK'
      BY <3>2, <2>4, <1>1 DEF RqPersist, ProvidersTypeOK, queues
    <3>. QED  BY <3>3, <3>4, <2>4, <1>1 DEF RqPersist
  <2>5. CASE RqQueue(r)
    <3>1. RqTypeOK(r, rq'[r], n)
      BY <2>5, <1>1, <1>3 DEF RqQueue
    <3>2. CASE r.op = "publish"
      <4>1. evQueue' = Append(evQueue, rq[r].e) /\ rq[r].e \in 1..n /\ wfQueue' = wfQueue
        BY <3>2, <2>5, <1>1 DEF RqQueue, RqTypeOK
      <4>2. evQueue' \in Seq(1..n)
        BY <4>1, <1>1 DEF ProvidersTypeOK
      <4>. QED  BY <4>1, <4>2, <3>1, <2>5, <1>1 DEF RqQueue, ProvidersTypeOK, persistence
    <3>3. CASE r.op # "publish"
      <4>1. wfQueue' = Append(wfQueue, r.on) /\ r.on \in Workflows /\ evQueue' = evQueue
        BY <3>3, <2>5, <1>2 DEF RqQueue
      <4>2. wfQueue' \in Seq(Workflows)
        BY <4>1, <1>1 DEF ProvidersTypeOK
      <4>. QED  BY <4>1, <4>2, <3>1, <2>5, <1>1 DEF RqQueue, ProvidersTypeOK, persistence
    <3>. QED  BY <3>2, <3>3
  <2>. QED  BY <2>1, <2>2, <2>3, <2>4, <2>5 DEF Request
<1>7. RqsTypeOK'
  BY <1>1, <1>5, <1>6, RqFrame
<1>8. WcsTypeOK' /\ EcsTypeOK'
  BY <1>1, <1>4, <1>6, OthersFrame
<1>. QED  BY <1>6, <1>7, <1>8 DEF TypeOK

\* The clock.
LEMMA TickType ==
  ASSUME TypeOK, NEW w \in Workflows, NEW p, Tick(w, p)
  PROVE  TypeOK'
<1>1. /\ store' = [store EXCEPT ![w] = Later(store[w], p)]
      /\ wc' = [h \in Hosts |-> IF wc[h].w = w
                  THEN [wc[h] EXCEPT !.mem = Later(wc[h].mem, p), !.snap = Later(wc[h].snap, p)]
                  ELSE wc[h]]
      /\ ec' = [h \in Hosts |-> IF ec[h].w = w
                  THEN [ec[h] EXCEPT !.mem = Later(ec[h].mem, p), !.snap = Later(ec[h].snap, p)]
                  ELSE ec[h]]
      /\ rq' = [r \in Requests |-> IF r.on = w
                  THEN [rq[r] EXCEPT !.mem = Later(rq[r].mem, p)] ELSE rq[r]]
      /\ UNCHANGED <<subs, events, wfQueue, evQueue, locked, up, lastId, dirty, faults>>
  BY DEF Tick, queues
<1>2. ProvidersTypeOK'
  BY <1>1, LaterType DEF TypeOK, ProvidersTypeOK
<1>3. ASSUME NEW h \in Hosts PROVE WcTypeOK(wc'[h], Len(events))
  <2>1. WcTypeOK(wc[h], Len(events))
    BY DEF TypeOK, WcsTypeOK
  <2>2. IsStored(wc[h].mem) /\ IsStored(wc[h].snap)
    BY <2>1 DEF WcTypeOK
  <2>3. LET c == [wc[h] EXCEPT !.mem = Later(wc[h].mem, p), !.snap = Later(wc[h].snap, p)]
        IN  WcTypeOK(c, Len(events))
    BY <2>1, <2>2, LaterType DEF WcTypeOK
  <2>. QED  BY <2>1, <2>3, <1>1
<1>4. ASSUME NEW h \in Hosts PROVE EcTypeOK(ec'[h], Len(events), DOMAIN subs)
  <2>1. EcTypeOK(ec[h], Len(events), DOMAIN subs)
    BY DEF TypeOK, EcsTypeOK
  <2>2. IsStored(Later(ec[h].mem, p)) /\ IsStored(Later(ec[h].snap, p))
    BY <2>1, LaterType DEF EcTypeOK
  <2>3. LET c == [ec[h] EXCEPT !.mem = Later(ec[h].mem, p), !.snap = Later(ec[h].snap, p)]
        IN  EcTypeOK(c, Len(events), DOMAIN subs)
    BY <2>1, <2>2 DEF EcTypeOK
  <2>. QED  BY <2>1, <2>3, <1>1
<1>5. ASSUME NEW r \in Requests PROVE RqTypeOK(r, rq'[r], Len(events))
  <2>1. RqTypeOK(r, rq[r], Len(events))
    BY DEF TypeOK, RqsTypeOK
  <2>2. IsStored(Later(rq[r].mem, p))
    BY <2>1, LaterType DEF RqTypeOK
  <2>3. RqTypeOK(r, [rq[r] EXCEPT !.mem = Later(rq[r].mem, p)], Len(events))
    BY <2>1, <2>2 DEF RqTypeOK
  <2>. QED  BY <2>1, <2>3, <1>1
<1>6. WcsTypeOK' /\ EcsTypeOK' /\ RqsTypeOK'
  BY <1>1, <1>3, <1>4, <1>5 DEF WcsTypeOK, EcsTypeOK, RqsTypeOK
<1>. QED  BY <1>2, <1>6 DEF TypeOK

\* It touches nothing but the copies of the instance.
LEMMA TickFrame ==
  ASSUME TypeOK, NEW w, NEW p, Tick(w, p), NEW h \in Hosts
  PROVE  /\ wc'[h].pc = wc[h].pc /\ wc'[h].w = wc[h].w /\ wc'[h].new = wc[h].new
         /\ wc'[h].child = wc[h].child /\ wc'[h].e = wc[h].e
         /\ ec'[h].pc = ec[h].pc /\ ec'[h].w = ec[h].w /\ ec'[h].s = ec[h].s
         /\ wc[h].w # w => wc'[h] = wc[h]
         /\ ec[h].w # w => ec'[h] = ec[h]
         /\ wc[h].w = w => wc'[h].mem = Later(wc[h].mem, p) /\ wc'[h].snap = Later(wc[h].snap, p)
         /\ ec[h].w = w => ec'[h].mem = Later(ec[h].mem, p) /\ ec'[h].snap = Later(ec[h].snap, p)
<1>1. /\ DOMAIN wc[h] = {"pc", "w", "mem", "snap", "todo", "new", "p", "child", "e"}
      /\ DOMAIN ec[h] = {"pc", "e", "todo", "s", "w", "mem", "snap", "ok"}
  BY DEF TypeOK, WcsTypeOK, WcTypeOK, EcsTypeOK, EcTypeOK
<1>2. /\ wc'[h] = IF wc[h].w = w
           THEN [wc[h] EXCEPT !.mem = Later(wc[h].mem, p), !.snap = Later(wc[h].snap, p)]
           ELSE wc[h]
      /\ ec'[h] = IF ec[h].w = w
           THEN [ec[h] EXCEPT !.mem = Later(ec[h].mem, p), !.snap = Later(ec[h].snap, p)]
           ELSE ec[h]
  BY DEF Tick
<1>. QED  BY <1>1, <1>2

\* A failing provider call in the workflow consumer.
LEMMA WcFaultType ==
  ASSUME TypeOK, NEW h \in Hosts, WcFault(h)
  PROVE  TypeOK'
<1>. DEFINE n == Len(events)
<1>1. /\ n \in Nat /\ events \in Seq(Event)
      /\ DOMAIN wc = Hosts /\ WcTypeOK(wc[h], n) /\ ProvidersTypeOK
  BY DEF TypeOK, ProvidersTypeOK, WcsTypeOK
<1>2. /\ UNCHANGED <<store, subs, events, wfQueue, evQueue, locked, up, ec, rq, dirty>>
      /\ faults < MaxFaults /\ faults' = faults + 1
  BY DEF WcFault, Fault, persistence, queues
<1>3. faults' \in 0..MaxFaults
  BY <1>1, <1>2, SetsAssumption DEF ProvidersTypeOK
<1>4. WcsTypeOK' /\ lastId' \in [Workflows -> Nat]
  <2>1. CASE wc[h].pc = "queue_child"
    <3>1. AdvanceWith(h, wc[h].p, failure, <<>>)
      BY <2>1 DEF WcFault
    <3>2. wc[h].p \in wc[h].todo
      BY <2>1, <1>1 DEF WcTypeOK
    <3>3. HasStep(h, wc[h].p) /\ <<>> \in Seq(EventSubscription)
      BY <3>2, <2>1, OnTurnType
    <3>4. failure \in ExecutionResult
      <4>1. NoData \in PersistenceData  BY DEF NoData, PersistenceData
      <4>. QED  BY <4>1, ConstructorTypes
    <3>. QED  BY <3>1, <3>2, <3>3, <3>4, <2>1, <1>2, AdvanceWithType
  <2>2. CASE wc[h].pc = "announce"
    <3>1. wc' = [wc EXCEPT ![h].pc = "persist", ![h].e = 0] /\ lastId' = lastId
      BY <2>2 DEF WcFault
    <3>2. DOMAIN wc' = Hosts /\ \A g \in Hosts \ {h} : wc'[g] = wc[g]
      BY <3>1, <1>1
    <3>3. WcTypeOK(wc'[h], n)
      BY <3>1, <2>2, <1>1 DEF WcTypeOK, WcPc, WcHolding, WcWorking
    <3>. QED  BY <3>1, <3>2, <3>3, <1>1, <1>2, WcFrame DEF ProvidersTypeOK
  <2>3. CASE wc[h].pc \notin {"queue_child", "announce"}
    <3>1. /\ lastId' = lastId /\ wc[h].pc # "idle"
          /\ \/ wc' = [wc EXCEPT ![h] = IdleWc]
             \/ wc' = [wc EXCEPT ![h] = Executed(h)]
             \/ wc' = [wc EXCEPT ![h] = [IdleWc EXCEPT !.pc = "release", !.w = wc[h].w]]
      BY <2>3 DEF WcFault
    <3>2. wc[h].w \in Workflows
      BY <3>1, <1>1 DEF WcTypeOK
    <3>3. DOMAIN wc' = Hosts /\ \A g \in Hosts \ {h} : wc'[g] = wc[g]
      BY <3>1, <1>1
    <3>4. \/ wc'[h] = IdleWc \/ wc'[h] = Executed(h)
          \/ wc'[h] = [IdleWc EXCEPT !.pc = "release", !.w = wc[h].w]
      BY <3>1, <1>1
    <3>5. WcTypeOK(wc'[h], n)
      BY <3>2, <3>4, <1>1, IdleType DEF Executed
    <3>. QED  BY <3>1, <3>3, <3>5, <1>1, <1>2, WcFrame DEF ProvidersTypeOK
  <2>. QED  BY <2>1, <2>2, <2>3
<1>5. EcsTypeOK' /\ RqsTypeOK'
  BY <1>1, <1>2, OthersFrame
<1>6. ProvidersTypeOK'
  BY <1>1, <1>2, <1>3, <1>4 DEF ProvidersTypeOK
<1>. QED  BY <1>4, <1>5, <1>6 DEF TypeOK

\* A completion event that could not be stored.
LEMMA WcUnsavedType ==
  ASSUME TypeOK, NEW h \in Hosts, WcUnsaved(h)
  PROVE  TypeOK'
<1>. DEFINE done == Concluded(wc[h].mem)
<1>1. wc[h].pc = "run" /\ wc[h].w \in Workflows /\ IsInstance(wc[h].mem)
  BY DEF WcUnsaved, TypeOK, WcsTypeOK, WcTypeOK, WcWorking
<1>2. IsInstance(done)
  BY <1>1, ConcludedType
<1>3. UnsavedEvent(wc[h].w) \in Event
  BY <1>1 DEF UnsavedEvent, NewEvent, Event
<1>4. faults' \in 0..MaxFaults
  BY SetsAssumption DEF WcUnsaved, Fault, TypeOK, ProvidersTypeOK
<1>5. /\ wc[h].todo = {} /\ events' = Append(events, UnsavedEvent(wc[h].w))
      /\ wc' = [wc EXCEPT ![h].pc = "announce", ![h].mem = done, ![h].e = Len(events) + 1]
      /\ UNCHANGED <<store, subs, wfQueue, evQueue, locked, up, ec, rq, lastId, dirty>>
  BY DEF WcUnsaved, queues
<1>. HIDE DEF done
<1>. QED  BY <1>1, <1>2, <1>3, <1>4, <1>5, AnnounceType

\* A failing call in process_event or in a request, a crash, a lease that runs
\* out.
LEMMA FaultType ==
  ASSUME TypeOK,
         \/ \E h \in Hosts : EcFault(h) \/ Crash(h)
         \/ \E r \in Requests : RqFault(r)
         \/ \E w \in Workflows : LeaseExpires(w)
  PROVE  TypeOK'
<1>. DEFINE n == Len(events)
            ss == DOMAIN subs
<1>1. n \in Nat /\ events \in Seq(Event) /\ ProvidersTypeOK
  BY DEF TypeOK, ProvidersTypeOK
<1>2. faults < MaxFaults /\ faults' = faults + 1 => faults' \in 0..MaxFaults
  BY <1>1, SetsAssumption DEF ProvidersTypeOK
<1>3. EcTypeOK(IdleEc, n, ss)
  BY <1>1, AbsentIsNone DEF EcTypeOK, IdleEc, EcPc, EcHolding
<1>4. ASSUME NEW h \in Hosts, EcFault(h) PROVE TypeOK'
  <2>1. DOMAIN ec = Hosts /\ EcTypeOK(ec[h], n, ss)
    BY DEF TypeOK, EcsTypeOK
  <2>2. DOMAIN ec' = Hosts /\ \A g \in Hosts \ {h} : ec'[g] = ec[g]
    BY <1>4, <2>1 DEF EcFault
  <2>3. EcTypeOK(ec'[h], n, ss)
    <3>1. CASE ec[h].pc \in {"lookup", "next", "release"}
      <4>1. ec'[h] = IdleEc
        BY <3>1, <2>1, <1>4 DEF EcFault, EcHolding
      <4>. QED  BY <4>1, <1>3
    <3>2. CASE ec[h].pc \notin {"lookup", "next", "release"}
      <4>1. /\ ec[h].pc \in EcHolding
            /\ ec' = [ec EXCEPT ![h].pc = "release", ![h].ok = FALSE,
                                ![h].mem = Absent, ![h].snap = Absent]
        BY <3>2, <1>4 DEF EcFault
      <4>2. /\ DOMAIN ec'[h] = DOMAIN ec[h]
            /\ ec'[h].pc = "release" /\ ec'[h].ok = FALSE
            /\ ec'[h].mem = Absent /\ ec'[h].snap = Absent
            /\ ec'[h].e = ec[h].e /\ ec'[h].todo = ec[h].todo
            /\ ec'[h].s = ec[h].s /\ ec'[h].w = ec[h].w
        BY <4>1, <2>1 DEF EcTypeOK
      <4>3. ec[h].pc # "idle" /\ "release" \in EcPc /\ "release" \in EcHolding
        BY <4>1 DEF EcPc, EcHolding
      <4>4. IsStored(Absent)  BY AbsentIsNone
      <4>. QED  BY <4>1, <4>2, <4>3, <4>4, <2>1 DEF EcTypeOK
    <3>. QED  BY <3>1, <3>2
  <2>4. /\ UNCHANGED <<store, subs, events, wfQueue, evQueue, locked, up, wc, rq, lastId, dirty>>
        /\ faults' \in 0..MaxFaults
    BY <1>2, <1>4 DEF EcFault, Fault, persistence, queues
  <2>5. EcsTypeOK' /\ WcsTypeOK' /\ RqsTypeOK'
    BY <2>2, <2>3, <2>4, <1>1, EcFrame, OthersFrame
  <2>. QED  BY <2>4, <2>5, <1>1 DEF TypeOK, ProvidersTypeOK
<1>5. ASSUME NEW h \in Hosts, Crash(h) PROVE TypeOK'
  <2>1. DOMAIN ec = Hosts /\ DOMAIN wc = Hosts
    BY DEF TypeOK, EcsTypeOK, WcsTypeOK
  <2>2. /\ wc' = [wc EXCEPT ![h] = IdleWc] /\ ec' = [ec EXCEPT ![h] = IdleEc]
        /\ UNCHANGED <<store, subs, events, wfQueue, evQueue, locked, up, rq, lastId, dirty>>
        /\ faults' \in 0..MaxFaults
    BY <1>2, <1>5 DEF Crash, Fault, persistence, queues
  <2>3. WcTypeOK(IdleWc, n)
    <3>1. <<>> \in Seq(EventSubscription) /\ 0 \in 0..n  BY <1>1
    <3>. QED  BY <3>1, AbsentIsNone DEF WcTypeOK, IdleWc, WcPc, WcHolding, WcWorking
  <2>4. WcsTypeOK' /\ EcsTypeOK' /\ RqsTypeOK'
    BY <2>1, <2>2, <2>3, <1>3 DEF TypeOK, WcsTypeOK, EcsTypeOK, RqsTypeOK
  <2>. QED  BY <2>2, <2>4, <1>1 DEF TypeOK, ProvidersTypeOK
<1>6. ASSUME NEW r \in Requests, RqFault(r) PROVE TypeOK'
  <2>1. /\ rq' = [rq EXCEPT ![r] = [NewRq EXCEPT !.pc = "done"]]
        /\ UNCHANGED <<store, subs, events, wfQueue, evQueue, locked, up, wc, ec, lastId, dirty>>
        /\ faults' \in 0..MaxFaults
    BY <1>2, <1>6 DEF RqFault, Fault, persistence, queues
  <2>2. RqTypeOK(r, [NewRq EXCEPT !.pc = "done"], n)
    BY <1>1, AbsentIsNone DEF RqTypeOK, NewRq, RqPc
  <2>3. RqsTypeOK' /\ WcsTypeOK' /\ EcsTypeOK'
    BY <2>1, <2>2 DEF TypeOK, RqsTypeOK, WcsTypeOK, EcsTypeOK
  <2>. QED  BY <2>1, <2>3, <1>1 DEF TypeOK, ProvidersTypeOK
<1>7. ASSUME NEW w \in Workflows, LeaseExpires(w) PROVE TypeOK'
  BY <1>7 DEF LeaseExpires, TypeOK, ProvidersTypeOK, WcsTypeOK, EcsTypeOK, RqsTypeOK,
              persistence, queues
<1>. QED  BY <1>4, <1>5, <1>6, <1>7

-----------------------------------------------------------------------------
(* The type theorem.                                                       *)

\* Initially nothing exists and everyone is idle.
LEMMA TypeInit == Init => TypeOK
<1>. SUFFICES ASSUME Init PROVE TypeOK
  OBVIOUS
<1>1. /\ <<>> \in Seq(EventSubscription) /\ <<>> \in Seq(Event) /\ <<>> \in Seq(Workflows)
      /\ \A S : <<>> \in Seq(S)
      /\ Len(<<>>) = 0
  OBVIOUS
<1>2. 0 \in 0..MaxFaults
  BY SetsAssumption
<1>3. ProvidersTypeOK
  BY <1>1, <1>2, AbsentIsNone DEF Init, ProvidersTypeOK
<1>4. WcTypeOK(IdleWc, 0)
  BY <1>1, AbsentIsNone DEF WcTypeOK, IdleWc, WcPc, WcHolding, WcWorking
<1>5. EcTypeOK(IdleEc, 0, DOMAIN subs)
  BY AbsentIsNone DEF EcTypeOK, IdleEc, EcPc, EcHolding
<1>6. \A r \in Requests : RqTypeOK(r, NewRq, 0)
  BY AbsentIsNone DEF RqTypeOK, NewRq, RqPc
<1>7. events = <<>> /\ Len(events) = 0
  BY <1>1 DEF Init
<1>8. WcsTypeOK /\ EcsTypeOK /\ RqsTypeOK
  BY <1>4, <1>5, <1>6, <1>7 DEF Init, WcsTypeOK, EcsTypeOK, RqsTypeOK
<1>. QED  BY <1>3, <1>8 DEF TypeOK

\* Every step keeps the types.
LEMMA TypeNext == TypeOK /\ [Next]_vars => TypeOK'
<1>. SUFFICES ASSUME TypeOK, [Next]_vars PROVE TypeOK'
  OBVIOUS
<1>1. ASSUME NEW h \in Hosts, WorkflowConsumer(h) PROVE TypeOK'
  BY <1>1, WcOuterType, WcPassType DEF WorkflowConsumer
<1>2. ASSUME NEW h \in Hosts, EventConsumer(h) PROVE TypeOK'
  BY <1>2, EcType
<1>3. ASSUME NEW r \in Requests, Request(r) PROVE TypeOK'
  BY <1>3, RqType
<1>4. ASSUME NEW h \in Hosts, WcFault(h) \/ WcUnsaved(h) PROVE TypeOK'
  BY <1>4, WcFaultType, WcUnsavedType
<1>5. CASE \/ \E h \in Hosts : EcFault(h) \/ Crash(h)
           \/ \E r \in Requests : RqFault(r)
           \/ \E w \in Workflows : LeaseExpires(w)
  BY <1>5, FaultType
<1>6. CASE Time
  BY <1>6, TickType DEF Time
<1>7. CASE UNCHANGED vars
  BY <1>7 DEF vars, TypeOK, ProvidersTypeOK, WcsTypeOK, EcsTypeOK, RqsTypeOK
<1>. QED  BY <1>1, <1>2, <1>3, <1>4, <1>5, <1>6, <1>7 DEF Next

LEMMA TypesKept == Spec => []TypeOK
BY TypeInit, TypeNext, PTL DEF Spec

\* An event consumer that is past its lookup has read the event.
HasRead(h) == ec[h].pc \notin {"idle", "lookup"} => events[ec[h].e].stored
UnsavedInv == UnsavedOK /\ \A h \in Hosts : HasRead(h)

\* A step that makes the event ev and leaves the event consumers alone.
LEMMA UnsavedFrame ==
  ASSUME TypeOK, UnsavedInv, NEW ev, events' = Append(events, ev), ec' = ec,
         faults \in Nat, faults' \in {faults, faults + 1},
         ev.stored \/ (faults' > 0 /\ ev.key \in Workflows /\ ~ev.processed)
  PROVE  UnsavedInv'
<1>1. events \in Seq(Event) /\ Len(events) \in Nat
  BY DEF TypeOK, ProvidersTypeOK
<1>2. \A e \in DOMAIN events' : (e \in DOMAIN events /\ events'[e] = events[e]) \/ events'[e] = ev
  BY <1>1
<1>3. UnsavedOK'
  BY <1>2 DEF UnsavedInv, UnsavedOK
<1>4. ASSUME NEW h \in Hosts PROVE HasRead(h)'
  <2>1. ec[h].pc # "idle" => ec[h].e \in DOMAIN events
    BY <1>1 DEF TypeOK, EcsTypeOK, EcTypeOK
  <2>2. ec[h].pc # "idle" => events'[ec[h].e] = events[ec[h].e]
    BY <2>1, <1>1
  <2>. QED  BY <2>2 DEF UnsavedInv, HasRead
<1>. QED  BY <1>3, <1>4 DEF UnsavedInv

LEMMA UnsavedNext ==
  ASSUME TypeOK, UnsavedInv, [Next]_vars
  PROVE  UnsavedInv'
<1>1. events \in Seq(Event) /\ faults \in Nat /\ DOMAIN ec = Hosts /\ DOMAIN wc = Hosts
  BY DEF TypeOK, ProvidersTypeOK, EcsTypeOK, WcsTypeOK
<1>2. UnsavedOK /\ \A h \in Hosts : HasRead(h)
  BY DEF UnsavedInv
<1>3. \A w : NewEvent(w).stored = TRUE
  BY DEF NewEvent
<1>4. ASSUME events' = events, faults' \in {faults, faults + 1},
             \A h \in Hosts : (ec'[h].e = ec[h].e /\ (ec'[h].pc \in {"idle", "lookup"} \/ ec[h].pc \notin {"idle", "lookup"}))
                               \/ ec'[h].pc \in {"idle", "lookup"}
      PROVE  UnsavedInv'
  <2>1. UnsavedOK'
    BY <1>1, <1>2, <1>4 DEF UnsavedOK
  <2>2. \A h \in Hosts : HasRead(h)'
    BY <1>2, <1>4 DEF HasRead
  <2>. QED  BY <2>1, <2>2 DEF UnsavedInv
<1>5. ASSUME NEW h \in Hosts, WorkflowConsumer(h) PROVE UnsavedInv'
  <2>1. ec' = ec /\ faults' = faults /\ (events' = events \/ WcConclude(h))
    BY <1>5 DEF WorkflowConsumer, WcDequeue, WcDrop, WcBounce, WcAccept, WcProvision, WcInject,
       WcInjectLoad, WcTeardown, WcAcquire, WcBusy, WcLoad, WcRun, WcSkip, WcAbort, WcStartChild,
       WcQueueChild, WcConclude, WcAnnounce, WcPersist, WcRequeue, WcRelease, persistence
  <2>2. events' = events \/ events' = Append(events, NewEvent(wc[h].w))
    BY <2>1 DEF WcConclude
  <2>. QED  BY <2>1, <2>2, <1>1, <1>3, <1>4, UnsavedFrame
<1>6. ASSUME NEW h \in Hosts, WcFault(h) \/ WcUnsaved(h) PROVE UnsavedInv'
  <2>1. ec' = ec /\ faults' = faults + 1
    BY <1>6 DEF WcFault, WcUnsaved, Fault
  <2>2. CASE WcFault(h)
    BY <2>1, <2>2, <1>1, <1>4 DEF WcFault, persistence
  <2>3. CASE WcUnsaved(h)
    <3>1. wc[h].w \in Workflows
      BY <2>3 DEF WcUnsaved, TypeOK, WcsTypeOK, WcTypeOK
    <3>2. LET ev == UnsavedEvent(wc[h].w)
          IN  ev.key \in Workflows /\ ~ev.processed /\ events' = Append(events, ev)
      BY <2>3, <3>1 DEF WcUnsaved, UnsavedEvent, NewEvent
    <3>. QED  BY <2>1, <3>2, <1>1, UnsavedFrame
  <2>. QED  BY <1>6, <2>2, <2>3
<1>7. ASSUME NEW h \in Hosts, EventConsumer(h) PROVE UnsavedInv'
  <2>1. /\ DOMAIN ec[h] = {"pc", "e", "todo", "s", "w", "mem", "snap", "ok"}
        /\ ec[h].pc # "idle" => ec[h].e \in DOMAIN events
    BY <1>1 DEF TypeOK, EcsTypeOK, EcTypeOK
  <2>2. /\ faults' = faults /\ \A g \in Hosts \ {h} : ec'[g] = ec[g]
        /\ events' = events \/ EcDone(h)
    BY <1>7, <1>1 DEF EventConsumer, EcDequeue, EcLookup, EcAcquire, EcBusy, EcLoad, EcPersist,
       EcQueue, EcTerminate, EcRelease, EcDone, persistence
  <2>3. IdleEc.pc = "idle"
    BY DEF IdleEc
  <2>4. CASE EcDone(h)
    <3>1. /\ ec'[h] = IdleEc /\ events' = [events EXCEPT ![ec[h].e].processed = TRUE]
          /\ ec[h].pc = "next" /\ ec[h].e \in DOMAIN events /\ events[ec[h].e].stored
      BY <2>4, <2>1, <1>1, <1>2 DEF EcDone, HasRead
    <3>2. \A e \in DOMAIN events : events[e] \in Event
      BY <1>1, ElementOfSeq
    <3>3. /\ DOMAIN events' = DOMAIN events
          /\ \A e \in DOMAIN events : /\ events'[e].key = events[e].key
                                       /\ events'[e].stored = events[e].stored
                                       /\ e # ec[h].e => events'[e] = events[e]
      BY <3>1, <3>2 DEF Event
    <3>4. UnsavedOK'
      BY <3>1, <3>3, <2>2, <1>2 DEF UnsavedOK
    <3>5. ASSUME NEW g \in Hosts PROVE HasRead(g)'
      <4>1. ec[g].pc # "idle" => ec[g].e \in DOMAIN events
        BY <1>1 DEF TypeOK, EcsTypeOK, EcTypeOK
      <4>. QED  BY <4>1, <3>1, <3>3, <2>2, <2>3, <1>2 DEF HasRead
    <3>. QED  BY <3>4, <3>5 DEF UnsavedInv
  <2>5. CASE EcLookup(h)
    <3>1. events' = events
      BY <2>5 DEF EcLookup, persistence
    <3>2. (ec'[h].e = ec[h].e /\ events[ec[h].e].stored) \/ ec'[h].pc = "idle"
      BY <2>5, <2>1, <2>3, <1>1 DEF EcLookup
    <3>3. \A g \in Hosts : HasRead(g)'
      BY <3>1, <3>2, <2>2, <1>2 DEF HasRead
    <3>4. UnsavedOK'
      BY <3>1, <2>2, <1>2 DEF UnsavedOK
    <3>. QED  BY <3>3, <3>4 DEF UnsavedInv
  <2>6. CASE ~EcDone(h) /\ ~EcLookup(h)
    <3>1. ASSUME NEW s \in ec[h].todo, EcAcquire(h, s) \/ EcBusy(h, s)
          PROVE  (ec'[h].e = ec[h].e /\ ec[h].pc \notin {"idle", "lookup"}) \/ ec'[h].pc \in {"idle", "lookup"}
      BY <3>1, <2>1, <2>3, <1>1 DEF EcAcquire, EcBusy
    <3>2. CASE EcDequeue(h)
      BY <3>2, <2>1, <2>2, <2>6, <1>1, <1>4 DEF EcDequeue
    <3>3. CASE EcLoad(h) \/ EcPersist(h) \/ EcQueue(h) \/ EcTerminate(h)
      <4>1. ec'[h].e = ec[h].e /\ ec[h].pc \notin {"idle", "lookup"}
        BY <3>3, <2>1, <1>1 DEF EcLoad, EcPersist, EcQueue, EcTerminate
      <4>. QED  BY <4>1, <2>2, <2>6, <1>4
    <3>4. CASE EcRelease(h)
      <4>. DEFINE c == [IdleEc EXCEPT !.pc = "next", !.e = ec[h].e, !.todo = ec[h].todo \ {ec[h].s}]
      <4>1. c.e = ec[h].e
        BY DEF IdleEc
      <4>2. (ec'[h] = c \/ ec'[h] = IdleEc) /\ ec[h].pc = "release"
        BY <3>4, <1>1 DEF EcRelease
      <4>. HIDE DEF c
      <4>. QED  BY <4>1, <4>2, <2>2, <2>3, <2>6, <1>4
    <3>. QED  BY <3>1, <3>2, <3>3, <3>4, <2>2, <2>6, <1>4, <1>7 DEF EventConsumer
  <2>. QED  BY <2>4, <2>5, <2>6
<1>8. ASSUME NEW r \in Requests, Request(r) PROVE UnsavedInv'
  <2>1. /\ ec' = ec /\ faults' = faults
        /\ events' = events \/ events' = Append(events, NewEvent(r.on))
    BY <1>8 DEF Request, RqStart, RqPublish, RqLoad, RqPersist, RqQueue, persistence
  <2>. QED  BY <2>1, <1>1, <1>3, <1>4, UnsavedFrame
<1>9. ASSUME NEW h \in Hosts, EcFault(h) \/ Crash(h) PROVE UnsavedInv'
  <2>1. DOMAIN ec[h] = {"pc", "e", "todo", "s", "w", "mem", "snap", "ok"}
    BY DEF TypeOK, EcsTypeOK, EcTypeOK
  <2>2. /\ events' = events /\ faults' = faults + 1 /\ \A g \in Hosts \ {h} : ec'[g] = ec[g]
    BY <1>9, <1>1 DEF EcFault, Crash, Fault, persistence
  <2>3. (ec'[h].e = ec[h].e /\ ec[h].pc \notin {"idle", "lookup"}) \/ ec'[h].pc = "idle"
    BY <1>9, <1>1, <2>1 DEF EcFault, Crash, EcHolding, IdleEc
  <2>. QED  BY <2>2, <2>3, <1>4
<1>10. ASSUME (\E r \in Requests : RqFault(r)) \/ (\E w \in Workflows : LeaseExpires(w)) \/ UNCHANGED vars
       PROVE  UnsavedInv'
  <2>1. ec' = ec /\ events' = events /\ faults' \in {faults, faults + 1}
    BY <1>10 DEF RqFault, LeaseExpires, Fault, vars, persistence
  <2>. QED  BY <2>1, <1>4
<1>11. ASSUME NEW w \in Workflows, NEW p, Tick(w, p) PROVE UnsavedInv'
  <2>1. events' = events /\ faults' = faults
    BY <1>11 DEF Tick
  <2>2. ASSUME NEW h \in Hosts PROVE ec'[h].e = ec[h].e /\ ec'[h].pc = ec[h].pc
    <3>1. DOMAIN ec[h] = {"pc", "e", "todo", "s", "w", "mem", "snap", "ok"}
      BY DEF TypeOK, EcsTypeOK, EcTypeOK
    <3>. QED  BY <3>1, <1>11 DEF Tick
  <2>. QED  BY <2>1, <2>2, <1>4
<1>. QED
  BY <1>5, <1>6, <1>7, <1>8, <1>9, <1>10, <1>11 DEF Next, Time

\* The state stays well formed whatever fails: every id a consumer, a queue or a
\* subscription holds is of an instance, an event or a subscription that was
\* made, and a queued event is stored unless it is a completion event whose
\* create_event failed, which no consumer ever marks as processed.
THEOREM TypeCorrect == Spec => []WellFormed
<1>1. Init => UnsavedInv
  BY DEF Init, UnsavedInv, UnsavedOK, HasRead, IdleEc
<1>2. TypeOK /\ UnsavedInv /\ [Next]_vars => UnsavedInv'
  BY UnsavedNext
<1>3. TypeOK /\ UnsavedInv => WellFormed
  BY DEF UnsavedInv, WellFormed
<1>. QED  BY <1>1, <1>2, <1>3, TypesKept, PTL DEF Spec

-----------------------------------------------------------------------------
(* Mutual exclusion.                                                       *)

\* A step after which nobody holds an instance who did not hold it before, and
\* the lock of every instance that is held is taken.
LEMMA NoNewHolder ==
  ASSUME MutualExclusion,
         \A g \in Hosts, w \in Workflows : WcHolds(g, w)' => WcHolds(g, w),
         \A g \in Hosts, w \in Workflows : EcHolds(g, w)' => EcHolds(g, w),
         \A g \in Hosts, w \in Workflows : WcHolds(g, w)' \/ EcHolds(g, w)' => w \in locked'
  PROVE  MutualExclusion'
<1>. USE DEF MutualExclusion
<1>. SUFFICES ASSUME NEW w \in Workflows, NEW g \in Hosts, NEW h \in Hosts
              PROVE  /\ WcHolds(g, w)' \/ EcHolds(g, w)' => w \in locked'
                     /\ WcHolds(g, w)' /\ WcHolds(h, w)' => g = h
                     /\ EcHolds(g, w)' /\ EcHolds(h, w)' => g = h
                     /\ ~(WcHolds(g, w)' /\ EcHolds(h, w)')
  OBVIOUS
<1>. QED  OBVIOUS

\* A step of the workflow consumer of h that neither takes nor releases a lock
\* leaves h outside the locked section or inside the one it was in.
LEMMA WcKeeps ==
  ASSUME TypeOK, NEW h \in Hosts, WorkflowConsumer(h) \/ WcFault(h) \/ WcUnsaved(h),
         ~WcAcquire(h), ~WcRelease(h)
  PROVE  /\ \A g \in Hosts \ {h} : wc'[g] = wc[g]
         /\ wc'[h].pc \in WcHolding => wc[h].pc \in WcHolding /\ wc'[h].w = wc[h].w
         /\ locked' = locked /\ ec' = ec
<1>1. DOMAIN wc = Hosts /\ WcTypeOK(wc[h], Len(events))
  BY DEF TypeOK, WcsTypeOK
<1>2. DOMAIN wc[h] = {"pc", "w", "mem", "snap", "todo", "new", "p", "child", "e"}
  BY <1>1 DEF WcTypeOK
<1>3. IdleWc.pc = "idle" /\ (Executed(h).pc \in {"idle", "teardown"})
  BY DEF IdleWc, Executed
<1>4. /\ [IdleWc EXCEPT !.pc = "release", !.w = wc[h].w].w = wc[h].w
      /\ [IdleWc EXCEPT !.pc = "requeue", !.w = wc[h].w].w = wc[h].w
  BY DEF IdleWc
<1>. DEFINE G == /\ \A g \in Hosts \ {h} : wc'[g] = wc[g]
                 /\ wc'[h].pc \in WcHolding => wc[h].pc \in WcHolding /\ wc'[h].w = wc[h].w
                 /\ locked' = locked /\ ec' = ec
<1>5. CASE WcDequeue(h) \/ WcDrop(h) \/ WcBounce(h) \/ WcAccept(h) \/ WcProvision(h)
           \/ WcInjectLoad(h) \/ WcInject(h) \/ WcTeardown(h) \/ WcBusy(h)
  BY <1>1, <1>2, <1>3, <1>5 DEF WcDequeue, WcDrop, WcBounce, WcAccept, WcProvision,
     WcInjectLoad, WcInject, WcTeardown, WcBusy, WcHolding
<1>6. CASE WcLoad(h) \/ WcConclude(h) \/ WcUnsaved(h) \/ WcAnnounce(h) \/ WcRequeue(h)
  BY <1>1, <1>2, <1>6 DEF WcLoad, WcConclude, WcUnsaved, WcAnnounce, WcRequeue, WcHolding
<1>7. CASE WcPersist(h)
  BY <1>1, <1>4, <1>7 DEF WcPersist, WcHolding
<1>8. ASSUME NEW p, NEW inst, NEW n, NEW new, Advance(h, p, inst, n, new),
             wc[h].pc \in {"run", "queue_child"}, locked' = locked, ec' = ec
      PROVE  G
  BY <1>1, <1>2, <1>8 DEF Advance, WcHolding
<1>9. ASSUME NEW p \in wc[h].todo,
             WcRun(h, p) \/ WcSkip(h, p) \/ WcAbort(h, p) \/ WcStartChild(h, p)
      PROVE  G
  <2>1. CASE WcRun(h, p)
    BY <2>1, <1>8 DEF WcRun, OnTurn, AdvanceWith
  <2>2. CASE WcSkip(h, p)
    BY <2>2, <1>8 DEF WcSkip, OnTurn
  <2>3. CASE WcAbort(h, p)
    BY <2>3, <1>1, <1>4 DEF WcAbort, OnTurn, WcHolding
  <2>4. CASE WcStartChild(h, p)
    BY <2>4, <1>1, <1>2 DEF WcStartChild, OnTurn, WcHolding
  <2>. QED  BY <1>9, <2>1, <2>2, <2>3, <2>4
<1>10. CASE WcQueueChild(h)
  BY <1>8, <1>10 DEF WcQueueChild, AdvanceWith
<1>11. CASE WcFault(h)
  <2>0. locked' = locked /\ ec' = ec
    BY <1>11 DEF WcFault
  <2>1. CASE wc[h].pc = "queue_child"
    BY <2>0, <2>1, <1>8, <1>11 DEF WcFault, AdvanceWith
  <2>2. CASE wc[h].pc = "announce"
    BY <2>0, <2>2, <1>1, <1>2, <1>11 DEF WcFault, WcHolding
  <2>3. CASE wc[h].pc \notin {"queue_child", "announce"}
    <3>1. \/ wc' = [wc EXCEPT ![h] = IdleWc]
          \/ wc' = [wc EXCEPT ![h] = Executed(h)]
          \/ /\ wc' = [wc EXCEPT ![h] = [IdleWc EXCEPT !.pc = "release", !.w = wc[h].w]]
             /\ wc[h].pc \in WcHolding
      BY <2>3, <1>11 DEF WcFault, WcHolding
    <3>. QED  BY <3>1, <2>0, <1>1, <1>3, <1>4 DEF WcHolding
  <2>. QED  BY <2>1, <2>2, <2>3
<1>. QED  BY <1>5, <1>6, <1>7, <1>9, <1>10, <1>11 DEF WorkflowConsumer

\* The same for the event consumer.
LEMMA EcKeeps ==
  ASSUME TypeOK, NEW h \in Hosts, EventConsumer(h) \/ EcFault(h),
         \A s \in ec[h].todo : ~EcAcquire(h, s), ~EcRelease(h)
  PROVE  /\ \A g \in Hosts \ {h} : ec'[g] = ec[g]
         /\ ec'[h].pc \in EcHolding => ec[h].pc \in EcHolding /\ ec'[h].w = ec[h].w
         /\ locked' = locked /\ wc' = wc
<1>1. DOMAIN ec = Hosts /\ EcTypeOK(ec[h], Len(events), DOMAIN subs)
  BY DEF TypeOK, EcsTypeOK
<1>2. DOMAIN ec[h] = {"pc", "e", "todo", "s", "w", "mem", "snap", "ok"}
  BY <1>1 DEF EcTypeOK
<1>3. IdleEc.pc = "idle"
  BY DEF IdleEc
<1>4. CASE EcDequeue(h) \/ EcLookup(h) \/ EcDone(h) \/ \E s \in ec[h].todo : EcBusy(h, s)
  BY <1>1, <1>2, <1>3, <1>4 DEF EcDequeue, EcLookup, EcDone, EcBusy, EcHolding
<1>5. CASE EcLoad(h) \/ EcPersist(h) \/ EcQueue(h) \/ EcTerminate(h)
  BY <1>1, <1>2, <1>5 DEF EcLoad, EcPersist, EcQueue, EcTerminate, EcHolding
<1>6. CASE EcFault(h)
  BY <1>1, <1>2, <1>3, <1>6 DEF EcFault, EcHolding
<1>. QED  BY <1>4, <1>5, <1>6 DEF EventConsumer

\* Every step keeps the locked sections apart.
LEMMA MutualExclusionNext ==
  ASSUME TypeOK, MutualExclusion, [Next]_vars
  PROVE  MutualExclusion'
<1>1. ASSUME NEW h \in Hosts, WorkflowConsumer(h) \/ WcFault(h) \/ WcUnsaved(h), ~WcAcquire(h), ~WcRelease(h)
      PROVE  MutualExclusion'
  <2>1. /\ \A g \in Hosts \ {h} : wc'[g] = wc[g]
        /\ wc'[h].pc \in WcHolding => wc[h].pc \in WcHolding /\ wc'[h].w = wc[h].w
        /\ locked' = locked /\ ec' = ec
    BY <1>1, WcKeeps
  <2>2. \A g \in Hosts, w \in Workflows : WcHolds(g, w)' => WcHolds(g, w)
    BY <2>1 DEF WcHolds
  <2>3. \A g \in Hosts, w \in Workflows : EcHolds(g, w)' => EcHolds(g, w)
    BY <2>1 DEF EcHolds
  <2>. QED  BY <2>1, <2>2, <2>3, NoNewHolder DEF MutualExclusion
<1>2. ASSUME NEW h \in Hosts, WcAcquire(h) PROVE MutualExclusion'
  <2>. DEFINE v == wc[h].w
  <2>1. DOMAIN wc = Hosts /\ "pc" \in DOMAIN wc[h] /\ "w" \in DOMAIN wc[h]
    BY DEF TypeOK, WcsTypeOK, WcTypeOK
  <2>2. /\ v \notin locked /\ locked' = locked \cup {v} /\ ec' = ec
        /\ wc' = [wc EXCEPT ![h].pc = "load"]
    BY <1>2 DEF WcAcquire
  <2>3. \A g \in Hosts : wc'[g].w = wc[g].w /\ (g # h => wc'[g].pc = wc[g].pc)
    BY <2>1, <2>2
  <2>4. \A g \in Hosts, w \in Workflows : WcHolds(g, w)' => WcHolds(g, w) \/ (g = h /\ w = v)
    BY <2>3 DEF WcHolds
  <2>5. \A g \in Hosts, w \in Workflows : EcHolds(g, w)' => EcHolds(g, w)
    BY <2>2 DEF EcHolds
  <2>6. \A g \in Hosts : v \in Workflows => ~WcHolds(g, v) /\ ~EcHolds(g, v)
    BY <2>2 DEF MutualExclusion
  <2>. HIDE DEF v
  <2>. QED  BY <2>2, <2>4, <2>5, <2>6 DEF MutualExclusion
<1>3. ASSUME NEW h \in Hosts, WcRelease(h) PROVE MutualExclusion'
  <2>. DEFINE v == wc[h].w
  <2>1. DOMAIN wc = Hosts
    BY DEF TypeOK, WcsTypeOK
  <2>2. locked' = locked \ {v} /\ ec' = ec /\ wc' = [wc EXCEPT ![h] = Executed(h)]
    BY <1>3 DEF WcRelease
  <2>3. WcHolds(h, v) /\ wc'[h].pc \notin WcHolding
    BY <1>3, <2>1, <2>2 DEF WcRelease, WcHolds, WcHolding, Executed, IdleWc
  <2>4. \A g \in Hosts, w \in Workflows : WcHolds(g, w)' => WcHolds(g, w) /\ g # h
    BY <2>1, <2>2, <2>3 DEF WcHolds
  <2>5. \A g \in Hosts, w \in Workflows : EcHolds(g, w)' => EcHolds(g, w)
    BY <2>2 DEF EcHolds
  <2>. HIDE DEF v
  <2>6. \A g \in Hosts, w \in Workflows : WcHolds(g, w)' \/ EcHolds(g, w)' => w \in locked'
    BY <2>2, <2>3, <2>4, <2>5 DEF MutualExclusion
  <2>. QED  BY <2>4, <2>5, <2>6, NoNewHolder
<1>4. ASSUME NEW h \in Hosts, EventConsumer(h) \/ EcFault(h),
             \A s \in ec[h].todo : ~EcAcquire(h, s), ~EcRelease(h)
      PROVE  MutualExclusion'
  <2>1. /\ \A g \in Hosts \ {h} : ec'[g] = ec[g]
        /\ ec'[h].pc \in EcHolding => ec[h].pc \in EcHolding /\ ec'[h].w = ec[h].w
        /\ locked' = locked /\ wc' = wc
    BY <1>4, EcKeeps
  <2>2. \A g \in Hosts, w \in Workflows : EcHolds(g, w)' => EcHolds(g, w)
    BY <2>1 DEF EcHolds
  <2>3. \A g \in Hosts, w \in Workflows : WcHolds(g, w)' => WcHolds(g, w)
    BY <2>1 DEF WcHolds
  <2>. QED  BY <2>1, <2>2, <2>3, NoNewHolder DEF MutualExclusion
<1>5. ASSUME NEW h \in Hosts, NEW s \in ec[h].todo, EcAcquire(h, s) PROVE MutualExclusion'
  <2>. DEFINE v == subs[s].w
  <2>1. DOMAIN ec = Hosts /\ "pc" \in DOMAIN ec[h] /\ "w" \in DOMAIN ec[h]
    BY DEF TypeOK, EcsTypeOK, EcTypeOK
  <2>2. /\ v \notin locked /\ locked' = locked \cup {v} /\ wc' = wc
        /\ ec' = [ec EXCEPT ![h].pc = "load", ![h].s = s, ![h].w = v]
    BY <1>5 DEF EcAcquire
  <2>3. ec'[h].w = v /\ \A g \in Hosts : g # h => ec'[g] = ec[g]
    BY <2>1, <2>2
  <2>4. \A g \in Hosts, w \in Workflows : EcHolds(g, w)' => EcHolds(g, w) \/ (g = h /\ w = v)
    BY <2>3 DEF EcHolds
  <2>5. \A g \in Hosts, w \in Workflows : WcHolds(g, w)' => WcHolds(g, w)
    BY <2>2 DEF WcHolds
  <2>6. \A g \in Hosts : v \in Workflows => ~WcHolds(g, v) /\ ~EcHolds(g, v)
    BY <2>2 DEF MutualExclusion
  <2>7. \A w \in Workflows : EcHolds(h, w)' => w = v
    BY <2>3 DEF EcHolds
  <2>. HIDE DEF v
  <2>. QED  BY <2>2, <2>4, <2>5, <2>6, <2>7 DEF MutualExclusion
<1>6. ASSUME NEW h \in Hosts, EcRelease(h) PROVE MutualExclusion'
  <2>. DEFINE v == ec[h].w
  <2>1. DOMAIN ec = Hosts
    BY DEF TypeOK, EcsTypeOK
  <2>2. locked' = locked \ {v} /\ wc' = wc
    BY <1>6 DEF EcRelease
  <2>3. /\ EcHolds(h, v) /\ ec'[h].pc \notin EcHolding
        /\ \A g \in Hosts : g # h => ec'[g] = ec[g]
    BY <1>6, <2>1 DEF EcRelease, EcHolds, EcHolding, IdleEc
  <2>4. \A g \in Hosts, w \in Workflows : EcHolds(g, w)' => EcHolds(g, w) /\ g # h
    BY <2>3 DEF EcHolds
  <2>5. \A g \in Hosts, w \in Workflows : WcHolds(g, w)' => WcHolds(g, w)
    BY <2>2 DEF WcHolds
  <2>. HIDE DEF v
  <2>6. \A g \in Hosts, w \in Workflows : WcHolds(g, w)' \/ EcHolds(g, w)' => w \in locked'
    BY <2>2, <2>3, <2>4, <2>5 DEF MutualExclusion
  <2>. QED  BY <2>4, <2>5, <2>6, NoNewHolder
<1>7. ASSUME NEW h \in Hosts, Crash(h) PROVE MutualExclusion'
  <2>1. DOMAIN wc = Hosts /\ DOMAIN ec = Hosts
    BY DEF TypeOK, WcsTypeOK, EcsTypeOK
  <2>2. /\ \A g \in Hosts, w \in Workflows : WcHolds(g, w)' => WcHolds(g, w)
        /\ \A g \in Hosts, w \in Workflows : EcHolds(g, w)' => EcHolds(g, w)
        /\ locked' = locked
    BY <1>7, <2>1 DEF Crash, WcHolds, EcHolds, WcHolding, EcHolding, IdleWc, IdleEc
  <2>. QED  BY <2>2, NoNewHolder DEF MutualExclusion
<1>8. ASSUME NEW v \in Workflows, LeaseExpires(v) PROVE MutualExclusion'
  <2>1. /\ locked' = locked \ {v} /\ wc' = wc /\ ec' = ec
        /\ \A h \in Hosts : ~WcHolds(h, v) /\ ~EcHolds(h, v)
    BY <1>8 DEF LeaseExpires
  <2>2. /\ \A g \in Hosts, w \in Workflows : WcHolds(g, w)' => WcHolds(g, w)
        /\ \A g \in Hosts, w \in Workflows : EcHolds(g, w)' => EcHolds(g, w)
    BY <2>1 DEF WcHolds, EcHolds
  <2>. QED  BY <2>1, <2>2, NoNewHolder DEF MutualExclusion
<1>9. CASE Time
  <2>3. \A h \in Hosts : /\ wc'[h].pc = wc[h].pc /\ wc'[h].w = wc[h].w
                         /\ ec'[h].pc = ec[h].pc /\ ec'[h].w = ec[h].w
    BY <1>9, TickFrame DEF Time
  <2>4. locked' = locked
    BY <1>9 DEF Time, Tick
  <2>5. /\ \A g \in Hosts, v \in Workflows : WcHolds(g, v)' => WcHolds(g, v)
        /\ \A g \in Hosts, v \in Workflows : EcHolds(g, v)' => EcHolds(g, v)
    BY <2>3 DEF WcHolds, EcHolds
  <2>. QED  BY <2>4, <2>5, NoNewHolder DEF MutualExclusion
<1>10. ASSUME UNCHANGED <<wc, ec, locked>> PROVE MutualExclusion'
  BY <1>10 DEF MutualExclusion, WcHolds, EcHolds
<1>11. ASSUME NEW r \in Requests, Request(r) \/ RqFault(r) PROVE MutualExclusion'
  BY <1>10, <1>11 DEF Request, RqStart, RqPublish, RqLoad, RqPersist, RqQueue, RqFault
<1>12. UNCHANGED vars => MutualExclusion'
  BY <1>10 DEF vars
<1>. QED
  BY <1>1, <1>2, <1>3, <1>4, <1>5, <1>6, <1>7, <1>8, <1>9, <1>11, <1>12 DEF Next

\* Mutual exclusion over an instance, for any number of hosts and whatever
\* crashes: the workflow consumers (WorkflowExecutor::execute) and the event
\* consumers (process_event) are never inside the locked section of the same
\* instance at the same time, and its lock is held for the one that is.
THEOREM Exclusive == Spec => []MutualExclusion
<1>1. Init => MutualExclusion
  BY DEF Init, MutualExclusion, WcHolds, EcHolds, IdleWc, IdleEc, WcHolding, EcHolding
<1>2. TypeOK /\ MutualExclusion /\ [Next]_vars => MutualExclusion'
  BY MutualExclusionNext
<1>. QED  BY <1>1, <1>2, TypesKept, PTL DEF Spec

-----------------------------------------------------------------------------
(* Every path leads to release_lock.                                       *)

\* A workflow consumer that holds a lock and is not yet at its release goes on
\* inside the locked section of the same instance, on every path.
LEMMA WcStays ==
  ASSUME TypeOK, NEW h \in Hosts, WorkflowConsumer(h) \/ WcFault(h) \/ WcUnsaved(h), wc[h].pc \in WcHolding \ {"release"}
  PROVE  wc'[h].pc \in WcHolding /\ wc'[h].w = wc[h].w
<1>1. DOMAIN wc = Hosts /\ WcTypeOK(wc[h], Len(events))
  BY DEF TypeOK, WcsTypeOK
<1>2. DOMAIN wc[h] = {"pc", "w", "mem", "snap", "todo", "new", "p", "child", "e"}
  BY <1>1 DEF WcTypeOK
<1>4. \A p \in {"release", "requeue"} :
        /\ [IdleWc EXCEPT !.pc = p, !.w = wc[h].w].w = wc[h].w
        /\ [IdleWc EXCEPT !.pc = p, !.w = wc[h].w].pc \in WcHolding
  BY DEF IdleWc, WcHolding
<1>. DEFINE G == wc'[h].pc \in WcHolding /\ wc'[h].w = wc[h].w
<1>5. ~(WcDequeue(h) \/ WcDrop(h) \/ WcBounce(h) \/ WcAccept(h) \/ WcProvision(h) \/ WcInjectLoad(h)
        \/ WcInject(h) \/ WcTeardown(h) \/ WcAcquire(h) \/ WcBusy(h) \/ WcRelease(h))
  BY DEF WcDequeue, WcDrop, WcBounce, WcAccept, WcProvision, WcInjectLoad, WcInject, WcTeardown, WcAcquire,
     WcBusy, WcRelease, WcHolding
<1>6. CASE WcLoad(h) \/ WcConclude(h) \/ WcUnsaved(h) \/ WcAnnounce(h) \/ WcRequeue(h)
  BY <1>1, <1>2, <1>6 DEF WcLoad, WcConclude, WcUnsaved, WcAnnounce, WcRequeue, WcHolding
<1>7. CASE WcPersist(h)
  BY <1>1, <1>4, <1>7 DEF WcPersist
<1>8. ASSUME NEW p, NEW inst, NEW n, NEW new, Advance(h, p, inst, n, new)
      PROVE  G
  BY <1>1, <1>2, <1>8 DEF Advance, WcHolding
<1>9. ASSUME NEW p \in wc[h].todo,
             WcRun(h, p) \/ WcSkip(h, p) \/ WcAbort(h, p) \/ WcStartChild(h, p)
      PROVE  G
  <2>1. CASE WcRun(h, p)
    BY <2>1, <1>8 DEF WcRun, AdvanceWith
  <2>2. CASE WcSkip(h, p)
    BY <2>2, <1>8 DEF WcSkip
  <2>3. CASE WcAbort(h, p)
    BY <2>3, <1>1, <1>4 DEF WcAbort
  <2>4. CASE WcStartChild(h, p)
    BY <2>4, <1>1, <1>2 DEF WcStartChild, WcHolding
  <2>. QED  BY <1>9, <2>1, <2>2, <2>3, <2>4
<1>10. CASE WcQueueChild(h)
  BY <1>8, <1>10 DEF WcQueueChild, AdvanceWith
<1>11. CASE WcFault(h)
  <2>1. CASE wc[h].pc = "queue_child"
    BY <2>1, <1>8, <1>11 DEF WcFault, AdvanceWith
  <2>2. CASE wc[h].pc = "announce"
    BY <2>2, <1>1, <1>2, <1>11 DEF WcFault, WcHolding
  <2>3. CASE wc[h].pc \notin {"queue_child", "announce"}
    <3>1. wc' = [wc EXCEPT ![h] = [IdleWc EXCEPT !.pc = "release", !.w = wc[h].w]]
      BY <2>3, <1>11 DEF WcFault, WcHolding
    <3>. QED  BY <3>1, <1>1, <1>4
  <2>. QED  BY <2>1, <2>2, <2>3
<1>. QED  BY <1>5, <1>6, <1>7, <1>9, <1>10, <1>11 DEF WorkflowConsumer

\* The same for the event consumer.
LEMMA EcStays ==
  ASSUME TypeOK, NEW h \in Hosts, EventConsumer(h) \/ EcFault(h), ec[h].pc \in EcHolding \ {"release"}
  PROVE  ec'[h].pc \in EcHolding /\ ec'[h].w = ec[h].w
<1>1. DOMAIN ec = Hosts /\ EcTypeOK(ec[h], Len(events), DOMAIN subs)
  BY DEF TypeOK, EcsTypeOK
<1>2. DOMAIN ec[h] = {"pc", "e", "todo", "s", "w", "mem", "snap", "ok"}
  BY <1>1 DEF EcTypeOK
<1>3. ~EcDequeue(h) /\ ~EcLookup(h) /\ ~EcRelease(h) /\ ~EcDone(h) /\ \A s \in ec[h].todo : ~EcAcquire(h, s) /\ ~EcBusy(h, s)
  <2>1. ec[h].pc \notin {"idle", "lookup", "next", "release"}
    BY DEF EcHolding
  <2>2. ~EcLookup(h)
    BY ZenonT(20), <2>1 DEF EcLookup
  <2>3. ~EcDequeue(h) /\ ~EcRelease(h) /\ ~EcDone(h)
    BY <2>1 DEF EcDequeue, EcRelease, EcDone
  <2>4. \A s \in ec[h].todo : ~EcAcquire(h, s) /\ ~EcBusy(h, s)
    BY <2>1 DEF EcAcquire, EcBusy
  <2>. QED  BY <2>2, <2>3, <2>4
<1>4. CASE EcLoad(h) \/ EcPersist(h) \/ EcQueue(h) \/ EcTerminate(h)
  BY <1>1, <1>2, <1>4 DEF EcLoad, EcPersist, EcQueue, EcTerminate, EcHolding
<1>5. CASE EcFault(h)
  BY <1>1, <1>2, <1>5 DEF EcFault, EcHolding
<1>. QED  BY <1>3, <1>4, <1>5 DEF EventConsumer

\* The action of LocksNotForgotten, for one instance.
NotForgotten(w) ==
  Held(w) /\ w \in locked' /\ ~Held(w)' =>
    \E h \in Hosts : \/ Crash(h)
                     \/ wc[h].pc = "release" /\ wc[h].w = w
                     \/ ec[h].pc = "release" /\ ec[h].w = w

LEMMA NotForgottenNext ==
  ASSUME TypeOK, [Next]_vars, NEW w \in Workflows
  PROVE  NotForgotten(w)
<1> SUFFICES ASSUME NEW g \in Hosts, WcHolds(g, w) \/ EcHolds(g, w), w \in locked', ~Held(w)',
                    \A h \in Hosts : ~Crash(h) /\ ~(wc[h].pc = "release" /\ wc[h].w = w)
                                               /\ ~(ec[h].pc = "release" /\ ec[h].w = w)
             PROVE  FALSE
  BY DEF NotForgotten, Held
<1>1. ~WcHolds(g, w)' /\ ~EcHolds(g, w)'
  BY DEF Held
<1>2. ASSUME WcHolds(g, w)  PROVE wc[g].pc \in WcHolding \ {"release"} /\ wc[g].w = w
  BY <1>2 DEF WcHolds
<1>3. ASSUME EcHolds(g, w)  PROVE ec[g].pc \in EcHolding \ {"release"} /\ ec[g].w = w
  BY <1>3 DEF EcHolds
<1>4. ASSUME wc'[g].pc = wc[g].pc, wc'[g].w = wc[g].w, ec'[g].pc = ec[g].pc, ec'[g].w = ec[g].w  PROVE FALSE
  BY <1>1, <1>4 DEF WcHolds, EcHolds
<1>5. DOMAIN wc = Hosts /\ DOMAIN ec = Hosts
  BY DEF TypeOK, WcsTypeOK, EcsTypeOK
<1>6. ASSUME NEW h \in Hosts, WorkflowConsumer(h) \/ WcFault(h) \/ WcUnsaved(h)  PROVE FALSE
  <2>1. ec' = ec /\ \A k \in Hosts \ {h} : wc'[k] = wc[k]
    <3>1. CASE WcAcquire(h)
      BY <1>5, <3>1 DEF WcAcquire
    <3>2. CASE WcRelease(h)
      BY <1>5, <3>2 DEF WcRelease
    <3>. QED  BY <1>6, <3>1, <3>2, WcKeeps
  <2>2. CASE g # h
    BY <1>4, <2>1, <2>2
  <2>3. CASE g = h /\ WcHolds(g, w)
    BY <1>1, <1>2, <1>6, <2>3, WcStays DEF WcHolds
  <2>4. CASE EcHolds(g, w)
    BY <1>1, <2>1, <2>4 DEF EcHolds
  <2>. QED  BY <2>2, <2>3, <2>4
<1>7. ASSUME NEW h \in Hosts, EventConsumer(h) \/ EcFault(h)  PROVE FALSE
  <2>1. wc' = wc /\ \A k \in Hosts \ {h} : ec'[k] = ec[k]
    <3>1. ASSUME NEW s \in ec[h].todo, EcAcquire(h, s)  PROVE wc' = wc /\ \A k \in Hosts \ {h} : ec'[k] = ec[k]
      BY <1>5, <3>1 DEF EcAcquire
    <3>2. CASE EcRelease(h)
      BY <1>5, <3>2 DEF EcRelease
    <3>. QED  BY <1>7, <3>1, <3>2, EcKeeps
  <2>2. CASE g # h
    BY <1>4, <2>1, <2>2
  <2>3. CASE g = h /\ EcHolds(g, w)
    BY <1>1, <1>3, <1>7, <2>3, EcStays DEF EcHolds
  <2>4. CASE WcHolds(g, w)
    BY <1>1, <2>1, <2>4 DEF WcHolds
  <2>. QED  BY <2>2, <2>3, <2>4
<1>8. CASE Time
  BY <1>4, <1>8, TickFrame DEF Time
<1>9. ASSUME NEW r \in Requests, Request(r) \/ RqFault(r)  PROVE FALSE
  BY <1>4, <1>9 DEF Request, RqStart, RqPublish, RqLoad, RqPersist, RqQueue, RqFault
<1>10. ASSUME NEW v \in Workflows, LeaseExpires(v)  PROVE FALSE
  BY <1>4, <1>10 DEF LeaseExpires
<1>11. CASE UNCHANGED vars
  BY <1>4, <1>11 DEF vars
<1>. QED  BY <1>6, <1>7, <1>8, <1>9, <1>10, <1>11 DEF Next

\* No lock is forgotten, with any number of hosts: every early return and error
\* path of execute and of process_event stays in the locked section until
\* release_lock, and only a crash or a release that fails leaves a lock to its
\* lease.
THEOREM LocksReleased == Spec => LocksNotForgotten
<1>1. TypeOK /\ [Next]_vars => \A w \in locked : NotForgotten(w)
  BY NotForgottenNext DEF TypeOK, ProvidersTypeOK
<1>2. TypeOK /\ [Next]_vars =>
        [\A w \in locked :
           Held(w) /\ w \in locked' /\ ~Held(w)' =>
             \E h \in Hosts : \/ Crash(h)
                              \/ wc[h].pc = "release" /\ wc[h].w = w
                              \/ ec[h].pc = "release" /\ ec[h].w = w]_vars
  BY <1>1 DEF NotForgotten
<1>. QED  BY <1>2, TypesKept, PTL DEF Spec, LocksNotForgotten

-----------------------------------------------------------------------------
(* WorkExists.                                                             *)

\* What each clause needs when an actor does nothing while the store grows.
LEMMA Grown ==
  ASSUME TypeOK, WorkExists, \A w \in Workflows : Exists(w) => Exists(w)'
  PROVE  /\ wfQueue' = wfQueue => \A i \in DOMAIN wfQueue' : Exists(wfQueue[i])'
         /\ \A x \in Workflows : wfQueue' = Append(wfQueue, x) /\ Exists(x)' =>
              \A i \in DOMAIN wfQueue' : Exists(wfQueue[i])'
         /\ subs' = subs => \A s \in DOMAIN subs' : Exists(subs[s].w)'
         /\ \A h \in Hosts : wc'[h] = wc[h] => WcExists(h)'
         /\ \A h \in Hosts : ec'[h] = ec[h] => EcExists(h)'
         /\ \A r \in Requests : rq'[r] = rq[r] => RqExists(r)'
<1>1. wfQueue \in Seq(Workflows) /\ subs \in Seq(EventSubscription)
  BY DEF TypeOK, ProvidersTypeOK
<1>2. \A i \in DOMAIN wfQueue : wfQueue[i] \in Workflows
  BY <1>1, ElementOfSeq
<1>3. \A s \in DOMAIN subs : subs[s].w \in Workflows
  <2>1. \A s \in DOMAIN subs : subs[s] \in EventSubscription  BY <1>1, ElementOfSeq
  <2>. QED  BY <2>1 DEF EventSubscription
<1>4. ASSUME wfQueue' = wfQueue PROVE \A i \in DOMAIN wfQueue' : Exists(wfQueue[i])'
  BY <1>2, <1>4 DEF WorkExists, Exists
<1>5. ASSUME NEW x \in Workflows, wfQueue' = Append(wfQueue, x), Exists(x)',
             NEW i \in DOMAIN wfQueue'
      PROVE  Exists(wfQueue[i])'
  <2>1. (i \in DOMAIN wfQueue /\ wfQueue'[i] = wfQueue[i]) \/ wfQueue'[i] = x
    BY <1>1, <1>5
  <2>. QED  BY <2>1, <1>2, <1>5 DEF WorkExists, Exists
<1>6. ASSUME subs' = subs PROVE \A s \in DOMAIN subs' : Exists(subs[s].w)'
  BY <1>3, <1>6 DEF WorkExists, Exists
<1>7. ASSUME NEW h \in Hosts, wc'[h] = wc[h] PROVE WcExists(h)'
  <2>1. /\ wc[h].pc # "idle" => wc[h].w \in Workflows
        /\ wc[h].pc = "queue_child" => wc[h].child \in Workflows
    BY DEF TypeOK, WcsTypeOK, WcTypeOK
  <2>. QED  BY <2>1, <1>7 DEF WorkExists, WcExists, Exists
<1>8. ASSUME NEW h \in Hosts, ec'[h] = ec[h] PROVE EcExists(h)'
  <2>1. ec[h].pc \in EcHolding => ec[h].w \in Workflows
    BY DEF TypeOK, EcsTypeOK, EcTypeOK
  <2>. QED  BY <2>1, <1>8 DEF WorkExists, EcExists, Exists
<1>9. ASSUME NEW r \in Requests, rq'[r] = rq[r] PROVE RqExists(r)'
  <2>1. rq[r].pc = "persist" => r.op # "publish"
    BY DEF TypeOK, RqsTypeOK, RqTypeOK
  <2>2. r.op # "publish" => r.on \in Workflows
    BY RequestsAssumption
  <2>. QED  BY <2>1, <2>2, <1>9 DEF WorkExists, RqExists, Exists
<1>. QED  BY <1>4, <1>5, <1>6, <1>7, <1>8, <1>9

\* The steps that write the store; every other step leaves it alone.
LEMMA StoreWriters ==
  ASSUME [Next]_vars
  PROVE  \/ store' = store
         \/ \E h \in Hosts : WcInject(h) \/ WcPersist(h) \/ EcPersist(h)
         \/ \E h \in Hosts : \E p : WcStartChild(h, p)
         \/ \E r \in Requests : RqStart(r) \/ RqPersist(r)
         \/ \E w \in Workflows : \E p : Tick(w, p)
<1>1. ASSUME NEW h \in Hosts, WorkflowConsumer(h)
      PROVE  store' = store \/ WcInject(h) \/ WcPersist(h) \/ \E p : WcStartChild(h, p)
  BY <1>1 DEF WorkflowConsumer, WcDequeue, WcDrop, WcBounce, WcAccept, WcProvision,
     WcInjectLoad, WcTeardown, WcAcquire, WcBusy, WcLoad, WcRun, WcSkip, WcAbort,
     WcQueueChild, WcConclude, WcAnnounce, WcRequeue, WcRelease, persistence
<1>2. ASSUME NEW h \in Hosts, EventConsumer(h) PROVE store' = store \/ EcPersist(h)
  BY <1>2 DEF EventConsumer, EcDequeue, EcLookup, EcAcquire, EcBusy, EcLoad, EcQueue,
     EcTerminate, EcRelease, EcDone, persistence
<1>3. ASSUME NEW r \in Requests, Request(r) PROVE store' = store \/ RqStart(r) \/ RqPersist(r)
  BY <1>3 DEF Request, RqPublish, RqLoad, RqQueue, persistence
<1>4. ASSUME \/ \E h \in Hosts : WcFault(h) \/ WcUnsaved(h) \/ EcFault(h) \/ Crash(h)
             \/ \E r \in Requests : RqFault(r)
             \/ \E w \in Workflows : LeaseExpires(w)
             \/ UNCHANGED vars
      PROVE  store' = store
  BY <1>4 DEF WcFault, WcUnsaved, EcFault, Crash, RqFault, LeaseExpires, persistence, vars
<1>5. CASE Time
  BY <1>5 DEF Time
<1>. QED  BY <1>1, <1>2, <1>3, <1>4, <1>5 DEF Next

\* An instance that exists is never made absent.
LEMMA StoreGrows ==
  ASSUME TypeOK, WorkExists, [Next]_vars, NEW w \in Workflows, Exists(w)
  PROVE  Exists(w)'
<1>1. DOMAIN store = Workflows /\ \A v \in Workflows : IsStored(store[v])
  BY DEF TypeOK, ProvidersTypeOK
<1>2. ASSUME NEW h \in Hosts, WcInject(h) PROVE store'[w] # Absent
  BY <1>1, <1>2 DEF WcInject, WorkExists, WcExists, Exists
<1>3. ASSUME NEW h \in Hosts, WcPersist(h) PROVE store'[w] # Absent
  <2>1. IsInstance(wc[h].mem)
    BY <1>3 DEF WcPersist, TypeOK, WcsTypeOK, WcTypeOK, WcWorking
  <2>2. wc[h].mem # Absent
    BY <2>1, AbsentIsNone
  <2>. QED  BY <2>2, <1>1, <1>3 DEF WcPersist, Exists
<1>4. ASSUME NEW h \in Hosts, EcPersist(h) PROVE store'[w] # Absent
  BY <1>1, <1>4 DEF EcPersist, WorkExists, EcExists, Exists
<1>5. ASSUME NEW v, Create(v) PROVE store'[w] # Absent
  BY <1>1, <1>5 DEF Create, Exists
<1>6. ASSUME NEW r \in Requests, RqPersist(r) PROVE store'[w] # Absent
  BY <1>1, <1>6 DEF RqPersist, WorkExists, RqExists, Exists
<1>7. ASSUME NEW v \in Workflows, NEW p, Tick(v, p) PROVE store'[w] # Absent
  <2>1. store' = [store EXCEPT ![v] = Later(store[v], p)]
    BY <1>7 DEF Tick
  <2>2. Later(store[w], p) # Absent
    BY <1>1, LaterType DEF Exists
  <2>. QED  BY <2>1, <2>2, <1>1 DEF Exists
<1>8. ASSUME NEW h \in Hosts, NEW p, WcStartChild(h, p) PROVE store'[w] # Absent
  BY <1>5, <1>8 DEF WcStartChild
<1>9. ASSUME NEW r \in Requests, RqStart(r) PROVE store'[w] # Absent
  BY <1>5, <1>9 DEF RqStart
<1>10. store' = store => store'[w] # Absent
  BY DEF Exists
<1>11. store'[w] # Absent
  BY <1>2, <1>3, <1>4, <1>6, <1>7, <1>8, <1>9, <1>10, StoreWriters
<1>. QED  BY <1>11 DEF Exists

\* A pass's step on one pointer: WorkExists for its consumer.
LEMMA AdvanceExists ==
  ASSUME TypeOK, NEW h \in Hosts, WcExists(h), wc[h].pc \in {"run", "queue_child"},
         \A w \in Workflows : Exists(w) => Exists(w)',
         NEW p, NEW inst, NEW n, NEW new \in Seq(EventSubscription),
         \A i \in DOMAIN new : new[i].w = wc[h].w, Advance(h, p, inst, n, new)
  PROVE  WcExists(h)' /\ \A g \in Hosts \ {h} : wc'[g] = wc[g]
<1>1. /\ DOMAIN wc = Hosts /\ wc[h].w \in Workflows /\ wc[h].new \in Seq(EventSubscription)
      /\ DOMAIN wc[h] = {"pc", "w", "mem", "snap", "todo", "new", "p", "child", "e"}
  BY DEF TypeOK, WcsTypeOK, WcTypeOK
<1>2. /\ wc'[h].pc = "run" /\ wc'[h].w = wc[h].w /\ wc'[h].new = wc[h].new \o new
      /\ \A g \in Hosts \ {h} : wc'[g] = wc[g]
  BY <1>1 DEF Advance
<1>3. \A i \in DOMAIN (wc[h].new \o new) : (wc[h].new \o new)[i].w = wc[h].w
  <2>. SUFFICES ASSUME NEW i \in DOMAIN (wc[h].new \o new)
                PROVE  (wc[h].new \o new)[i].w = wc[h].w
    OBVIOUS
  <2>1. \/ i \in DOMAIN wc[h].new /\ (wc[h].new \o new)[i] = wc[h].new[i]
        \/ i - Len(wc[h].new) \in DOMAIN new
           /\ (wc[h].new \o new)[i] = new[i - Len(wc[h].new)]
    BY <1>1
  <2>. QED  BY <2>1 DEF WcExists
<1>. QED  BY <1>1, <1>2, <1>3 DEF WcExists, Exists

\* The workflow consumer.
LEMMA WcWorkExists ==
  ASSUME TypeOK, WorkExists, NEW h \in Hosts, WorkflowConsumer(h) \/ WcFault(h) \/ WcUnsaved(h),
         \A w \in Workflows : Exists(w) => Exists(w)'
  PROVE  WorkExists'
<1>1. /\ DOMAIN wc = Hosts /\ WcTypeOK(wc[h], Len(events))
      /\ wfQueue \in Seq(Workflows) /\ subs \in Seq(EventSubscription)
      /\ DOMAIN store = Workflows
  BY DEF TypeOK, ProvidersTypeOK, WcsTypeOK
<1>2. /\ DOMAIN wc[h] = {"pc", "w", "mem", "snap", "todo", "new", "p", "child", "e"}
      /\ wc[h].pc # "idle" => wc[h].w \in Workflows
      /\ wc[h].new \in Seq(EventSubscription)
      /\ wc[h].new # <<>> => wc[h].pc \in WcWorking
      /\ wc[h].pc = "queue_child" => wc[h].child \in Workflows /\ wc[h].p \in wc[h].todo
  BY <1>1 DEF WcTypeOK
<1>3. WcExists(h) /\ \A i \in DOMAIN wfQueue : Exists(wfQueue[i])
  BY DEF WorkExists
<1>. DEFINE Frame == /\ \A g \in Hosts \ {h} : wc'[g] = wc[g]
                     /\ ec' = ec /\ rq' = rq
            Idle(c) == c.pc = "idle" /\ c.new = <<>>
            Ended(c) == c.pc \in {"teardown", "release", "requeue"} /\ c.new = <<>> /\ c.w = wc[h].w
<1>4. ASSUME Frame, subs' = subs, WcExists(h)',
             \/ wfQueue' = wfQueue
             \/ \E x \in Workflows : wfQueue' = Append(wfQueue, x) /\ Exists(x)'
      PROVE  WorkExists'
  BY <1>4, Grown DEF WorkExists
<1>5. /\ Idle(IdleWc) /\ (Idle(Executed(h)) \/ Ended(Executed(h)))
      /\ Ended([IdleWc EXCEPT !.pc = "release", !.w = wc[h].w])
      /\ Ended([IdleWc EXCEPT !.pc = "requeue", !.w = wc[h].w])
  BY DEF IdleWc, Executed
<1>6. ASSUME Idle(wc'[h]) \/ (Ended(wc'[h]) /\ wc[h].pc # "idle")
      PROVE  WcExists(h)'
  BY <1>2, <1>3, <1>6 DEF WcExists, Exists
<1>7. ASSUME WcDrop(h) \/ WcTeardown(h) \/ WcBusy(h) \/ WcRelease(h)
      PROVE  WorkExists'
  <2>1. /\ Frame /\ subs' = subs /\ wfQueue' = wfQueue /\ wc[h].pc # "idle"
        /\ wc'[h] = IdleWc \/ wc'[h] = Executed(h)
    BY <1>1, <1>7 DEF WcDrop, WcTeardown, WcBusy, WcRelease, persistence, queues
  <2>. QED  BY <2>1, <1>4, <1>5, <1>6
<1>8. ASSUME WcBounce(h) PROVE WorkExists'
  <2>1. /\ Frame /\ subs' = subs /\ wc[h].pc # "idle" /\ wc'[h] = IdleWc
        /\ wfQueue' = Append(wfQueue, wc[h].w) /\ store' = store
    BY <1>1, <1>8 DEF WcBounce, persistence
  <2>. DEFINE x == wc[h].w
  <2>2. x \in Workflows /\ store'[x] # Absent
    BY <2>1, <1>2, <1>3 DEF WcExists, Exists
  <2>3. WcExists(h)'
    BY <2>1, <1>5, <1>6
  <2>4. \E y \in Workflows : wfQueue' = Append(wfQueue, y) /\ Exists(y)'
    BY <2>1, <2>2 DEF Exists
  <2>. QED  BY <2>1, <2>3, <2>4, <1>4
<1>9. ASSUME WcDequeue(h) PROVE WorkExists'
  <2>1. /\ Frame /\ subs' = subs /\ store' = store /\ wfQueue # <<>> /\ wfQueue' = Tail(wfQueue)
        /\ wc'[h].pc = "check" /\ wc'[h].w = Head(wfQueue) /\ wc'[h].new = wc[h].new
        /\ wc[h].pc = "idle"
    BY <1>1, <1>2, <1>9 DEF WcDequeue, persistence
  <2>2. wc[h].new = <<>>
    BY <2>1, <1>2 DEF WcWorking
  <2>3. Exists(Head(wfQueue)) /\ \A i \in DOMAIN Tail(wfQueue) : Exists(Tail(wfQueue)[i])
    <3>1. Head(wfQueue) = wfQueue[1] /\ 1 \in DOMAIN wfQueue
      BY <2>1, <1>1
    <3>2. \A i \in DOMAIN Tail(wfQueue) : i + 1 \in DOMAIN wfQueue /\ Tail(wfQueue)[i] = wfQueue[i + 1]
      BY <2>1, <1>1
    <3>. QED  BY <3>1, <3>2, <1>3
  <2>4. WcExists(h)'
    BY <2>1, <2>2, <2>3 DEF WcExists, Exists
  <2>5. \A i \in DOMAIN wfQueue' : Exists(wfQueue[i])'
    BY <2>1, <2>3 DEF Exists
  <2>. QED  BY <2>1, <2>4, <2>5, Grown DEF WorkExists
<1>10. ASSUME WcAccept(h) \/ WcProvision(h) \/ WcInjectLoad(h) \/ WcInject(h)
              \/ WcAcquire(h) \/ WcLoad(h) \/ WcConclude(h) \/ WcUnsaved(h) \/ WcAnnounce(h)
       PROVE  WorkExists'
  <2>1. /\ Frame /\ subs' = subs /\ wfQueue' = wfQueue /\ wc[h].pc # "idle"
        /\ wc'[h].w = wc[h].w /\ wc'[h].new = wc[h].new
        /\ wc'[h].pc # "queue_child"
    BY <1>1, <1>2, <1>10 DEF WcAccept, WcProvision, WcInjectLoad, WcInject, WcAcquire, WcLoad,
       WcConclude, WcUnsaved, WcAnnounce, persistence, queues
  <2>2. wc'[h].pc = "inject" => wc'[h].mem = store[wc[h].w]
    BY <1>1, <1>2, <1>10 DEF WcAccept, WcProvision, WcInjectLoad, WcInject, WcAcquire, WcLoad,
       WcConclude, WcUnsaved, WcAnnounce
  <2>3. WcExists(h)'
    BY <2>1, <2>2, <1>2, <1>3 DEF WcExists, Exists
  <2>. QED  BY <2>1, <2>3, <1>4
<1>11. ASSUME NEW p \in wc[h].todo, WcRun(h, p) PROVE WorkExists'
  <2>1. PICK r \in StepResults(DefAt(h), wc[h].mem.ptrs, p) :
          AdvanceWith(h, p, r,
            IF r.kind = "event"
            THEN <<Subscription(wc[h].w, p, StepAt(h, p).value, Len(events))>> ELSE <<>>)
    BY <1>11 DEF WcRun
  <2>. DEFINE sub == Subscription(wc[h].w, p, StepAt(h, p).value, Len(events))
              new == IF r.kind = "event" THEN <<sub>> ELSE <<>>
  <2>2. wc[h].pc = "run" /\ HasStep(h, p)
    BY <1>11 DEF WcRun, OnTurn
  <2>3. StepAt(h, p).value \in Value
    BY <2>2, OnTurnType DEF StepAt, HasStep, IsDefinition, WorkflowStep
  <2>4. sub \in EventSubscription /\ sub.w = wc[h].w
    <3>1. Len(events) \in Nat
      BY DEF TypeOK, ProvidersTypeOK
    <3>. QED  BY <3>1, <2>2, <2>3, OnTurnType DEF Subscription, EventSubscription
  <2>. HIDE DEF sub
  <2>5. new \in Seq(EventSubscription) /\ \A i \in DOMAIN new : new[i].w = wc[h].w
    BY <2>4
  <2>. HIDE DEF new
  <2>6. AdvanceWith(h, p, r, new)
    BY <2>1 DEF new, sub
  <2>7. WcExists(h)' /\ \A g \in Hosts \ {h} : wc'[g] = wc[g]
    BY <2>2, <2>5, <2>6, <1>3, AdvanceExists DEF AdvanceWith
  <2>8. subs' = subs /\ wfQueue' = wfQueue /\ ec' = ec /\ rq' = rq
    BY <1>11 DEF WcRun, persistence, queues
  <2>. QED  BY <2>7, <2>8, <1>4
<1>12. ASSUME NEW p \in wc[h].todo, WcSkip(h, p) PROVE WorkExists'
  <2>1. <<>> \in Seq(EventSubscription) /\ \A i \in DOMAIN <<>> : <<>>[i].w = wc[h].w
    OBVIOUS
  <2>2. WcExists(h)' /\ \A g \in Hosts \ {h} : wc'[g] = wc[g]
    BY <2>1, <1>3, <1>12, AdvanceExists DEF WcSkip, OnTurn
  <2>3. subs' = subs /\ wfQueue' = wfQueue /\ ec' = ec /\ rq' = rq
    BY <1>12 DEF WcSkip, persistence, queues
  <2>. QED  BY <2>2, <2>3, <1>4
<1>13. ASSUME NEW p \in wc[h].todo, WcAbort(h, p) PROVE WorkExists'
  <2>1. /\ Frame /\ subs' = subs /\ wfQueue' = wfQueue /\ wc[h].pc # "idle"
        /\ wc'[h] = [IdleWc EXCEPT !.pc = "release", !.w = wc[h].w]
    BY <1>1, <1>13 DEF WcAbort, OnTurn, persistence, queues
  <2>. QED  BY <2>1, <1>4, <1>5, <1>6
<1>14. ASSUME NEW p \in wc[h].todo, WcStartChild(h, p) PROVE WorkExists'
  <2>1. PICK c \in Children[wc[h].w] :
          /\ Create(c)
          /\ wc' = [wc EXCEPT ![h].pc = "queue_child", ![h].p = p, ![h].child = c]
    BY <1>14 DEF WcStartChild
  <2>2. wc[h].pc = "run"
    BY <1>14 DEF WcStartChild, OnTurn
  <2>3. c \in Workflows /\ IsDefinition(DefOf[c])
    BY <2>1, <2>2, <1>2, SetsAssumption
  <2>4. store'[c] # Absent
    <3>1. IsInstance(NewInstance(DefOf[c]))  BY <2>3, NewInstanceType
    <3>2. store'[c] = NewInstance(DefOf[c])  BY <2>1, <2>3, <1>1 DEF Create
    <3>. QED  BY <3>1, <3>2, AbsentIsNone
  <2>5. WcExists(h)' /\ \A g \in Hosts \ {h} : wc'[g] = wc[g]
    BY <2>1, <2>2, <2>4, <1>1, <1>2, <1>3 DEF WcExists, Exists
  <2>6. subs' = subs /\ wfQueue' = wfQueue /\ ec' = ec /\ rq' = rq
    BY <1>14 DEF WcStartChild, queues
  <2>. QED  BY <2>5, <2>6, <1>4
<1>15. ASSUME WcQueueChild(h) PROVE WorkExists'
  <2>. DEFINE sub == Subscription(wc[h].w, wc[h].p, wc[h].child, Len(events))
  <2>1. /\ wc[h].pc = "queue_child" /\ wfQueue' = Append(wfQueue, wc[h].child)
        /\ AdvanceWith(h, wc[h].p, wait_for_event, <<sub>>)
        /\ store' = store /\ subs' = subs /\ ec' = ec /\ rq' = rq
    BY <1>15 DEF WcQueueChild, persistence
  <2>2. sub \in EventSubscription /\ sub.w = wc[h].w
    <3>1. Len(events) \in Nat
      BY DEF TypeOK, ProvidersTypeOK
    <3>. QED  BY <3>1, <2>1, <1>2, OnTurnType DEF Subscription, EventSubscription
  <2>. HIDE DEF sub
  <2>3. <<sub>> \in Seq(EventSubscription) /\ \A i \in DOMAIN <<sub>> : <<sub>>[i].w = wc[h].w
    BY <2>2
  <2>4. WcExists(h)' /\ \A g \in Hosts \ {h} : wc'[g] = wc[g]
    BY <2>1, <2>3, <1>3, AdvanceExists DEF AdvanceWith
  <2>5. wc[h].child \in Workflows /\ store'[wc[h].child] # Absent
    BY <2>1, <1>2, <1>3 DEF WcExists, Exists
  <2>6. \E y \in Workflows : wfQueue' = Append(wfQueue, y) /\ Exists(y)'
    BY <2>1, <2>5 DEF Exists
  <2>. QED  BY <2>1, <2>4, <2>6, <1>4
<1>16. ASSUME WcPersist(h) PROVE WorkExists'
  <2>1. /\ Frame /\ wfQueue' = wfQueue /\ subs' = subs \o wc[h].new /\ wc[h].pc = "persist"
        /\ Ended(wc'[h])
    BY <1>1, <1>5, <1>16 DEF WcPersist, queues
  <2>2. WcExists(h)'
    BY <2>1, <1>6
  <2>3. store'[wc[h].w] # Absent
    BY <2>1, <1>2, <1>3 DEF WcExists, Exists
  <2>4. \A s \in DOMAIN subs' : subs'[s].w \in Workflows /\ (Exists(subs'[s].w) \/ subs'[s].w = wc[h].w)
    <3>. SUFFICES ASSUME NEW s \in DOMAIN subs'
                  PROVE  subs'[s].w \in Workflows /\ (Exists(subs'[s].w) \/ subs'[s].w = wc[h].w)
      OBVIOUS
    <3>1. \/ s \in DOMAIN subs /\ subs'[s] = subs[s]
          \/ s - Len(subs) \in DOMAIN wc[h].new /\ subs'[s] = wc[h].new[s - Len(subs)]
      BY <2>1, <1>1, <1>2
    <3>2. subs'[s] \in EventSubscription
      BY <3>1, <1>1, <1>2, ElementOfSeq
    <3>. QED  BY <3>1, <3>2, <1>3 DEF WorkExists, WcExists, EventSubscription
  <2>5. \A s \in DOMAIN subs' : Exists(subs[s].w)'
    <3>. SUFFICES ASSUME NEW s \in DOMAIN subs' PROVE Exists(subs[s].w)'
      OBVIOUS
    <3>. DEFINE v == subs'[s].w
    <3>1. v \in Workflows /\ (Exists(v) \/ v = wc[h].w)
      BY <2>4
    <3>2. store'[v] # Absent
      BY <3>1, <2>3 DEF Exists
    <3>. QED  BY <3>2 DEF Exists
  <2>. QED  BY <2>1, <2>2, <2>5, Grown DEF WorkExists
<1>17. ASSUME WcRequeue(h) PROVE WorkExists'
  <2>1. /\ Frame /\ subs' = subs /\ store' = store /\ wc[h].pc = "requeue"
        /\ wfQueue' = Append(wfQueue, wc[h].w)
        /\ wc'[h].pc = "release" /\ wc'[h].w = wc[h].w /\ wc'[h].new = wc[h].new
    BY <1>1, <1>2, <1>17 DEF WcRequeue, persistence
  <2>2. wc[h].w \in Workflows /\ Exists(wc[h].w)'
    BY <2>1, <1>2, <1>3 DEF WcExists, Exists
  <2>3. WcExists(h)'
    BY <2>1, <1>2, <1>3 DEF WcExists, Exists
  <2>. QED  BY <2>1, <2>2, <2>3, <1>4
<1>18. ASSUME WcFault(h) PROVE WorkExists'
  <2>1. subs' = subs /\ wfQueue' = wfQueue /\ ec' = ec /\ rq' = rq
    BY <1>18 DEF WcFault, persistence, queues
  <2>2. CASE wc[h].pc = "queue_child"
    <3>1. AdvanceWith(h, wc[h].p, failure, <<>>)
      BY <2>2, <1>18 DEF WcFault
    <3>2. <<>> \in Seq(EventSubscription) /\ \A i \in DOMAIN <<>> : <<>>[i].w = wc[h].w
      OBVIOUS
    <3>3. WcExists(h)' /\ \A g \in Hosts \ {h} : wc'[g] = wc[g]
      BY <3>1, <3>2, <2>2, <1>3, AdvanceExists DEF AdvanceWith
    <3>. QED  BY <3>3, <2>1, <1>4
  <2>3. CASE wc[h].pc = "announce"
    <3>1. /\ \A g \in Hosts \ {h} : wc'[g] = wc[g]
          /\ wc'[h].pc = "persist" /\ wc'[h].w = wc[h].w /\ wc'[h].new = wc[h].new
      BY <2>3, <1>1, <1>2, <1>18 DEF WcFault
    <3>2. WcExists(h)'
      BY <3>1, <2>3, <1>2, <1>3 DEF WcExists, Exists
    <3>. QED  BY <3>1, <3>2, <2>1, <1>4
  <2>4. CASE wc[h].pc \notin {"queue_child", "announce"}
    <3>1. /\ \A g \in Hosts \ {h} : wc'[g] = wc[g]
          /\ wc[h].pc # "idle"
          /\ \/ wc'[h] = IdleWc \/ wc'[h] = Executed(h)
             \/ wc'[h] = [IdleWc EXCEPT !.pc = "release", !.w = wc[h].w]
      BY <2>4, <1>1, <1>18 DEF WcFault
    <3>. QED  BY <3>1, <2>1, <1>4, <1>5, <1>6
  <2>. QED  BY <2>2, <2>3, <2>4
<1>. QED
  BY <1>7, <1>8, <1>9, <1>10, <1>11, <1>12, <1>13, <1>14, <1>15, <1>16, <1>17, <1>18
     DEF WorkflowConsumer

\* The event consumer.
LEMMA EcWorkExists ==
  ASSUME TypeOK, WorkExists, NEW h \in Hosts, EventConsumer(h) \/ EcFault(h),
         \A w \in Workflows : Exists(w) => Exists(w)'
  PROVE  WorkExists'
<1>1. /\ DOMAIN ec = Hosts /\ EcTypeOK(ec[h], Len(events), DOMAIN subs)
      /\ subs \in Seq(EventSubscription)
      /\ DOMAIN ec[h] = {"pc", "e", "todo", "s", "w", "mem", "snap", "ok"}
      /\ ec[h].pc \in EcHolding => ec[h].w \in Workflows
  BY DEF TypeOK, ProvidersTypeOK, EcsTypeOK, EcTypeOK
<1>2. EcExists(h)
  BY DEF WorkExists
<1>3. \A s \in DOMAIN subs : subs[s] \in EventSubscription /\ subs[s].w \in Workflows
  <2>1. \A s \in DOMAIN subs : subs[s] \in EventSubscription  BY <1>1, ElementOfSeq
  <2>. QED  BY <2>1 DEF EventSubscription
<1>. DEFINE Frame == /\ \A g \in Hosts \ {h} : ec'[g] = ec[g]
                     /\ wc' = wc /\ rq' = rq
<1>4. ASSUME Frame, subs' = subs, wfQueue' = wfQueue, EcExists(h)'
      PROVE  WorkExists'
  BY <1>4, Grown DEF WorkExists
<1>5. IdleEc.pc = "idle"
  BY DEF IdleEc
<1>6. ASSUME EcDequeue(h) \/ EcLookup(h) \/ EcDone(h) \/ EcRelease(h)
             \/ \E s \in ec[h].todo : EcBusy(h, s)
      PROVE  WorkExists'
  <2>1. Frame /\ subs' = subs /\ wfQueue' = wfQueue
    BY <1>1, <1>6 DEF EcDequeue, EcLookup, EcDone, EcRelease, EcBusy, persistence, queues
  <2>2. ec'[h].pc \in {"idle", "lookup", "next"}
    <3>1. CASE EcDequeue(h) \/ EcLookup(h) \/ EcDone(h)
      BY <1>1, <1>5, <3>1 DEF EcDequeue, EcLookup, EcDone, IdleEc
    <3>2. CASE EcRelease(h)
      BY <1>1, <1>5, <3>2 DEF EcRelease, IdleEc
    <3>3. CASE \E s \in ec[h].todo : EcBusy(h, s)
      BY <1>1, <1>5, <3>3 DEF EcBusy, IdleEc
    <3>. QED  BY <1>6, <3>1, <3>2, <3>3
  <2>3. EcExists(h)'
    BY <2>2 DEF EcExists, EcHolding
  <2>. QED  BY <2>1, <2>3, <1>4
<1>7. ASSUME NEW s \in ec[h].todo, EcAcquire(h, s) PROVE WorkExists'
  <2>1. s \in DOMAIN subs
    BY <1>1 DEF EcTypeOK
  <2>2. /\ Frame /\ subs' = subs /\ wfQueue' = wfQueue /\ store' = store
        /\ ec'[h].pc = "load" /\ ec'[h].w = subs[s].w
    BY <1>1, <1>7 DEF EcAcquire, persistence, queues
  <2>3. EcExists(h)'
    BY <2>1, <2>2 DEF EcExists, WorkExists, Exists
  <2>. QED  BY <2>2, <2>3, <1>4
<1>8. ASSUME EcLoad(h) PROVE WorkExists'
  <2>1. /\ Frame /\ subs' = subs /\ wfQueue' = wfQueue /\ store' = store
        /\ ec'[h].w = ec[h].w /\ ec[h].pc = "load"
        /\ ec'[h].mem = Delivered(store[ec[h].w], subs[ec[h].s].ptr)
    BY <1>1, <1>8 DEF EcLoad, persistence, queues
  <2>2. ec[h].w \in Workflows /\ store[ec[h].w] # Absent
    BY <2>1, <1>1, <1>2 DEF EcExists, EcHolding, Exists
  <2>3. ec'[h].mem # Absent
    <3>1. IsStored(store[ec[h].w])  BY <2>2 DEF TypeOK, ProvidersTypeOK
    <3>. QED  BY <3>1, <2>1, <2>2, DeliveredType
  <2>4. EcExists(h)'
    BY <2>1, <2>2, <2>3 DEF EcExists, Exists
  <2>. QED  BY <2>1, <2>4, <1>4
<1>9. ASSUME EcPersist(h) \/ EcFault(h) PROVE WorkExists'
  <2>1. Frame /\ subs' = subs /\ wfQueue' = wfQueue
    BY <1>1, <1>9 DEF EcPersist, EcFault, persistence, queues
  <2>2. \/ ec'[h].pc = "idle"
        \/ /\ ec'[h].pc \in {"queue", "release"} /\ ec'[h].w = ec[h].w
           /\ ec[h].pc \in EcHolding
    BY <1>1, <1>5, <1>9 DEF EcPersist, EcFault, EcHolding
  <2>3. EcExists(h)'
    BY <2>2, <1>1, <1>2 DEF EcExists, EcHolding, Exists
  <2>. QED  BY <2>1, <2>3, <1>4
<1>10. ASSUME EcQueue(h) PROVE WorkExists'
  <2>1. /\ Frame /\ subs' = subs /\ store' = store /\ wfQueue' = Append(wfQueue, ec[h].w)
        /\ ec[h].pc = "queue" /\ ec'[h].pc = "terminate" /\ ec'[h].w = ec[h].w
    BY <1>1, <1>10 DEF EcQueue, persistence
  <2>2. ec[h].w \in Workflows /\ store'[ec[h].w] # Absent
    BY <2>1, <1>1, <1>2 DEF EcExists, EcHolding, Exists
  <2>3. EcExists(h)'
    BY <2>1, <2>2 DEF EcExists, Exists
  <2>4. \E y \in Workflows : wfQueue' = Append(wfQueue, y) /\ Exists(y)'
    BY <2>1, <2>2 DEF Exists
  <2>. QED  BY <2>1, <2>3, <2>4, Grown DEF WorkExists
<1>11. ASSUME EcTerminate(h) PROVE WorkExists'
  <2>. DEFINE s == ec[h].s
  <2>1. /\ Frame /\ store' = store /\ wfQueue' = wfQueue
        /\ ec[h].pc = "terminate" /\ ec'[h].pc = "release" /\ ec'[h].w = ec[h].w
        /\ subs' = [subs EXCEPT ![s] = [subs[s] EXCEPT !.open = FALSE]]
    BY <1>1, <1>11 DEF EcTerminate, queues
  <2>2. s \in DOMAIN subs
    BY <2>1, <1>1 DEF EcTypeOK, EcHolding
  <2>3. [subs[s] EXCEPT !.open = FALSE].w = subs[s].w
    BY <2>2, <1>3 DEF EventSubscription
  <2>4. DOMAIN subs' = DOMAIN subs /\ \A i \in DOMAIN subs' : subs'[i].w = subs[i].w
    BY <2>1, <2>2, <2>3
  <2>5. EcExists(h)'
    BY <2>1, <1>2 DEF EcExists, EcHolding, Exists
  <2>6. \A i \in DOMAIN subs' : Exists(subs[i].w)'
    BY <2>1, <2>4 DEF WorkExists, Exists
  <2>. QED  BY <2>1, <2>5, <2>6, Grown DEF WorkExists
<1>. QED
  BY <1>6, <1>7, <1>8, <1>9, <1>10, <1>11 DEF EventConsumer

\* Requests.
LEMMA RqWorkExists ==
  ASSUME TypeOK, WorkExists, NEW r \in Requests, Request(r) \/ RqFault(r),
         \A w \in Workflows : Exists(w) => Exists(w)'
  PROVE  WorkExists'
<1>1. /\ DOMAIN rq = Requests /\ DOMAIN store = Workflows
      /\ DOMAIN rq[r] = {"pc", "mem", "e"}
      /\ r.op # "publish" => r.on \in Workflows
  BY RequestsAssumption DEF TypeOK, ProvidersTypeOK, RqsTypeOK, RqTypeOK
<1>2. RqExists(r)
  BY DEF WorkExists
<1>. DEFINE Frame == /\ \A q \in Requests \ {r} : rq'[q] = rq[q]
                     /\ wc' = wc /\ ec' = ec /\ subs' = subs
<1>3. Frame
  BY <1>1 DEF Request, RqStart, RqPublish, RqLoad, RqPersist, RqQueue, RqFault, persistence
<1>4. ASSUME wfQueue' = wfQueue, RqExists(r)' PROVE WorkExists'
  BY <1>3, <1>4, Grown DEF WorkExists
<1>5. [NewRq EXCEPT !.pc = "done"].pc = "done" /\ [NewRq EXCEPT !.pc = "queue"].pc = "queue"
  BY DEF NewRq
<1>6. ASSUME RqStart(r) PROVE WorkExists'
  <2>1. /\ wfQueue' = wfQueue /\ rq'[r].pc = "queue" /\ r.op = "start"
        /\ store' = [store EXCEPT ![r.on] = NewInstance(DefOf[r.on])]
    BY <1>1, <1>6 DEF RqStart, Create, queues
  <2>2. IsInstance(NewInstance(DefOf[r.on]))
    BY <2>1, <1>1, SetsAssumption, NewInstanceType
  <2>3. store'[r.on] # Absent
    BY <2>1, <2>2, <1>1, AbsentIsNone
  <2>. QED  BY <2>1, <2>3, <1>4 DEF RqExists, Exists
<1>7. ASSUME RqPublish(r) PROVE WorkExists'
  BY <1>1, <1>4, <1>7 DEF RqPublish, RqExists, queues
<1>8. ASSUME RqLoad(r) PROVE WorkExists'
  <2>1. /\ wfQueue' = wfQueue /\ store' = store /\ store[r.on] # Absent /\ r.on \in Workflows
        /\ \/ /\ rq'[r].pc = "persist"
              /\ rq'[r].mem = [store[r.on] EXCEPT !.status = To(r.op)]
           \/ rq'[r].pc = "done"
    BY <1>1, <1>5, <1>8 DEF RqLoad, persistence, queues
  <2>2. IsInstance(store[r.on])
    BY <2>1 DEF TypeOK, ProvidersTypeOK, IsStored
  <2>3. IsInstance([store[r.on] EXCEPT !.status = To(r.op)])
    <3>1. To(r.op) \in WorkflowStatus  BY DEF To, WorkflowStatus
    <3>. QED  BY <3>1, <2>2, StatusType
  <2>4. rq'[r].pc = "persist" => rq'[r].mem # Absent
    BY <2>1, <2>3, AbsentIsNone
  <2>. QED  BY <2>1, <2>4, <1>4 DEF RqExists, Exists
<1>9. ASSUME RqPersist(r) PROVE WorkExists'
  <2>1. /\ wfQueue' = wfQueue /\ rq[r].pc = "persist"
        /\ store' = [store EXCEPT ![r.on] = rq[r].mem]
        /\ rq'[r].pc \in {"queue", "done"}
    BY <1>1, <1>5, <1>9 DEF RqPersist, queues
  <2>2. store'[r.on] # Absent
    BY <2>1, <1>2 DEF RqExists, Exists
  <2>. QED  BY <2>1, <2>2, <1>4 DEF RqExists, Exists
<1>10. ASSUME RqQueue(r) PROVE WorkExists'
  <2>1. rq'[r].pc = "done" /\ store' = store
    BY <1>1, <1>5, <1>10 DEF RqQueue, persistence
  <2>2. RqExists(r)'
    BY <2>1 DEF RqExists
  <2>3. CASE r.op = "publish"
    BY <2>2, <2>3, <1>4, <1>10 DEF RqQueue
  <2>4. CASE r.op # "publish"
    <3>1. \E y \in Workflows : wfQueue' = Append(wfQueue, y) /\ Exists(y)'
      BY <2>1, <2>4, <1>1, <1>2, <1>10 DEF RqQueue, RqExists, Exists
    <3>. QED  BY <3>1, <2>2, <1>3, Grown DEF WorkExists
  <2>. QED  BY <2>3, <2>4
<1>11. ASSUME RqFault(r) PROVE WorkExists'
  BY <1>1, <1>4, <1>5, <1>11 DEF RqFault, RqExists, queues
<1>. QED  BY <1>6, <1>7, <1>8, <1>9, <1>10, <1>11 DEF Request

\* Every step.
LEMMA WorkExistsNext ==
  ASSUME TypeOK, WorkExists, [Next]_vars
  PROVE  WorkExists'
<1>1. \A w \in Workflows : Exists(w) => Exists(w)'
  BY StoreGrows
<1>2. ASSUME NEW h \in Hosts, WorkflowConsumer(h) \/ WcFault(h) \/ WcUnsaved(h) PROVE WorkExists'
  BY <1>1, <1>2, WcWorkExists
<1>3. ASSUME NEW h \in Hosts, EventConsumer(h) \/ EcFault(h) PROVE WorkExists'
  BY <1>1, <1>3, EcWorkExists
<1>4. ASSUME NEW r \in Requests, Request(r) \/ RqFault(r) PROVE WorkExists'
  BY <1>1, <1>4, RqWorkExists
<1>5. ASSUME NEW h \in Hosts, Crash(h) PROVE WorkExists'
  <2>1. DOMAIN wc = Hosts /\ DOMAIN ec = Hosts
    BY DEF TypeOK, WcsTypeOK, EcsTypeOK
  <2>2. /\ wfQueue' = wfQueue /\ subs' = subs /\ rq' = rq
        /\ wc'[h] = IdleWc /\ ec'[h] = IdleEc
        /\ \A g \in Hosts \ {h} : wc'[g] = wc[g] /\ ec'[g] = ec[g]
    BY <2>1, <1>5 DEF Crash, persistence, queues
  <2>3. WcExists(h)' /\ EcExists(h)'
    BY <2>2 DEF WcExists, EcExists, IdleWc, IdleEc, EcHolding
  <2>. QED  BY <2>2, <2>3, <1>1, Grown DEF WorkExists
<1>6. ASSUME NEW w \in Workflows, NEW p, Tick(w, p) PROVE WorkExists'
  <2>1. wfQueue' = wfQueue /\ subs' = subs
    BY <1>6 DEF Tick, queues
  <2>2. ASSUME NEW h \in Hosts PROVE WcExists(h)' /\ EcExists(h)'
    <3>1. WcExists(h) /\ EcExists(h) /\ IsStored(wc[h].mem) /\ IsStored(ec[h].mem)
      BY DEF WorkExists, TypeOK, WcsTypeOK, EcsTypeOK, WcTypeOK, EcTypeOK
    <3>2. /\ wc[h].pc # "idle" => wc[h].w \in Workflows
          /\ wc[h].pc = "queue_child" => wc[h].child \in Workflows
          /\ ec[h].pc \in EcHolding => ec[h].w \in Workflows
      BY DEF TypeOK, WcsTypeOK, EcsTypeOK, WcTypeOK, EcTypeOK
    <3>3. /\ wc'[h].pc = wc[h].pc /\ wc'[h].w = wc[h].w /\ wc'[h].new = wc[h].new
          /\ wc'[h].child = wc[h].child /\ ec'[h].pc = ec[h].pc /\ ec'[h].w = ec[h].w
      BY <1>6, TickFrame
    <3>4. /\ wc'[h].mem = wc[h].mem \/ wc'[h].mem = Later(wc[h].mem, p)
          /\ ec'[h].mem = ec[h].mem \/ ec'[h].mem = Later(ec[h].mem, p)
      BY <1>6, TickFrame
    <3>5. /\ wc[h].mem # Absent => wc'[h].mem # Absent
          /\ ec[h].mem # Absent => ec'[h].mem # Absent
      BY <3>1, <3>4, LaterType
    <3>. QED  BY <3>1, <3>2, <3>3, <3>5, <1>1 DEF WcExists, EcExists, Exists
  <2>3. ASSUME NEW r \in Requests PROVE RqExists(r)'
    <3>1. /\ RqExists(r) /\ IsStored(rq[r].mem) /\ DOMAIN rq[r] = {"pc", "mem", "e"}
          /\ rq[r].pc = "persist" => r.op # "publish"
      BY DEF WorkExists, TypeOK, RqsTypeOK, RqTypeOK
    <3>2. r.op # "publish" => r.on \in Workflows
      BY RequestsAssumption
    <3>3. rq'[r] = IF r.on = w THEN [rq[r] EXCEPT !.mem = Later(rq[r].mem, p)] ELSE rq[r]
      BY <1>6 DEF Tick
    <3>4. rq'[r].pc = rq[r].pc /\ (rq'[r].mem = rq[r].mem \/ rq'[r].mem = Later(rq[r].mem, p))
      BY <3>1, <3>3
    <3>5. rq[r].mem # Absent => rq'[r].mem # Absent
      BY <3>1, <3>4, LaterType
    <3>. QED  BY <3>1, <3>2, <3>4, <3>5, <1>1 DEF RqExists, Exists
  <2>. QED  BY <2>1, <2>2, <2>3, <1>1, Grown DEF WorkExists
<1>7. ASSUME UNCHANGED <<wfQueue, subs, wc, ec, rq>> PROVE WorkExists'
  BY <1>1, <1>7, Grown DEF WorkExists
<1>8. ASSUME NEW w \in Workflows, LeaseExpires(w) PROVE WorkExists'
  BY <1>7, <1>8 DEF LeaseExpires, persistence, queues
<1>9. UNCHANGED vars => WorkExists'
  BY <1>7 DEF vars
<1>. QED
  BY <1>2, <1>3, <1>4, <1>5, <1>6, <1>8, <1>9 DEF Next, Time

\* No queue item, subscription, consumer or request ever refers to an instance
\* that is not in the store: start_workflow stores an instance before it queues
\* it, and nothing removes one, whatever crashes in between.
THEOREM WorkRefersToInstances == Spec => []WorkExists
<1>1. Init => WorkExists
  BY DEF Init, WorkExists, WcExists, EcExists, RqExists, IdleWc, IdleEc, NewRq, EcHolding
<1>2. TypeOK /\ WorkExists /\ [Next]_vars => WorkExists'
  BY WorkExistsNext
<1>. QED  BY <1>1, <1>2, TypesKept, PTL DEF Spec
-----------------------------------------------------------------------------
(* NoLostUpdate.                                                           *)

\* NoLostUpdate of one host, and what it has loaded under a lock.
WcFresh(h) == wc[h].pc \in WcWorking => dirty[wc[h].w] \/ wc[h].snap = store[wc[h].w]
EcFresh(h) == ec[h].pc = "persist" => dirty[ec[h].w] \/ ec[h].snap = store[ec[h].w]
WcCopy(h) == <<wc[h].w, wc[h].snap>>
EcCopy(h) == <<ec[h].w, ec[h].snap>>

\* A copy stays fresh when it is kept and nothing, or nothing but an instance v
\* that it is no copy of or that becomes dirty, is written.
LEMMA CopyKept ==
  ASSUME TypeOK, NoLostUpdate, NEW h \in Hosts, NEW v,
         \A w \in Workflows : w # v => store'[w] = store[w] /\ dirty'[w] = dirty[w]
  PROVE  /\ /\ wc'[h].pc \in WcWorking => wc[h].pc \in WcWorking /\ WcCopy(h)' = WcCopy(h)
            /\ wc'[h].pc \in WcWorking /\ wc[h].w = v => dirty'[v]
            => WcFresh(h)'
         /\ /\ ec'[h].pc = "persist" => ec[h].pc = "persist" /\ EcCopy(h)' = EcCopy(h)
            /\ ec'[h].pc = "persist" /\ ec[h].w = v => dirty'[v]
            => EcFresh(h)'
<1>1. /\ wc[h].pc \in WcWorking => wc[h].w \in Workflows
      /\ ec[h].pc = "persist" => ec[h].w \in Workflows
  BY DEF TypeOK, WcsTypeOK, EcsTypeOK, WcTypeOK, EcTypeOK, WcWorking, EcHolding
<1>2. WcFresh(h) /\ EcFresh(h)
  BY DEF NoLostUpdate, WcFresh, EcFresh
<1>. QED  BY <1>1, <1>2 DEF WcFresh, EcFresh, WcCopy, EcCopy

\* A step of the workflow consumer other than WcLoad keeps the copy or ends the
\* pass; WcPersist ends it.
LEMMA WcKeepsCopy ==
  ASSUME TypeOK, NEW h \in Hosts, WorkflowConsumer(h) \/ WcFault(h) \/ WcUnsaved(h)
  PROVE  /\ \A g \in Hosts \ {h} : wc'[g] = wc[g]
         /\ ec' = ec
         /\ wc'[h].pc \in WcWorking /\ ~WcLoad(h) =>
              ~WcPersist(h) /\ wc[h].pc \in WcWorking /\ WcCopy(h)' = WcCopy(h)
<1>1. DOMAIN wc = Hosts
  BY DEF TypeOK, WcsTypeOK
<1>2. DOMAIN wc[h] = {"pc", "w", "mem", "snap", "todo", "new", "p", "child", "e"}
  BY DEF TypeOK, WcsTypeOK, WcTypeOK
<1>3. IdleWc.pc \notin WcWorking /\ Executed(h).pc \notin WcWorking
  BY DEF IdleWc, Executed, WcWorking
<1>4. /\ [IdleWc EXCEPT !.pc = "release", !.w = wc[h].w].pc \notin WcWorking
      /\ [IdleWc EXCEPT !.pc = "requeue", !.w = wc[h].w].pc \notin WcWorking
  BY DEF IdleWc, WcWorking
<1>. DEFINE G == /\ \A g \in Hosts \ {h} : wc'[g] = wc[g]
                 /\ ec' = ec
                 /\ wc'[h].pc \in WcWorking /\ ~WcLoad(h) =>
                      ~WcPersist(h) /\ wc[h].pc \in WcWorking /\ WcCopy(h)' = WcCopy(h)
<1>5. CASE WcDequeue(h) \/ WcDrop(h) \/ WcBounce(h) \/ WcAccept(h) \/ WcProvision(h)
           \/ WcInjectLoad(h) \/ WcInject(h) \/ WcTeardown(h) \/ WcBusy(h)
           \/ WcAcquire(h) \/ WcRequeue(h) \/ WcRelease(h)
  <2>1. (\A g \in Hosts \ {h} : wc'[g] = wc[g]) /\ ec' = ec
    BY <1>1, <1>5 DEF WcDequeue, WcDrop, WcBounce, WcAccept, WcProvision,
       WcInjectLoad, WcInject, WcTeardown, WcBusy, WcAcquire, WcRequeue, WcRelease
  <2>2. wc'[h].pc \notin WcWorking
    BY <1>1, <1>2, <1>3, <1>5 DEF WcDequeue, WcDrop, WcBounce, WcAccept, WcProvision,
       WcInjectLoad, WcInject, WcTeardown, WcBusy, WcAcquire, WcRequeue, WcRelease, WcWorking
  <2>. QED  BY <2>1, <2>2
<1>6. CASE WcLoad(h)
  BY <1>1, <1>6 DEF WcLoad
<1>7. CASE WcConclude(h) \/ WcUnsaved(h) \/ WcAnnounce(h)
  <2>1. wc[h].pc \in WcWorking /\ wc[h].pc # "persist"
    BY <1>7 DEF WcConclude, WcUnsaved, WcAnnounce, WcWorking
  <2>. QED  BY <2>1, <1>1, <1>2, <1>7 DEF WcConclude, WcUnsaved, WcAnnounce, WcPersist, WcCopy
<1>8. CASE WcPersist(h)
  BY <1>1, <1>4, <1>8 DEF WcPersist
<1>9. ASSUME NEW p, NEW inst, NEW n, NEW new, Advance(h, p, inst, n, new),
             wc[h].pc \in {"run", "queue_child"}, ec' = ec
      PROVE  G
  BY <1>1, <1>2, <1>9 DEF Advance, WcPersist, WcWorking, WcCopy
<1>10. ASSUME NEW p \in wc[h].todo,
              WcRun(h, p) \/ WcSkip(h, p) \/ WcAbort(h, p) \/ WcStartChild(h, p)
       PROVE  G
  <2>1. CASE WcRun(h, p)
    BY <2>1, <1>9 DEF WcRun, OnTurn, AdvanceWith
  <2>2. CASE WcSkip(h, p)
    BY <2>2, <1>9 DEF WcSkip, OnTurn
  <2>3. CASE WcAbort(h, p)
    BY <2>3, <1>1, <1>4 DEF WcAbort
  <2>4. CASE WcStartChild(h, p)
    BY <2>4, <1>1, <1>2 DEF WcStartChild, OnTurn, WcPersist, WcWorking, WcCopy
  <2>. QED  BY <1>10, <2>1, <2>2, <2>3, <2>4
<1>11. CASE WcQueueChild(h)
  BY <1>9, <1>11 DEF WcQueueChild, AdvanceWith
<1>12. CASE WcFault(h)
  <2>0. ec' = ec
    BY <1>12 DEF WcFault
  <2>1. CASE wc[h].pc = "queue_child"
    BY <2>0, <2>1, <1>9, <1>12 DEF WcFault, AdvanceWith
  <2>2. CASE wc[h].pc = "announce"
    BY <2>0, <2>2, <1>1, <1>2, <1>12 DEF WcFault, WcPersist, WcWorking, WcCopy
  <2>3. CASE wc[h].pc \notin {"queue_child", "announce"}
    <3>1. \/ wc' = [wc EXCEPT ![h] = IdleWc]
          \/ wc' = [wc EXCEPT ![h] = Executed(h)]
          \/ wc' = [wc EXCEPT ![h] = [IdleWc EXCEPT !.pc = "release", !.w = wc[h].w]]
      BY <2>3, <1>12 DEF WcFault
    <3>. QED  BY <3>1, <2>0, <1>1, <1>3, <1>4
  <2>. QED  BY <2>1, <2>2, <2>3
<1>. QED  BY <1>5, <1>6, <1>7, <1>8, <1>10, <1>11, <1>12 DEF WorkflowConsumer

\* Only EcLoad gives the event consumer a copy to persist.
LEMMA EcKeepsCopy ==
  ASSUME TypeOK, NEW h \in Hosts, EventConsumer(h) \/ EcFault(h)
  PROVE  /\ \A g \in Hosts \ {h} : ec'[g] = ec[g]
         /\ wc' = wc
         /\ ec'[h].pc = "persist" => EcLoad(h)
<1>1. DOMAIN ec = Hosts /\ DOMAIN ec[h] = {"pc", "e", "todo", "s", "w", "mem", "snap", "ok"}
  BY DEF TypeOK, EcsTypeOK, EcTypeOK
<1>2. IdleEc.pc = "idle" /\ \A e, s : [IdleEc EXCEPT !.pc = "next", !.e = e, !.todo = s].pc = "next"
  BY DEF IdleEc
<1>3. CASE EcDequeue(h) \/ EcLookup(h) \/ EcDone(h)
  BY <1>1, <1>2, <1>3 DEF EcDequeue, EcLookup, EcDone
<1>4. ASSUME NEW s \in ec[h].todo, EcBusy(h, s) \/ EcAcquire(h, s)
      PROVE  wc' = wc /\ ec'[h].pc # "persist" /\ \A g \in Hosts \ {h} : ec'[g] = ec[g]
  BY <1>1, <1>2, <1>4 DEF EcBusy, EcAcquire
<1>5. CASE EcPersist(h) \/ EcQueue(h) \/ EcTerminate(h) \/ EcRelease(h)
  <2>1. CASE EcPersist(h)
    BY <1>1, <2>1 DEF EcPersist
  <2>2. CASE EcQueue(h)
    BY <1>1, <2>2 DEF EcQueue
  <2>3. CASE EcTerminate(h)
    BY <1>1, <2>3 DEF EcTerminate
  <2>4. CASE EcRelease(h)
    BY <1>1, <1>2, <2>4 DEF EcRelease
  <2>. QED  BY <1>5, <2>1, <2>2, <2>3, <2>4
<1>6. CASE EcLoad(h)
  BY <1>1, <1>6 DEF EcLoad
<1>7. CASE EcFault(h)
  BY <1>1, <1>2, <1>7 DEF EcFault
<1>. QED  BY <1>3, <1>4, <1>5, <1>6, <1>7 DEF EventConsumer
\* Whoever works on an instance holds its lock, so nobody else does.
LEMMA SoleWorker ==
  ASSUME TypeOK, MutualExclusion, NEW g \in Hosts, NEW h \in Hosts
  PROVE  /\ wc[h].pc \in WcWorking \cup {"load"} /\ wc[g].pc \in WcWorking /\ g # h
              => wc[g].w # wc[h].w
         /\ ec[h].pc \in {"load", "persist"} /\ ec[g].pc = "persist" /\ g # h
              => ec[g].w # ec[h].w
         /\ wc[h].pc \in WcWorking \cup {"load"} /\ ec[g].pc \in {"load", "persist"}
              => ec[g].w # wc[h].w
<1>1. /\ wc[h].pc \in WcHolding => wc[h].w \in Workflows
      /\ ec[h].pc \in EcHolding => ec[h].w \in Workflows
  BY DEF TypeOK, WcsTypeOK, EcsTypeOK, WcTypeOK, EcTypeOK, WcHolding
<1>2. /\ WcWorking \cup {"load"} \subseteq WcHolding
      /\ {"load", "persist"} \subseteq EcHolding
  BY DEF WcWorking, WcHolding, EcHolding
<1>. QED  BY <1>1, <1>2 DEF MutualExclusion, WcHolds, EcHolds

\* A new instance is nobody's copy.
LEMMA CreateKeepsCopies ==
  ASSUME TypeOK, WorkExists, NoLostUpdate, NEW v \in Workflows, Create(v), dirty' = dirty,
         NEW h \in Hosts,
         wc'[h].pc \in WcWorking => wc[h].pc \in WcWorking /\ WcCopy(h)' = WcCopy(h),
         ec' = ec
  PROVE  WcFresh(h)' /\ EcFresh(h)'
<1>1. \A w \in Workflows : w # v => store'[w] = store[w] /\ dirty'[w] = dirty[w]
  BY DEF Create, TypeOK, ProvidersTypeOK
<1>2. /\ wc[h].pc \in WcWorking => wc[h].w # v
      /\ ec[h].pc = "persist" => ec[h].w # v
  BY DEF Create, WorkExists, WcExists, EcExists, Exists, WcWorking, EcHolding
<1>. QED  BY <1>1, <1>2, CopyKept DEF EcCopy

\* Every step keeps the copies that are going to be persisted fresh.
LEMMA NoLostUpdateNext ==
  ASSUME TypeOK, MutualExclusion, WorkExists, NoLostUpdate, [Next]_vars
  PROVE  NoLostUpdate'
<1>1. DOMAIN store = Workflows /\ DOMAIN dirty = Workflows
  BY DEF TypeOK, ProvidersTypeOK
<1>. DEFINE Others(v) == \A w \in Workflows : w # v => store'[w] = store[w] /\ dirty'[w] = dirty[w]
            WcKept(h) == wc'[h].pc \in WcWorking => wc[h].pc \in WcWorking /\ WcCopy(h)' = WcCopy(h)
            EcKept(h) == ec'[h].pc = "persist" => ec[h].pc = "persist" /\ EcCopy(h)' = EcCopy(h)
<1>2. (\A h \in Hosts : WcFresh(h)' /\ EcFresh(h)') => NoLostUpdate'
  BY DEF NoLostUpdate, WcFresh, EcFresh
<1>3. ASSUME UNCHANGED <<store, dirty>>, \A h \in Hosts : WcKept(h) /\ EcKept(h)
      PROVE  NoLostUpdate'
  BY <1>2, <1>3, CopyKept
<1>4. ASSUME NEW h \in Hosts, wc'[h] = wc[h] PROVE WcKept(h)
  BY <1>4 DEF WcCopy
<1>5. ASSUME NEW h \in Hosts, ec'[h] = ec[h] PROVE EcKept(h)
  BY <1>5 DEF EcCopy
<1>6. ASSUME NEW h \in Hosts, WorkflowConsumer(h) \/ WcFault(h) \/ WcUnsaved(h) PROVE NoLostUpdate'
  <2>1. /\ \A g \in Hosts \ {h} : wc'[g] = wc[g]
        /\ ec' = ec
        /\ wc'[h].pc \in WcWorking /\ ~WcLoad(h) =>
             ~WcPersist(h) /\ wc[h].pc \in WcWorking /\ WcCopy(h)' = WcCopy(h)
    BY <1>6, WcKeepsCopy
  <2>2. /\ \A g \in Hosts : g # h => WcKept(g)
        /\ \A g \in Hosts : EcKept(g)
        /\ ~WcLoad(h) => WcKept(h)
    BY <2>1, <1>4, <1>5
  <2>. DEFINE v == wc[h].w
  <2>3. CASE WcLoad(h)
    <3>1. /\ wc[h].pc = "load" /\ store' = store /\ dirty' = [dirty EXCEPT ![v] = FALSE]
      BY <2>3 DEF WcLoad, persistence
    <3>2. Others(v)
      BY <3>1, <1>1
    <3>3. \A g \in Hosts : /\ wc[g].pc \in WcWorking /\ g # h => wc[g].w # v
                           /\ ec[g].pc = "persist" => ec[g].w # v
      BY <3>1, SoleWorker
    <3>4. \A g \in Hosts : g # h => WcFresh(g)'
      <4>. HIDE DEF v
      <4>. QED  BY <3>2, <3>3, <2>2, CopyKept
    <3>5. \A g \in Hosts : EcFresh(g)'
      <4>. HIDE DEF v
      <4>. QED  BY <3>2, <3>3, <2>2, CopyKept
    <3>6. WcFresh(h)'
      <4>1. DOMAIN wc = Hosts /\ DOMAIN wc[h] = {"pc", "w", "mem", "snap", "todo", "new", "p", "child", "e"}
        BY DEF TypeOK, WcsTypeOK, WcTypeOK
      <4>2. CASE store[v].status = "Runnable"
        <5>1. wc'[h].w = v /\ wc'[h].snap = store[v]
          BY <4>1, <4>2, <2>3 DEF WcLoad
        <5>. QED  BY <5>1, <3>1 DEF WcFresh
      <4>3. CASE store[v].status # "Runnable"
        <5>1. wc'[h].pc = "release"
          BY <4>1, <4>3, <2>3 DEF WcLoad
        <5>. QED  BY <5>1 DEF WcFresh, WcWorking
      <4>. QED  BY <4>2, <4>3
    <3>. QED  BY <3>4, <3>5, <3>6, <1>2
  <2>4. CASE WcPersist(h)
    <3>1. /\ wc[h].pc = "persist" /\ dirty' = dirty
          /\ store' = [store EXCEPT ![v] = wc[h].mem]
      BY <2>4 DEF WcPersist
    <3>2. Others(v)
      BY <3>1, <1>1
    <3>3. \A g \in Hosts : /\ wc[g].pc \in WcWorking /\ g # h => wc[g].w # v
                           /\ ec[g].pc = "persist" => ec[g].w # v
      BY <3>1, SoleWorker DEF WcWorking
    <3>4. wc'[h].pc \notin WcWorking
      BY <3>1, <2>1, <2>4 DEF WcLoad
    <3>5. ASSUME NEW g \in Hosts PROVE WcFresh(g)' /\ EcFresh(g)'
      <4>1. WcKept(g) /\ EcKept(g)
        BY <2>2, <3>4
      <4>2. /\ wc'[g].pc \in WcWorking /\ wc[g].w = v => dirty'[v]
            /\ ec'[g].pc = "persist" /\ ec[g].w = v => dirty'[v]
        BY <3>3, <3>4, <4>1
      <4>. HIDE DEF v
      <4>. QED  BY <3>2, <4>1, <4>2, CopyKept
    <3>. QED  BY <3>5, <1>2
  <2>5. CASE WcInject(h)
    <3>1. /\ wc[h].pc = "inject" /\ dirty' = [dirty EXCEPT ![v] = TRUE]
          /\ store' = [store EXCEPT ![v] = wc[h].mem]
      BY <2>5 DEF WcInject
    <3>2. v \in Workflows
      BY <3>1 DEF TypeOK, WcsTypeOK, WcTypeOK
    <3>3. Others(v) /\ dirty'[v]
      BY <3>1, <3>2, <1>1
    <3>4. \A g \in Hosts : WcKept(g) /\ EcKept(g)
      BY <3>1, <2>2 DEF WcLoad
    <3>. HIDE DEF v
    <3>. QED  BY <3>3, <3>4, <1>2, CopyKept
  <2>6. ASSUME NEW p, WcStartChild(h, p) PROVE NoLostUpdate'
    <3>1. PICK c \in Children[wc[h].w] : Create(c)
      BY <2>6 DEF WcStartChild
    <3>2. wc[h].pc = "run" /\ dirty' = dirty
      BY <2>6 DEF WcStartChild, OnTurn
    <3>3. c \in Workflows
      <4>1. wc[h].w \in Workflows
        BY <3>2 DEF TypeOK, WcsTypeOK, WcTypeOK
      <4>. QED  BY <4>1, <3>1, SetsAssumption
    <3>4. \A g \in Hosts : WcKept(g)
      BY <3>2, <2>2 DEF WcLoad
    <3>. QED  BY <3>1, <3>2, <3>3, <3>4, <2>1, <1>2, CreateKeepsCopies
  <2>7. ASSUME ~WcLoad(h), ~WcPersist(h), ~WcInject(h), \A p : ~WcStartChild(h, p)
        PROVE  NoLostUpdate'
    <3>1. UNCHANGED <<store, dirty>>
      BY <1>6, <2>7 DEF WorkflowConsumer, WcDequeue, WcDrop, WcBounce, WcAccept, WcProvision,
         WcInjectLoad, WcTeardown, WcAcquire, WcBusy, WcRun, WcSkip, WcAbort,
         WcQueueChild, WcConclude, WcUnsaved, WcAnnounce, WcRequeue, WcRelease, WcFault, persistence
    <3>. QED  BY <3>1, <2>2, <2>7, <1>3
  <2>. QED  BY <2>3, <2>4, <2>5, <2>6, <2>7
<1>7. ASSUME NEW h \in Hosts, EventConsumer(h) \/ EcFault(h) PROVE NoLostUpdate'
  <2>1. /\ \A g \in Hosts \ {h} : ec'[g] = ec[g]
        /\ wc' = wc
        /\ ec'[h].pc = "persist" => EcLoad(h)
    BY <1>7, EcKeepsCopy
  <2>2. /\ \A g \in Hosts : WcKept(g)
        /\ \A g \in Hosts : g # h => EcKept(g)
        /\ ~EcLoad(h) => EcKept(h)
    BY <2>1, <1>4, <1>5
  <2>. DEFINE v == ec[h].w
  <2>3. CASE EcLoad(h)
    <3>1. ec[h].pc = "load" /\ store' = store /\ dirty' = [dirty EXCEPT ![v] = FALSE]
      BY <2>3 DEF EcLoad, persistence
    <3>2. Others(v)
      BY <3>1, <1>1
    <3>3. \A g \in Hosts : /\ wc[g].pc \in WcWorking => wc[g].w # v
                           /\ ec[g].pc = "persist" /\ g # h => ec[g].w # v
      BY <3>1, SoleWorker
    <3>4. \A g \in Hosts : WcFresh(g)'
      <4>. HIDE DEF v
      <4>. QED  BY <3>2, <3>3, <2>2, CopyKept
    <3>5. \A g \in Hosts : g # h => EcFresh(g)'
      <4>. HIDE DEF v
      <4>. QED  BY <3>2, <3>3, <2>2, CopyKept
    <3>6. EcFresh(h)'
      <4>1. DOMAIN ec = Hosts /\ DOMAIN ec[h] = {"pc", "e", "todo", "s", "w", "mem", "snap", "ok"}
        BY DEF TypeOK, EcsTypeOK, EcTypeOK
      <4>2. ec'[h].w = v /\ ec'[h].snap = store[v]
        BY <4>1, <2>3 DEF EcLoad
      <4>. QED  BY <4>2, <3>1 DEF EcFresh
    <3>. QED  BY <3>4, <3>5, <3>6, <1>2
  <2>4. CASE EcPersist(h)
    <3>1. /\ ec[h].pc = "persist" /\ dirty' = dirty
          /\ store' = [store EXCEPT ![v] = ec[h].mem]
      BY <2>4 DEF EcPersist
    <3>2. Others(v)
      BY <3>1, <1>1
    <3>3. \A g \in Hosts : /\ wc[g].pc \in WcWorking => wc[g].w # v
                           /\ ec[g].pc = "persist" /\ g # h => ec[g].w # v
      BY <3>1, SoleWorker
    <3>4. ec'[h].pc # "persist"
      BY <3>1, <2>1 DEF EcLoad
    <3>5. ASSUME NEW g \in Hosts PROVE WcFresh(g)' /\ EcFresh(g)'
      <4>1. WcKept(g) /\ EcKept(g)
        BY <2>2, <3>4
      <4>2. /\ wc'[g].pc \in WcWorking /\ wc[g].w = v => dirty'[v]
            /\ ec'[g].pc = "persist" /\ ec[g].w = v => dirty'[v]
        BY <3>3, <3>4, <4>1
      <4>. HIDE DEF v
      <4>. QED  BY <3>2, <4>1, <4>2, CopyKept
    <3>. QED  BY <3>5, <1>2
  <2>5. ASSUME ~EcLoad(h), ~EcPersist(h) PROVE NoLostUpdate'
    <3>1. UNCHANGED <<store, dirty>>
      BY <1>7, <2>5 DEF EventConsumer, EcDequeue, EcLookup, EcAcquire, EcBusy, EcQueue,
         EcTerminate, EcRelease, EcDone, EcFault, persistence
    <3>. QED  BY <3>1, <2>2, <2>5, <1>3
  <2>. QED  BY <2>3, <2>4, <2>5
<1>8. ASSUME NEW r \in Requests, Request(r) \/ RqFault(r) PROVE NoLostUpdate'
  <2>1. wc' = wc /\ ec' = ec
    BY <1>8 DEF Request, RqStart, RqPublish, RqLoad, RqPersist, RqQueue, RqFault
  <2>2. \A h \in Hosts : WcKept(h) /\ EcKept(h)
    BY <2>1, <1>4, <1>5
  <2>3. CASE RqStart(r)
    <3>1. Create(r.on) /\ dirty' = dirty /\ r.on \in Workflows
      BY <2>3, RequestsAssumption DEF RqStart
    <3>. QED  BY <3>1, <2>1, <2>2, <1>2, CreateKeepsCopies
  <2>4. CASE RqPersist(r)
    <3>. DEFINE v == r.on
    <3>1. /\ store' = [store EXCEPT ![v] = rq[r].mem]
          /\ dirty' = [dirty EXCEPT ![v] = TRUE] /\ rq[r].pc = "persist"
      BY <2>4 DEF RqPersist
    <3>2. v \in Workflows
      <4>1. r.op # "publish"
        BY <3>1 DEF TypeOK, RqsTypeOK, RqTypeOK
      <4>. QED  BY <4>1, RequestsAssumption
    <3>3. Others(v) /\ dirty'[v]
      BY <3>1, <3>2, <1>1
    <3>. HIDE DEF v
    <3>. QED  BY <3>3, <2>2, <1>2, CopyKept
  <2>5. ASSUME ~RqStart(r), ~RqPersist(r) PROVE NoLostUpdate'
    <3>1. UNCHANGED <<store, dirty>>
      BY <1>8, <2>5 DEF Request, RqPublish, RqLoad, RqQueue, RqFault, persistence
    <3>. QED  BY <3>1, <2>2, <1>3
  <2>. QED  BY <2>3, <2>4, <2>5
<1>9. ASSUME NEW h \in Hosts, Crash(h) PROVE NoLostUpdate'
  <2>1. DOMAIN wc = Hosts /\ DOMAIN ec = Hosts
    BY DEF TypeOK, WcsTypeOK, EcsTypeOK
  <2>2. /\ wc'[h] = IdleWc /\ ec'[h] = IdleEc
        /\ \A g \in Hosts \ {h} : wc'[g] = wc[g] /\ ec'[g] = ec[g]
        /\ UNCHANGED <<store, dirty>>
    BY <2>1, <1>9 DEF Crash, persistence
  <2>3. wc'[h].pc \notin WcWorking /\ ec'[h].pc # "persist"
    BY <2>2 DEF IdleWc, IdleEc, WcWorking
  <2>. QED  BY <2>2, <2>3, <1>3, <1>4, <1>5
<1>10. ASSUME NEW w \in Workflows, NEW p, Tick(w, p) PROVE NoLostUpdate'
  <2>1. store' = [store EXCEPT ![w] = Later(store[w], p)] /\ dirty' = dirty
    BY <1>10 DEF Tick
  <2>2. /\ store'[w] = Later(store[w], p)
        /\ \A v \in Workflows : v # w => store'[v] = store[v]
    BY <2>1, <1>1
  <2>3. ASSUME NEW h \in Hosts PROVE WcFresh(h)' /\ EcFresh(h)'
    <3>1. /\ wc[h].pc \in WcWorking => wc[h].w \in Workflows
          /\ ec[h].pc = "persist" => ec[h].w \in Workflows
      BY DEF TypeOK, WcsTypeOK, EcsTypeOK, WcTypeOK, EcTypeOK, WcWorking, EcHolding
    <3>2. WcFresh(h) /\ EcFresh(h)
      BY DEF NoLostUpdate, WcFresh, EcFresh
    <3>3. WcFresh(h)'
      BY <3>1, <3>2, <2>1, <2>2, <1>10, TickFrame DEF WcFresh
    <3>4. EcFresh(h)'
      BY <3>1, <3>2, <2>1, <2>2, <1>10, TickFrame DEF EcFresh
    <3>. QED  BY <3>3, <3>4
  <2>. QED  BY <2>3, <1>2
<1>11. ASSUME UNCHANGED <<store, dirty, wc, ec>> PROVE NoLostUpdate'
  BY <1>11 DEF NoLostUpdate
<1>12. (\E w \in Workflows : LeaseExpires(w)) \/ UNCHANGED vars => NoLostUpdate'
  BY <1>11 DEF LeaseExpires, persistence, vars
<1>. QED
  BY <1>6, <1>7, <1>8, <1>9, <1>10, <1>12 DEF Next, Time

\* No update is lost between the consumers: what execute or process_event
\* loaded under the lock is what the store holds when it writes the instance
\* back, unless an unlocked writer (suspend, resume and terminate_workflow,
\* inject_service_endpoints) wrote it in between.
THEOREM NoUpdateLost == Spec => []NoLostUpdate
<1>1. Init => NoLostUpdate
  BY DEF Init, NoLostUpdate, IdleWc, IdleEc, WcWorking
<1>2. TypeOK /\ MutualExclusion /\ WorkExists /\ NoLostUpdate /\ [Next]_vars => NoLostUpdate'
  BY NoLostUpdateNext
<1>. QED  BY <1>1, <1>2, TypesKept, Exclusive, WorkRefersToInstances, PTL DEF Spec

-----------------------------------------------------------------------------
(* What a step does to the copy of the instance that a consumer works on.  *)

\* A pointer that waits for an event, and a subscription it can be reached by.
Waits(ptrs, p) == ptrs[p].status = "WaitingForEvent" /\ ~ptrs[p].event
OpenFor(ss, w, p) == \E s \in DOMAIN ss : ss[s].w = w /\ ss[s].ptr = p /\ ss[s].open

\* The workflow consumer loads the instance, ...
Loads(h) ==
  /\ wc[h].pc = "load" /\ wc'[h].pc = "run" /\ UNCHANGED <<store, subs>>
  /\ store[wc[h].w].status = "Runnable"
  /\ wc'[h].w = wc[h].w /\ wc'[h].new = <<>>
  /\ wc'[h].snap = store[wc[h].w] /\ wc'[h].mem = store[wc[h].w]
  /\ wc'[h].todo = Runnable(store[wc[h].w].ptrs)

\* deals with one pointer, with a subscription if that has to wait, ...
DealsWith(h, p, new) ==
  /\ wc[h].pc \in {"run", "queue_child"} /\ wc'[h].pc = "run" /\ UNCHANGED <<store, subs>>
  /\ p \in wc[h].todo /\ wc'[h].todo = wc[h].todo \ {p}
  /\ wc'[h].w = wc[h].w /\ wc'[h].snap = wc[h].snap /\ wc'[h].new = wc[h].new \o new
  /\ Grows(wc[h].mem.ptrs, wc'[h].mem.ptrs, p)
  /\ wc'[h].mem.ptrs[p].sleep = "future" =>
       wc'[h].mem.ptrs[p].status = "Sleeping" \/ wc[h].mem.ptrs[p].sleep = "future"
  /\ Waits(wc'[h].mem.ptrs, p) => OpenFor(new, wc[h].w, p)

\* goes on with the pointers as they are, ...
GoesOn(h) ==
  /\ wc[h].pc \in WcWorking /\ wc'[h].pc \in WcWorking /\ subs' = subs
  /\ store' = store \/ \E c \in Workflows : Create(c)
  /\ wc'[h].todo = wc[h].todo /\ wc'[h].w = wc[h].w
  /\ wc'[h].snap = wc[h].snap /\ wc'[h].new = wc[h].new
  /\ wc'[h].mem.ptrs = wc[h].mem.ptrs

\* or persists it; after that, and on every other path, it has no copy.
LetsGo(h) == wc'[h].pc \notin WcWorking /\ UNCHANGED <<store, subs>>

\* A pointer has been dealt with, with result r or because it is skipped.
LEMMA AdvanceDeals ==
  ASSUME TypeOK, NEW h \in Hosts, wc[h].pc \in {"run", "queue_child"}, NEW p \in wc[h].todo,
         HasStep(h, p), UNCHANGED <<store, subs>>, NEW new
  PROVE  /\ \A r \in ExecutionResult :
              /\ AdvanceWith(h, p, r, new)
              /\ r.kind = "event" => OpenFor(new, wc[h].w, p)
              => DealsWith(h, p, new)
         /\ Advance(h, p, ApplySkip(DefAt(h), wc[h].mem, p, lastId[wc[h].w]),
                    Len(SkipSuccessor(DefAt(h), wc[h].mem.ptrs, p)), new)
              => DealsWith(h, p, new)
<1>1. /\ DOMAIN wc = Hosts
      /\ DOMAIN wc[h] = {"pc", "w", "mem", "snap", "todo", "new", "p", "child", "e"}
  BY DEF TypeOK, WcsTypeOK, WcTypeOK
<1>2. /\ IsDefinition(DefAt(h)) /\ IsInstance(wc[h].mem) /\ p \in DOMAIN wc[h].mem.ptrs
      /\ lastId[wc[h].w] \in Nat /\ wc[h].mem.ptrs[p].step \in DOMAIN DefAt(h).steps
      /\ IsPointers(wc[h].mem.ptrs) /\ wc[h].mem.ptrs[p] \in ExecutionPointer
  BY OnTurnType DEF HasStep, IsPointers
<1>3. ASSUME NEW inst, NEW n, Advance(h, p, inst, n, new)
      PROVE  /\ wc'[h].pc = "run" /\ wc'[h].mem = inst /\ wc'[h].todo = wc[h].todo \ {p}
             /\ wc'[h].w = wc[h].w /\ wc'[h].snap = wc[h].snap
             /\ wc'[h].new = wc[h].new \o new
  BY <1>1, <1>3 DEF Advance
<1>. DEFINE mem == wc'[h].mem.ptrs
<1>4. ASSUME NEW r \in ExecutionResult, AdvanceWith(h, p, r, new),
             r.kind = "event" => OpenFor(new, wc[h].w, p)
      PROVE  DealsWith(h, p, new)
  <2>. DEFINE inst == ApplyResult(DefAt(h), wc[h].mem, p, r, lastId[wc[h].w])
  <2>1. /\ wc'[h].pc = "run" /\ wc'[h].mem = inst /\ wc'[h].todo = wc[h].todo \ {p}
        /\ wc'[h].w = wc[h].w /\ wc'[h].snap = wc[h].snap
        /\ wc'[h].new = wc[h].new \o new
    BY <1>3, <1>4 DEF AdvanceWith
  <2>2. mem = ApplyResult(DefAt(h), wc[h].mem, p, r, lastId[wc[h].w]).ptrs
    BY <2>1
  <2>. HIDE DEF mem, inst
  <2>3. Grows(wc[h].mem.ptrs, mem, p) /\ mem[p] = After(DefAt(h), wc[h].mem.ptrs[p], r)
    BY <2>2, <1>2, ApplyResultGrows
  <2>4. r.kind \in ResultKind
    BY DEF ExecutionResult
  <2>5. /\ mem[p].sleep = "future" =>
             mem[p].status = "Sleeping" \/ wc[h].mem.ptrs[p].sleep = "future"
        /\ mem[p].status = "WaitingForEvent" => r.kind = "event"
    BY <2>3, <2>4, <1>2, AfterFields DEF ResultKind
  <2>. QED  BY <2>1, <2>3, <2>5, <1>4 DEF DealsWith, Waits, mem
<1>5. ASSUME Advance(h, p, ApplySkip(DefAt(h), wc[h].mem, p, lastId[wc[h].w]),
                     Len(SkipSuccessor(DefAt(h), wc[h].mem.ptrs, p)), new)
      PROVE  DealsWith(h, p, new)
  <2>1. /\ wc'[h].pc = "run" /\ wc'[h].todo = wc[h].todo \ {p}
        /\ wc'[h].mem = ApplySkip(DefAt(h), wc[h].mem, p, lastId[wc[h].w])
        /\ wc'[h].w = wc[h].w /\ wc'[h].snap = wc[h].snap
        /\ wc'[h].new = wc[h].new \o new
    BY <1>3, <1>5
  <2>2. mem = ApplySkip(DefAt(h), wc[h].mem, p, lastId[wc[h].w]).ptrs
    BY <2>1
  <2>. HIDE DEF mem
  <2>3. /\ Grows(wc[h].mem.ptrs, mem, p) /\ mem[p].status = "Skipped"
        /\ mem[p].sleep = wc[h].mem.ptrs[p].sleep
    BY <2>2, <1>2, ApplySkipGrows
  <2>. QED  BY <2>1, <2>3, <1>5 DEF DealsWith, Waits, mem
<1>. QED  BY <1>4, <1>5

\* Every step of the workflow consumer is one of these.
LEMMA WcSteps ==
  ASSUME TypeOK, NEW h \in Hosts, WorkflowConsumer(h) \/ WcFault(h) \/ WcUnsaved(h)
  PROVE  \/ Loads(h) \/ GoesOn(h) \/ LetsGo(h) \/ WcPersist(h) \/ WcInject(h)
         \/ \E p : \E new \in Seq(EventSubscription) : DealsWith(h, p, new)
<1>1. /\ DOMAIN wc = Hosts
      /\ DOMAIN wc[h] = {"pc", "w", "mem", "snap", "todo", "new", "p", "child", "e"}
      /\ wc[h].new # <<>> => wc[h].pc \in WcWorking
      /\ wc[h].pc \in WcWorking => IsInstance(wc[h].mem)
      /\ wc[h].pc # "idle" => wc[h].w \in Workflows
      /\ wc[h].pc = "queue_child" => wc[h].child \in Workflows /\ wc[h].p \in wc[h].todo
      /\ Len(events) \in Nat
  BY DEF TypeOK, ProvidersTypeOK, WcsTypeOK, WcTypeOK
<1>2. /\ IdleWc.pc \notin WcWorking /\ Executed(h).pc \notin WcWorking
      /\ [IdleWc EXCEPT !.pc = "release", !.w = wc[h].w].pc \notin WcWorking
  BY DEF IdleWc, Executed, WcWorking
<1>. DEFINE Deals == \E p : \E new \in Seq(EventSubscription) : DealsWith(h, p, new)
<1>a. \A p : DealsWith(h, p, <<>>) => Deals
  <2>1. <<>> \in Seq(EventSubscription)
    OBVIOUS
  <2>. QED  BY <2>1
<1>b. /\ wait_for_event \in ExecutionResult
      /\ failure \in ExecutionResult /\ failure.kind # "event"
  <2>1. NoData \in PersistenceData
    BY DEF NoData, PersistenceData
  <2>. QED  BY <2>1, ConstructorTypes DEF failure, Result
<1>3. CASE WcDequeue(h) \/ WcDrop(h) \/ WcBounce(h) \/ WcAccept(h) \/ WcProvision(h)
           \/ WcInjectLoad(h) \/ WcTeardown(h) \/ WcBusy(h)
           \/ WcAcquire(h) \/ WcRequeue(h) \/ WcRelease(h)
  <2>1. wc'[h].pc \notin WcWorking
    BY <1>1, <1>2, <1>3 DEF WcDequeue, WcDrop, WcBounce, WcAccept, WcProvision,
       WcInjectLoad, WcTeardown, WcBusy, WcAcquire, WcRequeue, WcRelease, WcWorking
  <2>2. UNCHANGED <<store, subs>>
    BY <1>3 DEF WcDequeue, WcDrop, WcBounce, WcAccept, WcProvision,
       WcInjectLoad, WcTeardown, WcBusy, WcAcquire, WcRequeue, WcRelease, persistence
  <2>. QED  BY <2>1, <2>2 DEF LetsGo
<1>4. CASE WcLoad(h)
  <2>1. wc[h].pc = "load" /\ UNCHANGED <<store, subs>> /\ wc[h].new = <<>>
    BY <1>1, <1>4 DEF WcLoad, persistence, WcWorking
  <2>2. CASE store[wc[h].w].status = "Runnable"
    <3>1. /\ wc'[h].pc = "run" /\ wc'[h].w = wc[h].w /\ wc'[h].new = wc[h].new
          /\ wc'[h].snap = store[wc[h].w] /\ wc'[h].mem = store[wc[h].w]
          /\ wc'[h].todo = Runnable(store[wc[h].w].ptrs)
      BY <2>2, <1>1, <1>4 DEF WcLoad
    <3>2. Loads(h)
      BY <3>1, <2>1, <2>2 DEF Loads
    <3>. QED  BY <3>2
  <2>3. CASE store[wc[h].w].status # "Runnable"
    <3>1. wc'[h].pc = "release"
      BY <2>3, <1>1, <1>4 DEF WcLoad
    <3>. QED  BY <3>1, <2>1 DEF LetsGo, WcWorking
  <2>. QED  BY <2>2, <2>3
<1>5. CASE WcConclude(h) \/ WcUnsaved(h)
  <2>1. wc[h].pc = "run" /\ UNCHANGED <<store, subs>>
    BY <1>5 DEF WcConclude, WcUnsaved
  <2>2. Concluded(wc[h].mem).ptrs = wc[h].mem.ptrs
    BY <2>1, <1>1 DEF Concluded, IsInstance, WcWorking
  <2>3. /\ wc'[h].pc \in WcWorking /\ wc'[h].todo = wc[h].todo /\ wc'[h].w = wc[h].w
        /\ wc'[h].snap = wc[h].snap /\ wc'[h].new = wc[h].new
        /\ wc'[h].mem = wc[h].mem \/ wc'[h].mem = Concluded(wc[h].mem)
    BY <1>1, <1>5 DEF WcConclude, WcUnsaved, WcWorking
  <2>4. GoesOn(h)
    BY <2>1, <2>2, <2>3 DEF GoesOn, WcWorking
  <2>. QED  BY <2>4
<1>6. ASSUME wc[h].pc = "announce", wc' = [wc EXCEPT ![h].pc = "persist", ![h].e = 0],
             UNCHANGED <<store, subs>>
      PROVE  GoesOn(h)
  BY <1>1, <1>6 DEF GoesOn, WcWorking
<1>7. CASE WcAnnounce(h)
  BY <1>6, <1>7 DEF WcAnnounce, persistence
<1>8. ASSUME NEW p \in wc[h].todo, WcRun(h, p) PROVE Deals
  <2>. DEFINE sub == Subscription(wc[h].w, p, StepAt(h, p).value, Len(events))
  <2>1. PICK r \in StepResults(DefAt(h), wc[h].mem.ptrs, p) :
          AdvanceWith(h, p, r, IF r.kind = "event" THEN <<sub>> ELSE <<>>)
    BY <1>8 DEF WcRun
  <2>. DEFINE new == IF r.kind = "event" THEN <<sub>> ELSE <<>>
  <2>2. wc[h].pc = "run" /\ HasStep(h, p) /\ UNCHANGED <<store, subs>>
    BY <1>8 DEF WcRun, OnTurn, persistence
  <2>3. r \in ExecutionResult
    BY <2>2, OnTurnType, StepResultsType DEF HasStep
  <2>4. StepAt(h, p).value \in Value
    BY <2>2, OnTurnType DEF StepAt, HasStep, IsDefinition, WorkflowStep
  <2>5. sub \in EventSubscription /\ sub.w = wc[h].w /\ sub.ptr = p /\ sub.open
    BY <2>2, <2>4, <1>1, OnTurnType DEF Subscription, EventSubscription
  <2>. HIDE DEF sub
  <2>6. new \in Seq(EventSubscription) /\ (r.kind = "event" => OpenFor(new, wc[h].w, p))
    <3>1. DOMAIN <<sub>> = {1} /\ <<sub>>[1] = sub
      OBVIOUS
    <3>. QED  BY <3>1, <2>5 DEF OpenFor
  <2>7. AdvanceWith(h, p, r, new)
    BY <2>1
  <2>. HIDE DEF new
  <2>8. DealsWith(h, p, new)
    BY <2>2, <2>3, <2>6, <2>7, AdvanceDeals
  <2>. QED  BY <2>6, <2>8
<1>9. ASSUME NEW p \in wc[h].todo, WcSkip(h, p) PROVE Deals
  <2>1. wc[h].pc = "run" /\ HasStep(h, p) /\ UNCHANGED <<store, subs>>
    BY <1>9 DEF WcSkip, OnTurn, persistence
  <2>2. DealsWith(h, p, <<>>)
    BY <2>1, <1>9, AdvanceDeals DEF WcSkip
  <2>. QED  BY <2>2, <1>a
<1>10. ASSUME NEW p \in wc[h].todo, WcAbort(h, p) PROVE LetsGo(h)
  BY <1>1, <1>2, <1>10 DEF WcAbort, LetsGo, persistence
<1>11. ASSUME NEW p \in wc[h].todo, WcStartChild(h, p) PROVE GoesOn(h)
  <2>1. wc[h].pc = "run" /\ subs' = subs
    BY <1>11 DEF WcStartChild, OnTurn
  <2>2. PICK c \in Children[wc[h].w] :
          /\ Create(c)
          /\ wc' = [wc EXCEPT ![h].pc = "queue_child", ![h].p = p, ![h].child = c]
    BY <1>11 DEF WcStartChild
  <2>3. c \in Workflows
    BY <2>1, <2>2, <1>1, SetsAssumption
  <2>4. /\ wc'[h].pc = "queue_child" /\ wc'[h].todo = wc[h].todo /\ wc'[h].w = wc[h].w
        /\ wc'[h].snap = wc[h].snap /\ wc'[h].new = wc[h].new /\ wc'[h].mem = wc[h].mem
    BY <2>2, <1>1
  <2>. QED  BY <2>1, <2>2, <2>3, <2>4 DEF GoesOn, WcWorking
<1>12. CASE WcQueueChild(h)
  <2>. DEFINE sub == Subscription(wc[h].w, wc[h].p, wc[h].child, Len(events))
  <2>1. /\ wc[h].pc = "queue_child" /\ UNCHANGED <<store, subs>>
        /\ AdvanceWith(h, wc[h].p, wait_for_event, <<sub>>)
    BY <1>12 DEF WcQueueChild, persistence
  <2>2. wc[h].p \in wc[h].todo
    BY <2>1, <1>1
  <2>3. HasStep(h, wc[h].p) /\ wait_for_event \in ExecutionResult
    BY <2>1, <2>2, <1>b, OnTurnType
  <2>4. sub \in EventSubscription /\ sub.w = wc[h].w /\ sub.ptr = wc[h].p /\ sub.open
    BY <2>1, <2>2, <1>1, OnTurnType DEF Subscription, EventSubscription
  <2>. HIDE DEF sub
  <2>5. <<sub>> \in Seq(EventSubscription) /\ OpenFor(<<sub>>, wc[h].w, wc[h].p)
    <3>1. DOMAIN <<sub>> = {1} /\ <<sub>>[1] = sub
      OBVIOUS
    <3>. QED  BY <3>1, <2>4 DEF OpenFor
  <2>6. DealsWith(h, wc[h].p, <<sub>>)
    BY <2>1, <2>2, <2>3, <2>5, AdvanceDeals
  <2>7. Deals
    BY <2>5, <2>6
  <2>. QED  BY <2>7
<1>13. CASE WcFault(h)
  <2>1. UNCHANGED <<store, subs>>
    BY <1>13 DEF WcFault, persistence
  <2>2. CASE wc[h].pc = "queue_child"
    <3>1. AdvanceWith(h, wc[h].p, failure, <<>>) /\ wc[h].p \in wc[h].todo
      BY <2>2, <1>1, <1>13 DEF WcFault
    <3>2. HasStep(h, wc[h].p) /\ failure \in ExecutionResult /\ failure.kind # "event"
      BY <3>1, <2>2, <1>b, OnTurnType
    <3>3. DealsWith(h, wc[h].p, <<>>)
      BY <3>1, <3>2, <2>1, <2>2, AdvanceDeals
    <3>4. Deals
      BY <3>3, <1>a
    <3>. QED  BY <3>4
  <2>3. CASE wc[h].pc = "announce"
    BY <2>1, <2>3, <1>6, <1>13 DEF WcFault
  <2>4. CASE wc[h].pc \notin {"queue_child", "announce"}
    <3>1. \/ wc' = [wc EXCEPT ![h] = IdleWc]
          \/ wc' = [wc EXCEPT ![h] = Executed(h)]
          \/ wc' = [wc EXCEPT ![h] = [IdleWc EXCEPT !.pc = "release", !.w = wc[h].w]]
      BY <2>4, <1>13 DEF WcFault
    <3>. QED  BY <3>1, <2>1, <1>1, <1>2 DEF LetsGo
  <2>. QED  BY <2>2, <2>3, <2>4
<1>14. ASSUME \E p \in wc[h].todo :
                WcRun(h, p) \/ WcSkip(h, p) \/ WcAbort(h, p) \/ WcStartChild(h, p)
       PROVE  Deals \/ LetsGo(h) \/ GoesOn(h)
  <2>. HIDE DEF Deals
  <2>. QED  BY <1>14, <1>8, <1>9, <1>10, <1>11
<1>. QED
  BY <1>3, <1>4, <1>5, <1>7, <1>12, <1>13, <1>14 DEF WorkflowConsumer

\* What the event consumer has in hand is due to EcLoad and goes with EcPersist;
\* EcTerminate closes a subscription; nothing else changes the store.
LetsGoEc(h) == ec'[h].pc \in {"idle", "lookup", "next", "release"} /\ UNCHANGED <<store, subs>>

LEMMA EcSteps ==
  ASSUME TypeOK, NEW h \in Hosts, EventConsumer(h) \/ EcFault(h)
  PROVE  \/ EcLoad(h) \/ EcPersist(h) \/ EcQueue(h) \/ EcTerminate(h) \/ LetsGoEc(h)
         \/ \E s \in ec[h].todo : EcAcquire(h, s)
<1>1. DOMAIN ec = Hosts /\ DOMAIN ec[h] = {"pc", "e", "todo", "s", "w", "mem", "snap", "ok"}
  BY DEF TypeOK, EcsTypeOK, EcTypeOK
<1>2. IdleEc.pc = "idle"
  BY DEF IdleEc
<1>3. CASE EcDequeue(h) \/ EcLookup(h) \/ EcDone(h) \/ EcRelease(h)
  <2>1. UNCHANGED <<store, subs>>
    BY <1>3 DEF EcDequeue, EcLookup, EcDone, EcRelease, persistence
  <2>2. EcDequeue(h) \/ EcLookup(h) \/ EcDone(h) => ec'[h].pc \in {"idle", "lookup", "next"}
    BY <1>1, <1>2 DEF EcDequeue, EcLookup, EcDone
  <2>3. ASSUME EcRelease(h) PROVE ec'[h].pc \in {"idle", "next"}
    <3>1. CASE ec[h].ok
      BY <3>1, <2>3, <1>1 DEF EcRelease, IdleEc
    <3>2. CASE ~ec[h].ok
      BY <3>2, <2>3, <1>1, <1>2 DEF EcRelease
    <3>. QED  BY <3>1, <3>2
  <2>. QED  BY <2>1, <2>2, <2>3, <1>3 DEF LetsGoEc
<1>4. ASSUME NEW s \in ec[h].todo, EcBusy(h, s) PROVE LetsGoEc(h)
  BY <1>1, <1>2, <1>4 DEF EcBusy, persistence, LetsGoEc
<1>5. CASE EcFault(h)
  BY <1>1, <1>2, <1>5 DEF EcFault, persistence, LetsGoEc
<1>. QED  BY <1>3, <1>4, <1>5 DEF EventConsumer

-----------------------------------------------------------------------------
(* Without unlocked writers.                                               *)

\* No definition declares services, and nobody suspends, resumes or terminates
\* an instance: the consumers write what they have the lock of, and start and
\* the sub-workflow step create what did not exist.
NoUnlockedWriters ==
  Serviced = {} /\ \A r \in Requests : r.op \in {"start", "publish"}

\* Then no instance is ever dirty.
CleanInv ==
  /\ \A w \in Workflows : ~dirty[w]
  /\ \A h \in Hosts : wc[h].pc \notin {"provision", "inject_load", "inject"}

\* A request creates an instance or leaves the instances alone.
LEMMA RqSteps ==
  ASSUME TypeOK, NoUnlockedWriters, NEW r \in Requests, Request(r) \/ RqFault(r)
  PROVE  /\ UNCHANGED <<subs, wc, ec, dirty>>
         /\ store' = store \/ \E c \in Workflows : Create(c)
<1>1. r.op \in {"start", "publish"} /\ rq[r].pc # "persist"
  BY DEF NoUnlockedWriters, TypeOK, RqsTypeOK, RqTypeOK
<1>2. CASE RqStart(r)
  BY <1>2, RequestsAssumption DEF RqStart
<1>3. CASE RqPublish(r) \/ RqLoad(r) \/ RqPersist(r) \/ RqQueue(r) \/ RqFault(r)
  BY <1>1, <1>3 DEF RqPublish, RqLoad, RqPersist, RqQueue, RqFault, persistence
<1>. QED  BY <1>2, <1>3 DEF Request

LEMMA CleanNext ==
  ASSUME TypeOK, NoUnlockedWriters, CleanInv, [Next]_vars
  PROVE  CleanInv'
<1>1. DOMAIN dirty = Workflows /\ DOMAIN wc = Hosts
  BY DEF TypeOK, ProvidersTypeOK, WcsTypeOK
<1>. DEFINE Outer == {"provision", "inject_load", "inject"}
            Off == \A w \in Workflows : dirty'[w] = dirty[w] \/ ~dirty'[w]
<1>2. IdleWc.pc = "idle" /\ \A h \in Hosts : Executed(h) = IdleWc
  BY DEF NoUnlockedWriters, IdleWc, Executed
<1>3. /\ \A w : [IdleWc EXCEPT !.pc = "release", !.w = w].pc = "release"
      /\ \A w : [IdleWc EXCEPT !.pc = "requeue", !.w = w].pc = "requeue"
  BY DEF IdleWc
<1>4. ASSUME Off, \A h \in Hosts : wc'[h].pc \notin Outer PROVE CleanInv'
  BY <1>4 DEF CleanInv
<1>5. ASSUME NEW h \in Hosts, WorkflowConsumer(h) \/ WcFault(h) \/ WcUnsaved(h) PROVE CleanInv'
  <2>1. \A g \in Hosts \ {h} : wc'[g] = wc[g]
    BY <1>5, WcKeepsCopy
  <2>2. wc[h].pc \notin Outer
    BY DEF CleanInv
  <2>3. ~WcProvision(h) /\ ~WcInjectLoad(h) /\ ~WcInject(h)
    BY <2>2 DEF WcProvision, WcInjectLoad, WcInject
  <2>4. Off
    <3>1. CASE WcLoad(h)
      BY <3>1, <1>1 DEF WcLoad
    <3>2. CASE ~WcLoad(h)
      <4>1. dirty' = dirty
        BY <1>5, <2>3, <3>2 DEF WorkflowConsumer, WcDequeue, WcDrop, WcBounce, WcAccept,
           WcTeardown, WcAcquire, WcBusy, WcRun, WcSkip, WcAbort, WcStartChild, WcPersist,
           WcQueueChild, WcConclude, WcUnsaved, WcAnnounce, WcRequeue, WcRelease, WcFault
      <4>. QED  BY <4>1
    <3>. QED  BY <3>1, <3>2
  <2>5. wc'[h].pc \notin Outer
    <3>0. DOMAIN wc[h] = {"pc", "w", "mem", "snap", "todo", "new", "p", "child", "e"}
      BY DEF TypeOK, WcsTypeOK, WcTypeOK
    <3>1. CASE wc'[h].pc \in WcWorking
      BY <3>1 DEF WcWorking
    <3>2. CASE WcDequeue(h) \/ WcDrop(h) \/ WcBounce(h) \/ WcTeardown(h) \/ WcBusy(h)
               \/ WcAcquire(h) \/ WcRequeue(h) \/ WcRelease(h) \/ WcAccept(h)
      BY <3>0, <3>2, <1>1, <1>2 DEF WcDequeue, WcDrop, WcBounce, WcTeardown, WcBusy, WcAcquire,
         WcRequeue, WcRelease, WcAccept, NoUnlockedWriters
    <3>3. CASE WcLoad(h) \/ WcConclude(h) \/ WcUnsaved(h) \/ WcAnnounce(h)
      BY <3>0, <3>3, <1>1 DEF WcLoad, WcConclude, WcUnsaved, WcAnnounce
    <3>4. CASE WcPersist(h)
      BY <3>4, <1>1, <1>3 DEF WcPersist
    <3>5. ASSUME NEW p, NEW inst, NEW n, NEW new, Advance(h, p, inst, n, new)
          PROVE  wc'[h].pc = "run"
      BY <3>0, <3>5, <1>1 DEF Advance
    <3>6. ASSUME NEW p, WcRun(h, p) \/ WcSkip(h, p) \/ WcAbort(h, p) \/ WcStartChild(h, p)
          PROVE  wc'[h].pc \notin Outer
      <4>1. CASE WcRun(h, p)
        BY <4>1, <3>5 DEF WcRun, AdvanceWith
      <4>2. CASE WcSkip(h, p)
        BY <4>2, <3>5 DEF WcSkip
      <4>3. CASE WcAbort(h, p)
        BY <4>3, <1>1, <1>3 DEF WcAbort
      <4>4. CASE WcStartChild(h, p)
        BY <4>4, <3>0, <1>1 DEF WcStartChild
      <4>. QED  BY <3>6, <4>1, <4>2, <4>3, <4>4
    <3>7. CASE WcQueueChild(h)
      BY <3>5, <3>7 DEF WcQueueChild, AdvanceWith
    <3>8. CASE WcFault(h)
      <4>1. CASE wc[h].pc = "queue_child"
        BY <4>1, <3>5, <3>8 DEF WcFault, AdvanceWith
      <4>2. CASE wc[h].pc # "queue_child"
        <5>1. \/ wc' = [wc EXCEPT ![h] = IdleWc]
              \/ wc' = [wc EXCEPT ![h] = Executed(h)]
              \/ wc' = [wc EXCEPT ![h] = [IdleWc EXCEPT !.pc = "release", !.w = wc[h].w]]
              \/ wc' = [wc EXCEPT ![h].pc = "persist", ![h].e = 0]
          BY <4>2, <3>8 DEF WcFault
        <5>2. Executed(h).pc = "idle"
          BY <1>2
        <5>3. \/ wc'[h] = IdleWc \/ wc'[h] = Executed(h)
              \/ wc'[h] = [IdleWc EXCEPT !.pc = "release", !.w = wc[h].w]
              \/ wc'[h].pc = "persist"
          BY <5>1, <3>0, <1>1
        <5>. QED  BY <5>2, <5>3, <1>2, <1>3
      <4>. QED  BY <4>1, <4>2
    <3>. QED  BY <1>5, <2>3, <3>2, <3>3, <3>4, <3>6, <3>7, <3>8 DEF WorkflowConsumer
  <2>6. \A g \in Hosts : wc'[g].pc \notin Outer
    BY <2>1, <2>5 DEF CleanInv
  <2>. HIDE DEF Off
  <2>. QED  BY <2>4, <2>6, <1>4
<1>6. ASSUME wc' = wc, Off PROVE CleanInv'
  BY <1>6 DEF CleanInv
<1>7. ASSUME NEW h \in Hosts, EventConsumer(h) \/ EcFault(h) PROVE CleanInv'
  <2>1. wc' = wc
    BY <1>7, EcKeepsCopy
  <2>2. Off
    <3>1. CASE EcLoad(h)
      BY <3>1, <1>1 DEF EcLoad
    <3>2. CASE ~EcLoad(h)
      <4>1. dirty' = dirty
        BY <1>7, <3>2 DEF EventConsumer, EcDequeue, EcLookup, EcAcquire, EcBusy, EcPersist,
           EcQueue, EcTerminate, EcRelease, EcDone, EcFault
      <4>. QED  BY <4>1
    <3>. QED  BY <3>1, <3>2
  <2>. QED  BY <2>1, <2>2, <1>6
<1>8. ASSUME NEW r \in Requests, Request(r) \/ RqFault(r) PROVE CleanInv'
  BY <1>6, <1>8, RqSteps
<1>9. ASSUME NEW h \in Hosts, Crash(h) PROVE CleanInv'
  <2>1. dirty' = dirty /\ \A g \in Hosts : wc'[g] = wc[g] \/ wc'[g].pc = "idle"
    BY <1>1, <1>2, <1>9 DEF Crash
  <2>2. \A g \in Hosts : wc'[g].pc \notin Outer
    BY <2>1 DEF CleanInv
  <2>. QED  BY <2>1, <2>2, <1>4
<1>10. ASSUME NEW w \in Workflows, NEW p, Tick(w, p) PROVE CleanInv'
  <2>1. dirty' = dirty
    BY <1>10 DEF Tick
  <2>2. \A g \in Hosts : wc'[g].pc \notin Outer
    BY <1>10, TickFrame DEF CleanInv
  <2>. QED  BY <2>1, <2>2, <1>4
<1>11. (\E w \in Workflows : LeaseExpires(w)) \/ UNCHANGED vars => CleanInv'
  BY <1>6 DEF LeaseExpires, vars
<1>. QED
  BY <1>5, <1>7, <1>8, <1>9, <1>10, <1>11 DEF Next, Time

-----------------------------------------------------------------------------
(* FinishedIsFinal.                                                        *)

\* A copy under the lock carries what the store has, and a pass runs pointers
\* that have not finished.
PassInv(h) ==
  wc[h].pc \in WcWorking =>
    /\ SleepOK(wc[h].mem.ptrs) /\ Carries(wc[h].snap.ptrs, wc[h].mem.ptrs)
    /\ \A p \in wc[h].todo : is_pointer_runnable(wc[h].mem.ptrs[p])
DeliveryInv(h) ==
  ec[h].pc = "persist" => SleepOK(ec[h].mem.ptrs) /\ Carries(ec[h].snap.ptrs, ec[h].mem.ptrs)
KeptInv ==
  /\ \A w \in Workflows : SleepOK(store[w].ptrs)
  /\ \A h \in Hosts : PassInv(h) /\ DeliveryInv(h)

\* The pointers of a stored instance, and the clock on them.
LEMMA StoredPointers ==
  ASSUME NEW inst, IsStored(inst)
  PROVE  IsPointers(inst.ptrs) /\ \A p : Later(inst, p).ptrs = Awake(inst.ptrs, p)
<1>1. IsPointers(<<>>) /\ Absent = [status |-> "Absent", ptrs |-> <<>>]
  BY DEF IsPointers, Absent, Instance
<1>2. CASE IsInstance(inst)
  BY <1>2, InstanceParts DEF Later, IsInstance
<1>3. CASE inst = Absent
  BY <1>1, <1>3 DEF Later
<1>. QED  BY <1>2, <1>3 DEF IsStored

\* The pointers of a new instance.
LEMMA CreatedPointers ==
  ASSUME TypeOK, NEW c \in Workflows, Create(c)
  PROVE  /\ \A w \in Workflows : w # c => store'[w] = store[w]
         /\ \A p \in DOMAIN store'[c].ptrs :
              store'[c].ptrs[p].sleep = "none" /\ store'[c].ptrs[p].status = "Pending"
         /\ DOMAIN store[c].ptrs = {}
<1>1. DOMAIN store = Workflows
  BY DEF TypeOK, ProvidersTypeOK
<1>2. store'[c] = NewInstance(DefOf[c]) /\ store[c] = Absent
  BY <1>1 DEF Create
<1>3. \A p \in DOMAIN NewInstance(DefOf[c]).ptrs :
        /\ NewInstance(DefOf[c]).ptrs[p].sleep = "none"
        /\ NewInstance(DefOf[c]).ptrs[p].status = "Pending"
  BY DEF NewInstance, Instance, NewPointer
<1>4. DOMAIN Absent.ptrs = {}
  BY DEF Absent, Instance
<1>. QED  BY <1>1, <1>2, <1>3, <1>4 DEF Create

\* Delivering an event to pointer p wakes p and changes nothing else.
LEMMA DeliveredFields ==
  ASSUME NEW inst, IsStored(inst), NEW p
  PROVE  /\ DOMAIN Delivered(inst, p).ptrs = DOMAIN inst.ptrs
         /\ Delivered(inst, p).status = inst.status
         /\ \A i \in DOMAIN inst.ptrs :
              /\ Delivered(inst, p).ptrs[i].status = inst.ptrs[i].status
              /\ Delivered(inst, p).ptrs[i].sleep = inst.ptrs[i].sleep
              /\ Done(inst.ptrs, i) => Delivered(inst, p).ptrs[i] = inst.ptrs[i]
              /\ Waits(Delivered(inst, p).ptrs, i) => Waits(inst.ptrs, i) /\ i # p
<1>1. CASE p \in DOMAIN inst.ptrs /\ inst.ptrs[p].status = "WaitingForEvent"
  <2>1. IsInstance(inst)
    BY <1>1, AbsentIsNone DEF IsStored
  <2>. DEFINE x == [inst.ptrs[p] EXCEPT !.event = TRUE, !.active = TRUE]
              q == [inst.ptrs EXCEPT ![p] = x]
  <2>2. inst.ptrs[p] \in ExecutionPointer
    BY <2>1, <1>1 DEF IsInstance
  <2>3. x.status = inst.ptrs[p].status /\ x.sleep = inst.ptrs[p].sleep /\ x.event = TRUE
    BY <2>2 DEF ExecutionPointer
  <2>4. Delivered(inst, p).ptrs = q /\ Delivered(inst, p).status = inst.status
    BY <2>1, <1>1 DEF Delivered, IsInstance
  <2>. HIDE DEF x
  <2>5. DOMAIN q = DOMAIN inst.ptrs /\ \A i \in DOMAIN inst.ptrs : q[i] = IF i = p THEN x ELSE inst.ptrs[i]
    BY <2>1 DEF IsInstance
  <2>. HIDE DEF q
  <2>6. ~Done(inst.ptrs, p)
    BY <1>1 DEF Done, DoneStatus
  <2>. QED  BY <2>3, <2>4, <2>5, <2>6 DEF Waits
<1>2. CASE ~(p \in DOMAIN inst.ptrs /\ inst.ptrs[p].status = "WaitingForEvent")
  BY <1>2 DEF Delivered, Waits
<1>. QED  BY <1>1, <1>2

\* The workflow consumer keeps its copy sound.
LEMMA PassInvKept ==
  ASSUME TypeOK, KeptInv, NEW h \in Hosts, Loads(h) \/ GoesOn(h) \/ LetsGo(h)
           \/ \E p : \E new \in Seq(EventSubscription) : DealsWith(h, p, new)
  PROVE  PassInv(h)'
<1>1. /\ wc[h].pc # "idle" => wc[h].w \in Workflows
      /\ wc[h].todo \subseteq DOMAIN wc[h].mem.ptrs
      /\ PassInv(h)
  BY DEF TypeOK, WcsTypeOK, WcTypeOK, KeptInv
<1>2. CASE Loads(h)
  <2>. DEFINE ptrs == store[wc[h].w].ptrs
  <2>1. SleepOK(ptrs)
    BY <1>1, <1>2 DEF Loads, KeptInv
  <2>2. Carries(ptrs, ptrs) /\ \A p \in Runnable(ptrs) : is_pointer_runnable(ptrs[p])
    BY DEF Carries, Runnable
  <2>3. wc'[h].mem.ptrs = ptrs /\ wc'[h].snap.ptrs = ptrs /\ wc'[h].todo = Runnable(ptrs)
    BY <1>2 DEF Loads
  <2>. HIDE DEF ptrs
  <2>. QED  BY <2>1, <2>2, <2>3 DEF PassInv
<1>3. CASE GoesOn(h)
  BY <1>1, <1>3 DEF GoesOn, PassInv
<1>4. CASE LetsGo(h)
  BY <1>4 DEF LetsGo, PassInv
<1>5. ASSUME NEW p, NEW new, DealsWith(h, p, new) PROVE PassInv(h)'
  <2>. DEFINE old == wc[h].mem.ptrs
              mem == wc'[h].mem.ptrs
  <2>1. /\ p \in wc[h].todo /\ Grows(old, mem, p) /\ wc'[h].snap = wc[h].snap
        /\ wc'[h].todo = wc[h].todo \ {p} /\ wc[h].pc \in WcWorking
        /\ mem[p].sleep = "future" => mem[p].status = "Sleeping" \/ old[p].sleep = "future"
    BY <1>5 DEF DealsWith, WcWorking
  <2>2. /\ p \in DOMAIN old /\ SleepOK(old) /\ Carries(wc[h].snap.ptrs, old)
        /\ \A i \in wc[h].todo : i \in DOMAIN old /\ is_pointer_runnable(old[i])
    BY <2>1, <1>1 DEF PassInv
  <2>. HIDE DEF old, mem
  <2>3. ~Done(old, p) /\ old[p].sleep # "future"
    BY <2>1, <2>2, RunnableNotDone
  <2>4. SleepOK(mem)
    BY <2>1, <2>2, <2>3, GrowsSleepOK
  <2>5. Carries(wc[h].snap.ptrs, mem)
    BY <2>1, <2>2, <2>3, GrowsCarries
  <2>6. \A i \in wc'[h].todo : is_pointer_runnable(mem[i])
    BY <2>1, <2>2 DEF Grows
  <2>7. SleepOK(mem) /\ Carries(wc'[h].snap.ptrs, mem) /\ \A i \in wc'[h].todo : is_pointer_runnable(mem[i])
    BY <2>1, <2>4, <2>5, <2>6
  <2>. QED  BY <2>7 DEF PassInv, mem
<1>. QED  BY <1>2, <1>3, <1>4, <1>5

\* The clock, on every copy.
LEMMA KeptTick ==
  ASSUME TypeOK, KeptInv, NEW w \in Workflows, NEW p, Tick(w, p)
  PROVE  KeptInv'
<1>1. /\ DOMAIN store = Workflows /\ \A v \in Workflows : IsStored(store[v])
      /\ store' = [store EXCEPT ![w] = Later(store[w], p)]
  BY DEF TypeOK, ProvidersTypeOK, Tick
<1>2. ASSUME NEW v \in Workflows PROVE SleepOK(store'[v].ptrs)
  <2>1. SleepOK(store[v].ptrs) /\ IsPointers(store[v].ptrs)
    BY <1>1, StoredPointers DEF KeptInv
  <2>2. store'[v].ptrs = store[v].ptrs \/ store'[v].ptrs = Awake(store[v].ptrs, p)
    BY <1>1, StoredPointers
  <2>. QED  BY <2>1, <2>2, AwakeSleepOK
<1>3. ASSUME NEW h \in Hosts PROVE PassInv(h)'
  <2>1. /\ IsStored(wc[h].mem) /\ IsStored(wc[h].snap) /\ PassInv(h)
        /\ wc[h].todo \subseteq DOMAIN wc[h].mem.ptrs
        /\ DOMAIN wc[h] = {"pc", "w", "mem", "snap", "todo", "new", "p", "child", "e"}
    BY DEF TypeOK, WcsTypeOK, WcTypeOK, KeptInv
  <2>2. wc'[h].pc = wc[h].pc /\ wc'[h].todo = wc[h].todo
    BY <2>1 DEF Tick
  <2>. DEFINE mem == wc[h].mem.ptrs
              snap == wc[h].snap.ptrs
  <2>3. IsPointers(mem) /\ IsPointers(snap)
    BY <2>1, StoredPointers
  <2>4. CASE wc[h].w # w
    BY <2>1, <2>4, TickFrame DEF PassInv
  <2>5. CASE wc[h].w = w
    <3>1. wc'[h].mem.ptrs = Awake(mem, p) /\ wc'[h].snap.ptrs = Awake(snap, p)
      BY <2>1, <2>5, TickFrame, StoredPointers
    <3>2. ASSUME wc[h].pc \in WcWorking
          PROVE  /\ SleepOK(Awake(mem, p)) /\ Carries(Awake(snap, p), Awake(mem, p))
                 /\ \A i \in wc[h].todo : is_pointer_runnable(Awake(mem, p)[i])
      <4>1. SleepOK(mem) /\ Carries(snap, mem) /\ \A i \in wc[h].todo : is_pointer_runnable(mem[i])
        BY <3>2, <2>1 DEF PassInv
      <4>. HIDE DEF mem, snap
      <4>2. SleepOK(Awake(mem, p)) /\ Carries(Awake(snap, p), Awake(mem, p))
        BY <4>1, <2>3, AwakeSleepOK, AwakeCarries
      <4>3. \A i \in wc[h].todo : is_pointer_runnable(Awake(mem, p)[i])
        BY <4>1, <2>1, <2>3, AwakeRunnable DEF mem
      <4>. QED  BY <4>2, <4>3
    <3>. HIDE DEF mem, snap
    <3>. QED  BY <3>1, <3>2, <2>2 DEF PassInv
  <2>. QED  BY <2>4, <2>5
<1>4. ASSUME NEW h \in Hosts PROVE DeliveryInv(h)'
  <2>1. IsStored(ec[h].mem) /\ IsStored(ec[h].snap) /\ DeliveryInv(h)
    BY DEF TypeOK, EcsTypeOK, EcTypeOK, KeptInv
  <2>2. ec'[h].pc = ec[h].pc
    BY TickFrame
  <2>. DEFINE mem == ec[h].mem.ptrs
              snap == ec[h].snap.ptrs
  <2>3. IsPointers(mem) /\ IsPointers(snap)
    BY <2>1, StoredPointers
  <2>4. CASE ec[h].w # w
    BY <2>1, <2>4, TickFrame DEF DeliveryInv
  <2>5. CASE ec[h].w = w
    <3>1. ec'[h].mem.ptrs = Awake(mem, p) /\ ec'[h].snap.ptrs = Awake(snap, p)
      BY <2>1, <2>5, TickFrame, StoredPointers
    <3>2. ec[h].pc = "persist" => SleepOK(mem) /\ Carries(snap, mem)
      BY <2>1 DEF DeliveryInv
    <3>. HIDE DEF mem, snap
    <3>. QED  BY <3>1, <3>2, <2>2, <2>3, AwakeSleepOK, AwakeCarries DEF DeliveryInv
  <2>. QED  BY <2>4, <2>5
<1>. QED  BY <1>2, <1>3, <1>4 DEF KeptInv

LEMMA KeptNext ==
  ASSUME TypeOK, NoUnlockedWriters, CleanInv, KeptInv, [Next]_vars
  PROVE  KeptInv'
<1>1. DOMAIN store = Workflows
  BY DEF TypeOK, ProvidersTypeOK
<1>. DEFINE Stored == \A w \in Workflows : SleepOK(store'[w].ptrs)
<1>2. ASSUME store' = store \/ \E c \in Workflows : Create(c) PROVE Stored
  <2>1. ASSUME NEW c \in Workflows, Create(c) PROVE Stored
    <3>1. /\ \A w \in Workflows : w # c => store'[w] = store[w]
          /\ \A p \in DOMAIN store'[c].ptrs : store'[c].ptrs[p].sleep = "none"
      BY <2>1, CreatedPointers
    <3>2. SleepOK(store'[c].ptrs)
      BY <3>1 DEF SleepOK
    <3>. QED  BY <3>1, <3>2 DEF KeptInv
  <2>. QED  BY <1>2, <2>1 DEF KeptInv
<1>3. ASSUME NEW w \in Workflows, NEW inst, store' = [store EXCEPT ![w] = inst],
             SleepOK(inst.ptrs)
      PROVE  Stored
  BY <1>1, <1>3 DEF KeptInv
<1>. HIDE DEF Stored
<1>4. ASSUME NEW h \in Hosts, wc'[h] = wc[h] PROVE PassInv(h)'
  BY <1>4 DEF PassInv, KeptInv
<1>5. ASSUME NEW h \in Hosts, ec'[h] = ec[h] PROVE DeliveryInv(h)'
  BY <1>5 DEF DeliveryInv, KeptInv
<1>6. ASSUME Stored, \A h \in Hosts : PassInv(h)' /\ DeliveryInv(h)' PROVE KeptInv'
  BY <1>6 DEF KeptInv, Stored
<1>7. ASSUME NEW h \in Hosts, WorkflowConsumer(h) \/ WcFault(h) \/ WcUnsaved(h) PROVE KeptInv'
  <2>1. (\A g \in Hosts \ {h} : wc'[g] = wc[g]) /\ ec' = ec
    BY <1>7, WcKeepsCopy
  <2>2. ~WcInject(h)
    BY DEF CleanInv, WcInject
  <2>3. CASE WcPersist(h)
    <3>1. /\ wc[h].pc = "persist" /\ store' = [store EXCEPT ![wc[h].w] = wc[h].mem]
          /\ wc'[h].pc \notin WcWorking
      <4>1. wc[h].pc = "persist" /\ store' = [store EXCEPT ![wc[h].w] = wc[h].mem]
        BY <2>3 DEF WcPersist
      <4>2. ~WcLoad(h)
        BY <4>1 DEF WcLoad
      <4>. QED  BY <4>1, <4>2, <2>3, <1>7, WcKeepsCopy
    <3>2. wc[h].w \in Workflows /\ SleepOK(wc[h].mem.ptrs)
      BY <3>1 DEF KeptInv, PassInv, WcWorking, TypeOK, WcsTypeOK, WcTypeOK
    <3>3. Stored
      BY <3>1, <3>2, <1>3
    <3>4. PassInv(h)'
      BY <3>1 DEF PassInv
    <3>. QED  BY <3>3, <3>4, <2>1, <1>4, <1>5, <1>6
  <2>4. CASE ~WcPersist(h)
    <3>1. Loads(h) \/ GoesOn(h) \/ LetsGo(h)
            \/ \E p : \E new \in Seq(EventSubscription) : DealsWith(h, p, new)
      BY <2>2, <2>4, <1>7, WcSteps
    <3>2. PassInv(h)'
      BY <3>1, PassInvKept
    <3>3. store' = store \/ \E c \in Workflows : Create(c)
      BY <3>1 DEF Loads, GoesOn, LetsGo, DealsWith
    <3>. QED  BY <3>2, <3>3, <2>1, <1>2, <1>4, <1>5, <1>6
  <2>. QED  BY <2>3, <2>4
<1>8. ASSUME NEW h \in Hosts, EventConsumer(h) \/ EcFault(h) PROVE KeptInv'
  <2>1. /\ (\A g \in Hosts \ {h} : ec'[g] = ec[g]) /\ wc' = wc
        /\ ec'[h].pc = "persist" => EcLoad(h)
    BY <1>8, EcKeepsCopy
  <2>2. CASE EcLoad(h)
    <3>1. /\ DOMAIN ec = Hosts
          /\ DOMAIN ec[h] = {"pc", "e", "todo", "s", "w", "mem", "snap", "ok"}
          /\ ec[h].pc \in EcHolding => ec[h].w \in Workflows
      BY DEF TypeOK, EcsTypeOK, EcTypeOK
    <3>. DEFINE inst == store[ec[h].w]
                q == subs[ec[h].s].ptr
    <3>2. /\ store' = store /\ ec[h].pc = "load" /\ ec'[h].snap = inst
          /\ ec'[h].mem = Delivered(inst, q)
      BY <2>2, <3>1 DEF EcLoad, persistence
    <3>3. IsStored(inst) /\ SleepOK(inst.ptrs)
      BY <3>1, <3>2 DEF KeptInv, TypeOK, ProvidersTypeOK, EcHolding
    <3>. HIDE DEF inst, q
    <3>4. /\ DOMAIN Delivered(inst, q).ptrs = DOMAIN inst.ptrs
          /\ \A i \in DOMAIN inst.ptrs :
               /\ Delivered(inst, q).ptrs[i].status = inst.ptrs[i].status
               /\ Delivered(inst, q).ptrs[i].sleep = inst.ptrs[i].sleep
               /\ Done(inst.ptrs, i) => Delivered(inst, q).ptrs[i] = inst.ptrs[i]
      BY <3>3, DeliveredFields
    <3>5. SleepOK(Delivered(inst, q).ptrs) /\ Carries(inst.ptrs, Delivered(inst, q).ptrs)
      BY <3>3, <3>4 DEF SleepOK, Carries
    <3>6. DeliveryInv(h)'
      BY <3>2, <3>5 DEF DeliveryInv
    <3>. QED  BY <3>2, <3>6, <2>1, <1>2, <1>4, <1>5, <1>6
  <2>3. CASE ~EcLoad(h)
    <3>1. DeliveryInv(h)'
      BY <2>1, <2>3 DEF DeliveryInv
    <3>2. Stored
      <4>1. CASE EcPersist(h)
        <5>1. ec[h].pc = "persist" /\ store' = [store EXCEPT ![ec[h].w] = ec[h].mem]
          BY <4>1 DEF EcPersist
        <5>2. ec[h].w \in Workflows /\ SleepOK(ec[h].mem.ptrs)
          BY <5>1 DEF KeptInv, DeliveryInv, TypeOK, EcsTypeOK, EcTypeOK, EcHolding
        <5>. QED  BY <5>1, <5>2, <1>3
      <4>2. CASE ~EcPersist(h)
        <5>1. store' = store
          BY <4>2, <2>3, <1>8, EcSteps DEF EcQueue, EcTerminate, EcAcquire, LetsGoEc, persistence
        <5>. QED  BY <5>1, <1>2
      <4>. QED  BY <4>1, <4>2
    <3>. QED  BY <3>1, <3>2, <2>1, <1>4, <1>5, <1>6
  <2>. QED  BY <2>2, <2>3
<1>9. ASSUME NEW r \in Requests, Request(r) \/ RqFault(r) PROVE KeptInv'
  BY <1>9, <1>2, <1>4, <1>5, <1>6, RqSteps
<1>10. ASSUME NEW h \in Hosts, Crash(h) PROVE KeptInv'
  <2>1. DOMAIN wc = Hosts /\ DOMAIN ec = Hosts
    BY DEF TypeOK, WcsTypeOK, EcsTypeOK
  <2>2. /\ wc'[h] = IdleWc /\ ec'[h] = IdleEc /\ store' = store
        /\ \A g \in Hosts \ {h} : wc'[g] = wc[g] /\ ec'[g] = ec[g]
    BY <2>1, <1>10 DEF Crash, persistence
  <2>3. PassInv(h)' /\ DeliveryInv(h)'
    BY <2>2 DEF PassInv, DeliveryInv, IdleWc, IdleEc, WcWorking
  <2>. QED  BY <2>2, <2>3, <1>2, <1>4, <1>5, <1>6
<1>11. ASSUME NEW w \in Workflows, NEW p, Tick(w, p) PROVE KeptInv'
  BY <1>11, KeptTick
<1>12. (\E w \in Workflows : LeaseExpires(w)) \/ UNCHANGED vars => KeptInv'
  BY <1>2, <1>4, <1>5, <1>6 DEF LeaseExpires, persistence, vars
<1>. QED
  BY <1>7, <1>8, <1>9, <1>10, <1>11, <1>12 DEF Next, Time

\* A step of the system undoes no finished pointer in the store.
LEMMA FinishedKept ==
  ASSUME TypeOK, NoUnlockedWriters, CleanInv, KeptInv, NoLostUpdate, [Next]_vars,
         NEW w \in Workflows
  PROVE  Carries(store[w].ptrs, store'[w].ptrs)
<1>1. DOMAIN store = Workflows /\ \A v \in Workflows : IsStored(store[v]) /\ ~dirty[v]
  BY DEF TypeOK, ProvidersTypeOK, CleanInv
<1>2. store'[w] = store[w] => Carries(store[w].ptrs, store'[w].ptrs)
  BY DEF Carries
<1>3. ASSUME NEW h \in Hosts, WcPersist(h) PROVE Carries(store[w].ptrs, store'[w].ptrs)
  <2>1. wc[h].pc \in WcWorking /\ store' = [store EXCEPT ![wc[h].w] = wc[h].mem]
    BY <1>3 DEF WcPersist, WcWorking
  <2>2. /\ wc[h].w \in Workflows /\ wc[h].snap = store[wc[h].w]
        /\ Carries(wc[h].snap.ptrs, wc[h].mem.ptrs)
    <3>1. wc[h].w \in Workflows
      BY <2>1 DEF TypeOK, WcsTypeOK, WcTypeOK, WcWorking
    <3>. QED  BY <3>1, <2>1, <1>1 DEF NoLostUpdate, KeptInv, PassInv
  <2>3. CASE w = wc[h].w
    BY <2>1, <2>2, <2>3, <1>1
  <2>4. CASE w # wc[h].w
    BY <2>1, <2>4, <1>1, <1>2
  <2>. QED  BY <2>3, <2>4
<1>4. ASSUME NEW h \in Hosts, EcPersist(h) PROVE Carries(store[w].ptrs, store'[w].ptrs)
  <2>1. ec[h].pc = "persist" /\ store' = [store EXCEPT ![ec[h].w] = ec[h].mem]
    BY <1>4 DEF EcPersist
  <2>2. /\ ec[h].w \in Workflows /\ ec[h].snap = store[ec[h].w]
        /\ Carries(ec[h].snap.ptrs, ec[h].mem.ptrs)
    <3>1. ec[h].w \in Workflows
      BY <2>1 DEF TypeOK, EcsTypeOK, EcTypeOK, EcHolding
    <3>. QED  BY <3>1, <2>1, <1>1 DEF NoLostUpdate, KeptInv, DeliveryInv
  <2>3. CASE w = ec[h].w
    BY <2>1, <2>2, <2>3, <1>1
  <2>4. CASE w # ec[h].w
    BY <2>1, <2>4, <1>1, <1>2
  <2>. QED  BY <2>3, <2>4
<1>5. ASSUME NEW c \in Workflows, Create(c) PROVE Carries(store[w].ptrs, store'[w].ptrs)
  <2>1. (w # c => store'[w] = store[w]) /\ DOMAIN store[c].ptrs = {}
    BY <1>5, CreatedPointers
  <2>. QED  BY <2>1, <1>2 DEF Carries
<1>6. ASSUME NEW v \in Workflows, NEW p, Tick(v, p) PROVE Carries(store[w].ptrs, store'[w].ptrs)
  <2>1. store' = [store EXCEPT ![v] = Later(store[v], p)]
    BY <1>6 DEF Tick
  <2>2. store'[w] = store[w] \/ store'[w].ptrs = Awake(store[w].ptrs, p)
    BY <2>1, <1>1, StoredPointers
  <2>3. IsPointers(store[w].ptrs) /\ SleepOK(store[w].ptrs)
    BY <1>1, StoredPointers DEF KeptInv
  <2>4. Carries(store[w].ptrs, Awake(store[w].ptrs, p))
    <3>1. DOMAIN Awake(store[w].ptrs, p) = DOMAIN store[w].ptrs
      BY DEF Awake
    <3>2. \A i \in DOMAIN store[w].ptrs : Done(store[w].ptrs, i) => Awake(store[w].ptrs, p)[i] = store[w].ptrs[i]
      BY <2>3, AwakeKeepsDone
    <3>. QED  BY <3>1, <3>2 DEF Carries
  <2>. QED  BY <2>2, <2>4, <1>2
<1>7. ASSUME NEW h \in Hosts PROVE ~WcInject(h)
  BY DEF CleanInv, WcInject
<1>8. ASSUME NEW r \in Requests PROVE ~RqPersist(r)
  BY DEF NoUnlockedWriters, RqPersist, TypeOK, RqsTypeOK, RqTypeOK
<1>9. ASSUME NEW h \in Hosts, NEW p, WcStartChild(h, p) PROVE \E c \in Workflows : Create(c)
  <2>1. wc[h].w \in Workflows
    BY <1>9 DEF WcStartChild, OnTurn, TypeOK, WcsTypeOK, WcTypeOK
  <2>. QED  BY <2>1, <1>9, SetsAssumption DEF WcStartChild
<1>10. ASSUME NEW r \in Requests, RqStart(r) PROVE \E c \in Workflows : Create(c)
  BY <1>10, RequestsAssumption DEF RqStart
<1>. QED  BY <1>2, <1>3, <1>4, <1>5, <1>6, <1>7, <1>8, <1>9, <1>10, StoreWriters

LEMMA KeptAlways ==
  ASSUME NoUnlockedWriters
  PROVE  Spec => [](CleanInv /\ KeptInv)
<1>1. Init => CleanInv /\ KeptInv
  <2>1. DOMAIN Absent.ptrs = {}
    BY DEF Absent, Instance
  <2>2. SleepOK(Absent.ptrs)
    BY <2>1 DEF SleepOK
  <2>. QED  BY <2>2 DEF Init, CleanInv, KeptInv, PassInv, DeliveryInv, IdleWc, IdleEc, WcWorking
<1>2. TypeOK /\ CleanInv /\ KeptInv /\ [Next]_vars => (CleanInv /\ KeptInv)'
  BY CleanNext, KeptNext
<1>. QED  BY <1>1, <1>2, TypesKept, PTL DEF Spec

\* When only the consumers write instances that exist, no host, whatever it
\* crashes on or fails to do, makes the store forget a pointer or run one again
\* that has finished: execute and process_event write back what they loaded,
\* with the finished pointers untouched.
THEOREM FinishedStaysDone ==
  ASSUME NoUnlockedWriters
  PROVE  Spec => FinishedIsFinal
<1>1. TypeOK /\ CleanInv /\ KeptInv /\ NoLostUpdate /\ [Next]_vars =>
        [\A w \in Workflows : \A p \in DOMAIN store[w].ptrs :
           /\ p \in DOMAIN store'[w].ptrs
           /\ store[w].ptrs[p].status \in DoneStatus
                => store'[w].ptrs[p] = store[w].ptrs[p]]_vars
  BY FinishedKept DEF Carries, Done
<1>. QED  BY <1>1, KeptAlways, TypesKept, NoUpdateLost, PTL DEF Spec, FinishedIsFinal

-----------------------------------------------------------------------------
(* WaitersSubscribed.                                                      *)

\* A waiting pointer of a pass has an open subscription or one among those the
\* pass is going to persist.
PassWaits(h) ==
  wc[h].pc \in WcWorking =>
    \A p \in DOMAIN wc[h].mem.ptrs :
      Waits(wc[h].mem.ptrs, p) => OpenFor(subs, wc[h].w, p) \/ OpenFor(wc[h].new, wc[h].w, p)

\* The subscription that the event consumer serves is one of its instance, and
\* the pointer of it does not wait any more before the subscription is closed.
DeliveryWaits(h) ==
  /\ ec[h].pc \in EcHolding \ {"release"} => subs[ec[h].s].w = ec[h].w
  /\ ec[h].pc = "persist" =>
       \A p \in DOMAIN ec[h].mem.ptrs :
         Waits(ec[h].mem.ptrs, p) => OpenFor(subs, ec[h].w, p) /\ p # subs[ec[h].s].ptr
  /\ ec[h].pc \in {"queue", "terminate"} =>
       \A p \in DOMAIN store[ec[h].w].ptrs :
         Waits(store[ec[h].w].ptrs, p) => p # subs[ec[h].s].ptr

WaitInv == WaitersSubscribed /\ \A h \in Hosts : PassWaits(h) /\ DeliveryWaits(h)

\* What holds of a step that closes no subscription of instance w, and of one
\* after which w has no pointers waiting that did not wait before.
KeepsOpen(w) == \A p : OpenFor(subs, w, p) => OpenFor(subs', w, p)
NoMoreWaits(w) ==
  \A p \in DOMAIN store'[w].ptrs :
    Waits(store'[w].ptrs, p) => p \in DOMAIN store[w].ptrs /\ Waits(store[w].ptrs, p)
KeepsSubs ==
  \A s \in DOMAIN subs : s \in DOMAIN subs' /\ subs'[s].w = subs[s].w /\ subs'[s].ptr = subs[s].ptr

\* Appending subscriptions keeps the ones there are and adds the new ones.
LEMMA OpenInConcat ==
  ASSUME NEW a \in Seq(EventSubscription), NEW b \in Seq(EventSubscription), NEW w, NEW p,
         OpenFor(a, w, p) \/ OpenFor(b, w, p)
  PROVE  OpenFor(a \o b, w, p)
<1>1. CASE OpenFor(a, w, p)
  <2>1. \A s \in DOMAIN a : s \in DOMAIN (a \o b) /\ (a \o b)[s] = a[s]
    OBVIOUS
  <2>. QED  BY <2>1, <1>1 DEF OpenFor
<1>2. CASE OpenFor(b, w, p)
  <2>1. PICK s \in DOMAIN b : b[s].w = w /\ b[s].ptr = p /\ b[s].open
    BY <1>2 DEF OpenFor
  <2>2. PICK k : k = Len(a) + s
    OBVIOUS
  <2>3. s \in 1..Len(b) /\ Len(a) \in Nat /\ Len(b) \in Nat
    OBVIOUS
  <2>4. k \in 1..(Len(a) + Len(b)) /\ ~(k <= Len(a)) /\ k - Len(a) = s
    BY <2>2, <2>3
  <2>5. DOMAIN (a \o b) = 1..(Len(a) + Len(b))
    OBVIOUS
  <2>6. (a \o b)[k] = b[s]
    BY <2>4, <2>5, ConcatProperties
  <2>. QED  BY <2>1, <2>4, <2>5, <2>6 DEF OpenFor
<1>. QED  BY <1>1, <1>2

\* Those who do nothing.
LEMMA WaitFrame ==
  ASSUME TypeOK, WaitInv, KeepsSubs
  PROVE  /\ \A w \in Workflows : KeepsOpen(w) /\ NoMoreWaits(w) =>
              \A p \in DOMAIN store'[w].ptrs : Waits(store'[w].ptrs, p) => OpenFor(subs', w, p)
         /\ \A h \in Hosts :
              /\ wc'[h] = wc[h]
              /\ wc[h].pc \in WcWorking => KeepsOpen(wc[h].w)
              => PassWaits(h)'
         /\ \A h \in Hosts :
              /\ ec'[h] = ec[h]
              /\ ec[h].pc = "persist" => KeepsOpen(ec[h].w)
              /\ ec[h].pc \in {"queue", "terminate"} => NoMoreWaits(ec[h].w)
              => DeliveryWaits(h)'
<1>1. ASSUME NEW w \in Workflows, KeepsOpen(w), NoMoreWaits(w),
             NEW p \in DOMAIN store'[w].ptrs, Waits(store'[w].ptrs, p)
      PROVE  OpenFor(subs', w, p)
  <2>1. p \in DOMAIN store[w].ptrs /\ Waits(store[w].ptrs, p)
    BY <1>1 DEF NoMoreWaits
  <2>2. OpenFor(subs, w, p)
    BY <2>1 DEF WaitInv, WaitersSubscribed, Waits, OpenFor
  <2>. QED  BY <2>2, <1>1 DEF KeepsOpen
<1>2. ASSUME NEW h \in Hosts, wc'[h] = wc[h], wc[h].pc \in WcWorking => KeepsOpen(wc[h].w)
      PROVE  PassWaits(h)'
  <2>1. PassWaits(h)
    BY DEF WaitInv
  <2>. QED  BY <2>1, <1>2 DEF PassWaits, KeepsOpen
<1>3. ASSUME NEW h \in Hosts, ec'[h] = ec[h],
             ec[h].pc = "persist" => KeepsOpen(ec[h].w),
             ec[h].pc \in {"queue", "terminate"} => NoMoreWaits(ec[h].w)
      PROVE  DeliveryWaits(h)'
  <2>1. DeliveryWaits(h) /\ (ec[h].pc \in EcHolding => ec[h].s \in DOMAIN subs)
    BY DEF WaitInv, TypeOK, EcsTypeOK, EcTypeOK
  <2>2. ec[h].pc \in EcHolding => /\ subs'[ec[h].s].w = subs[ec[h].s].w
                                  /\ subs'[ec[h].s].ptr = subs[ec[h].s].ptr
    BY <2>1 DEF KeepsSubs
  <2>3. {"persist", "queue", "terminate"} \subseteq EcHolding
    BY DEF EcHolding
  <2>4. ec[h].pc \in EcHolding \ {"release"} => subs'[ec[h].s].w = ec[h].w
    BY <2>1, <2>2 DEF DeliveryWaits
  <2>5. ec[h].pc = "persist" =>
          \A p \in DOMAIN ec[h].mem.ptrs :
            Waits(ec[h].mem.ptrs, p) => OpenFor(subs', ec[h].w, p) /\ p # subs'[ec[h].s].ptr
    BY <2>1, <2>2, <2>3, <1>3 DEF DeliveryWaits, KeepsOpen
  <2>6. ec[h].pc \in {"queue", "terminate"} =>
          \A p \in DOMAIN store'[ec[h].w].ptrs :
            Waits(store'[ec[h].w].ptrs, p) => p # subs'[ec[h].s].ptr
    BY <2>1, <2>2, <2>3, <1>3 DEF DeliveryWaits, NoMoreWaits
  <2>. QED  BY <2>4, <2>5, <2>6, <1>3 DEF DeliveryWaits
<1>. QED  BY <1>1, <1>2, <1>3

\* A step that leaves the subscriptions alone closes none.
LEMMA SameSubs ==
  ASSUME subs' = subs
  PROVE  KeepsSubs /\ \A w : KeepsOpen(w)
BY DEF KeepsSubs, KeepsOpen

LEMMA SameStore ==
  ASSUME TypeOK, store' = store \/ \E c \in Workflows : Create(c), NEW w \in Workflows
  PROVE  NoMoreWaits(w)
<1>1. store'[w] = store[w] => NoMoreWaits(w)
  BY DEF NoMoreWaits
<1>2. ASSUME NEW c \in Workflows, Create(c) PROVE NoMoreWaits(w)
  <2>1. /\ \A v \in Workflows : v # c => store'[v] = store[v]
        /\ \A p \in DOMAIN store'[c].ptrs : store'[c].ptrs[p].status = "Pending"
    BY <1>2, CreatedPointers
  <2>. QED  BY <2>1, <1>1 DEF NoMoreWaits, Waits
<1>. QED  BY <1>1, <1>2

\* The workflow consumer.
LEMMA PassWaitsKept ==
  ASSUME TypeOK, WaitInv, NEW h \in Hosts, Loads(h) \/ GoesOn(h) \/ LetsGo(h)
           \/ \E p : \E new \in Seq(EventSubscription) : DealsWith(h, p, new)
  PROVE  PassWaits(h)'
<1>1. /\ wc[h].pc # "idle" => wc[h].w \in Workflows
      /\ wc[h].new \in Seq(EventSubscription) /\ PassWaits(h)
      /\ wc[h].todo \subseteq DOMAIN wc[h].mem.ptrs
  BY DEF TypeOK, WcsTypeOK, WcTypeOK, WaitInv
<1>2. CASE Loads(h)
  <2>1. /\ subs' = subs /\ wc'[h].w = wc[h].w /\ wc'[h].mem = store[wc[h].w]
        /\ wc[h].w \in Workflows
    BY <1>1, <1>2 DEF Loads
  <2>2. \A p \in DOMAIN store[wc[h].w].ptrs : Waits(store[wc[h].w].ptrs, p) => OpenFor(subs, wc[h].w, p)
    BY <2>1 DEF WaitInv, WaitersSubscribed, Waits, OpenFor
  <2>. QED  BY <2>1, <2>2 DEF PassWaits
<1>3. CASE GoesOn(h)
  BY <1>1, <1>3 DEF GoesOn, PassWaits
<1>4. CASE LetsGo(h)
  BY <1>4 DEF LetsGo, PassWaits
<1>5. ASSUME NEW p, NEW new \in Seq(EventSubscription), DealsWith(h, p, new) PROVE PassWaits(h)'
  <2>. DEFINE old == wc[h].mem.ptrs
              mem == wc'[h].mem.ptrs
              w == wc[h].w
  <2>1. /\ subs' = subs /\ wc'[h].w = w /\ wc'[h].new = wc[h].new \o new
        /\ Grows(old, mem, p) /\ (Waits(mem, p) => OpenFor(new, w, p))
        /\ wc[h].pc \in WcWorking
    BY <1>5 DEF DealsWith, WcWorking
  <2>2. \A i : OpenFor(wc[h].new, w, i) \/ OpenFor(new, w, i) => OpenFor(wc[h].new \o new, w, i)
    BY <1>1, OpenInConcat
  <2>. HIDE DEF old, mem, w
  <2>3. ASSUME NEW i \in DOMAIN mem, Waits(mem, i)
        PROVE  OpenFor(subs, w, i) \/ OpenFor(wc[h].new \o new, w, i)
    <3>1. CASE i = p
      BY <3>1, <2>1, <2>2, <2>3
    <3>2. CASE i # p /\ i \in DOMAIN old
      <4>1. Waits(old, i)
        BY <3>2, <2>1, <2>3 DEF Grows, Waits
      <4>. QED  BY <4>1, <3>2, <2>1, <2>2, <1>1 DEF PassWaits, old, w
    <3>3. CASE i \notin DOMAIN old
      BY <3>3, <2>1, <2>3 DEF Grows, Fresh, Waits
    <3>. QED  BY <3>1, <3>2, <3>3
  <2>4. \A i \in DOMAIN mem : Waits(mem, i) => OpenFor(subs', wc'[h].w, i) \/ OpenFor(wc'[h].new, wc'[h].w, i)
    BY <2>1, <2>3
  <2>. QED  BY <2>4 DEF PassWaits, mem
<1>. QED  BY <1>2, <1>3, <1>4, <1>5

\* The clock.
LEMMA WaitTick ==
  ASSUME TypeOK, WaitInv, NEW w \in Workflows, NEW p, Tick(w, p)
  PROVE  WaitInv'
<1>1. /\ DOMAIN store = Workflows /\ \A v \in Workflows : IsStored(store[v])
      /\ store' = [store EXCEPT ![w] = Later(store[w], p)] /\ subs' = subs
  BY DEF TypeOK, ProvidersTypeOK, Tick
<1>2. ASSUME NEW inst, IsStored(inst)
      PROVE  \A i \in DOMAIN Later(inst, p).ptrs :
               Waits(Later(inst, p).ptrs, i) => i \in DOMAIN inst.ptrs /\ Waits(inst.ptrs, i)
  <2>1. IsPointers(inst.ptrs) /\ Later(inst, p).ptrs = Awake(inst.ptrs, p)
    BY <1>2, StoredPointers
  <2>2. DOMAIN Awake(inst.ptrs, p) = DOMAIN inst.ptrs
    BY DEF Awake
  <2>. QED  BY <2>1, <2>2, AwakeFields DEF Waits
<1>3. ASSUME NEW v \in Workflows PROVE NoMoreWaits(v)
  <2>1. store'[v] = store[v] \/ store'[v] = Later(store[v], p)
    BY <1>1
  <2>. QED  BY <2>1, <1>1, <1>2 DEF NoMoreWaits
<1>4. KeepsSubs /\ \A v : KeepsOpen(v)
  BY <1>1, SameSubs
<1>5. WaitersSubscribed'
  <2>1. \A v \in Workflows : \A i \in DOMAIN store'[v].ptrs :
          Waits(store'[v].ptrs, i) => OpenFor(subs', v, i)
    BY <1>3, <1>4, WaitFrame
  <2>. QED  BY <2>1 DEF WaitersSubscribed, Waits, OpenFor
<1>6. ASSUME NEW h \in Hosts PROVE PassWaits(h)'
  <2>1. IsStored(wc[h].mem) /\ PassWaits(h)
    BY DEF TypeOK, WcsTypeOK, WcTypeOK, WaitInv
  <2>2. CASE wc[h].w # w
    BY <2>2, <1>4, TickFrame, WaitFrame
  <2>3. CASE wc[h].w = w
    <3>1. /\ wc'[h].mem = Later(wc[h].mem, p) /\ wc'[h].pc = wc[h].pc
          /\ wc'[h].w = wc[h].w /\ wc'[h].new = wc[h].new
      BY <2>3, TickFrame
    <3>. QED  BY <3>1, <2>1, <1>1, <1>2 DEF PassWaits
  <2>. QED  BY <2>2, <2>3
<1>7. ASSUME NEW h \in Hosts PROVE DeliveryWaits(h)'
  <2>1. /\ IsStored(ec[h].mem) /\ DeliveryWaits(h)
        /\ ec[h].pc \in EcHolding => ec[h].w \in Workflows
    BY DEF TypeOK, EcsTypeOK, EcTypeOK, WaitInv
  <2>2. ec[h].pc \in {"queue", "terminate"} => NoMoreWaits(ec[h].w)
    BY <2>1, <1>3 DEF EcHolding
  <2>3. CASE ec[h].w # w
    BY <2>2, <2>3, <1>4, TickFrame, WaitFrame
  <2>4. CASE ec[h].w = w
    <3>1. /\ ec'[h].mem = Later(ec[h].mem, p) /\ ec'[h].pc = ec[h].pc
          /\ ec'[h].w = ec[h].w /\ ec'[h].s = ec[h].s
      BY <2>4, TickFrame
    <3>2. ec[h].pc \in EcHolding \ {"release"} => subs'[ec[h].s].w = ec[h].w
      BY <2>1, <1>1 DEF DeliveryWaits
    <3>3. ec[h].pc = "persist" =>
            \A i \in DOMAIN ec'[h].mem.ptrs :
              Waits(ec'[h].mem.ptrs, i) => OpenFor(subs', ec[h].w, i) /\ i # subs'[ec[h].s].ptr
      BY <3>1, <2>1, <1>1, <1>2 DEF DeliveryWaits
    <3>4. ec[h].pc \in {"queue", "terminate"} =>
            \A i \in DOMAIN store'[ec[h].w].ptrs :
              Waits(store'[ec[h].w].ptrs, i) => i # subs'[ec[h].s].ptr
      BY <2>1, <2>2, <1>1 DEF DeliveryWaits, NoMoreWaits
    <3>. QED  BY <3>1, <3>2, <3>3, <3>4 DEF DeliveryWaits
  <2>. QED  BY <2>3, <2>4
<1>. QED  BY <1>5, <1>6, <1>7 DEF WaitInv

\* Every step.
LEMMA WaitNext ==
  ASSUME TypeOK, MutualExclusion, NoUnlockedWriters, CleanInv, WaitInv, [Next]_vars
  PROVE  WaitInv'
<1>1. DOMAIN store = Workflows /\ subs \in Seq(EventSubscription)
  BY DEF TypeOK, ProvidersTypeOK
<1>. DEFINE Kept(w) == KeepsOpen(w) /\ NoMoreWaits(w)
            Stored(w) == \A p \in DOMAIN store'[w].ptrs :
                           Waits(store'[w].ptrs, p) => OpenFor(subs', w, p)
<1>2. ASSUME \A w \in Workflows : Stored(w), \A h \in Hosts : PassWaits(h)' /\ DeliveryWaits(h)'
      PROVE  WaitInv'
  BY <1>2 DEF WaitInv, WaitersSubscribed, Waits, OpenFor
<1>3. ASSUME NEW h \in Hosts, wc[h].pc \in WcWorking PROVE wc[h].w \in Workflows
  BY <1>3 DEF TypeOK, WcsTypeOK, WcTypeOK, WcWorking
<1>4. ASSUME NEW h \in Hosts, ec[h].pc \in {"load", "persist", "queue", "terminate"}
      PROVE  /\ ec[h].w \in Workflows /\ ec[h].s \in DOMAIN subs
             /\ subs[ec[h].s].w = ec[h].w
  <2>1. ec[h].pc \in EcHolding \ {"release"}
    BY <1>4 DEF EcHolding
  <2>. QED  BY <2>1 DEF TypeOK, EcsTypeOK, EcTypeOK, WaitInv, DeliveryWaits
\* who has the lock of an instance, has it alone
<1>5. ASSUME NEW w \in Workflows, NEW h \in Hosts, WcHolds(h, w) \/ EcHolds(h, w), NEW g \in Hosts
      PROVE  /\ wc[g].pc \in WcWorking /\ wc[g].w = w => g = h /\ WcHolds(h, w)
             /\ ec[g].pc \in EcHolding /\ ec[g].w = w => g = h /\ EcHolds(h, w)
  <2>1. WcWorking \subseteq WcHolding
    BY DEF WcWorking, WcHolding
  <2>. QED  BY <2>1, <1>5 DEF MutualExclusion, WcHolds, EcHolds
<1>6. {"load", "persist", "queue", "terminate"} \subseteq EcHolding
  BY DEF EcHolding
\* nothing happens to the store or the subscriptions
<1>7. ASSUME subs' = subs, store' = store \/ \E c \in Workflows : Create(c)
      PROVE  /\ KeepsSubs /\ \A w \in Workflows : Stored(w) /\ NoMoreWaits(w)
             /\ \A h \in Hosts : wc'[h] = wc[h] => PassWaits(h)'
             /\ \A h \in Hosts : ec'[h] = ec[h] => DeliveryWaits(h)'
  <2>1. KeepsSubs /\ \A w : KeepsOpen(w)
    BY <1>7, SameSubs
  <2>2. \A w \in Workflows : NoMoreWaits(w)
    BY <1>7, SameStore
  <2>3. \A w \in Workflows : Stored(w)
    BY <2>1, <2>2, WaitFrame
  <2>4. \A h \in Hosts : wc'[h] = wc[h] => PassWaits(h)'
    BY <2>1, WaitFrame
  <2>5. ASSUME NEW h \in Hosts, ec'[h] = ec[h] PROVE DeliveryWaits(h)'
    <3>1. ec[h].pc \in {"queue", "terminate"} => NoMoreWaits(ec[h].w)
      BY <2>2, <1>4
    <3>. QED  BY <3>1, <2>1, <2>5, WaitFrame
  <2>. QED  BY <2>1, <2>2, <2>3, <2>4, <2>5
<1>. HIDE DEF Stored
<1>8. ASSUME NEW h \in Hosts, WorkflowConsumer(h) \/ WcFault(h) \/ WcUnsaved(h) PROVE WaitInv'
  <2>1. (\A g \in Hosts \ {h} : wc'[g] = wc[g]) /\ ec' = ec
    BY <1>8, WcKeepsCopy
  <2>2. ~WcInject(h)
    BY DEF CleanInv, WcInject
  <2>3. CASE WcPersist(h)
    <3>. DEFINE v == wc[h].w
    <3>1. /\ wc[h].pc = "persist" /\ store' = [store EXCEPT ![v] = wc[h].mem]
          /\ subs' = subs \o wc[h].new
      BY <2>3 DEF WcPersist
    <3>2. wc'[h].pc \notin WcWorking
      <4>1. ~WcLoad(h)
        BY <3>1 DEF WcLoad
      <4>. QED  BY <4>1, <2>3, <1>8, WcKeepsCopy
    <3>3. wc[h].new \in Seq(EventSubscription) /\ v \in Workflows /\ PassWaits(h)
      BY <3>1 DEF TypeOK, WcsTypeOK, WcTypeOK, WaitInv
    <3>4. KeepsSubs
      <4>1. \A s \in DOMAIN subs : s \in DOMAIN (subs \o wc[h].new) /\ (subs \o wc[h].new)[s] = subs[s]
        BY <3>3, <1>1
      <4>. QED  BY <4>1, <3>1 DEF KeepsSubs
    <3>5. \A w : KeepsOpen(w)
      BY <3>1, <3>3, <1>1, OpenInConcat DEF KeepsOpen
    <3>6. \A w \in Workflows : w # v => NoMoreWaits(w)
      BY <3>1, <1>1 DEF NoMoreWaits
    <3>7. Stored(v)
      <4>1. store'[v] = wc[h].mem
        BY <3>1, <3>3, <1>1
      <4>2. \A p \in DOMAIN wc[h].mem.ptrs :
              Waits(wc[h].mem.ptrs, p) => OpenFor(subs, v, p) \/ OpenFor(wc[h].new, v, p)
        BY <3>1, <3>3 DEF PassWaits, WcWorking
      <4>. QED  BY <4>1, <4>2, <3>1, <3>3, <1>1, OpenInConcat DEF Stored
    <3>8. \A w \in Workflows : Stored(w)
      <4>. HIDE DEF v
      <4>1. \A w \in Workflows : w # v => Stored(w)
        BY <3>4, <3>5, <3>6, WaitFrame DEF Stored
      <4>. QED  BY <4>1, <3>7
    <3>9. \A g \in Hosts : PassWaits(g)'
      <4>1. PassWaits(h)'
        BY <3>2 DEF PassWaits
      <4>. QED  BY <4>1, <3>4, <3>5, <2>1, WaitFrame
    <3>10. ASSUME NEW g \in Hosts PROVE DeliveryWaits(g)'
      <4>1. WcHolds(h, v)
        BY <3>1 DEF WcHolds, WcHolding
      <4>2. ec[g].pc \in {"queue", "terminate"} => ec[g].w # v
        <5>1. ~EcHolds(h, v)
          BY <4>1, <3>3 DEF MutualExclusion
        <5>. QED  BY <5>1, <4>1, <3>3, <1>5, <1>6
      <4>. HIDE DEF v
      <4>3. ec[g].pc \in {"queue", "terminate"} => NoMoreWaits(ec[g].w)
        BY <4>2, <3>6, <1>4
      <4>. QED  BY <4>3, <3>4, <3>5, <2>1, WaitFrame
    <3>. QED  BY <3>8, <3>9, <3>10, <1>2
  <2>4. CASE ~WcPersist(h)
    <3>1. Loads(h) \/ GoesOn(h) \/ LetsGo(h)
            \/ \E p : \E new \in Seq(EventSubscription) : DealsWith(h, p, new)
      BY <2>2, <2>4, <1>8, WcSteps
    <3>2. PassWaits(h)'
      BY <3>1, PassWaitsKept
    <3>3. subs' = subs /\ (store' = store \/ \E c \in Workflows : Create(c))
      BY <3>1 DEF Loads, GoesOn, LetsGo, DealsWith
    <3>4. /\ \A w \in Workflows : Stored(w)
          /\ \A g \in Hosts : wc'[g] = wc[g] => PassWaits(g)'
          /\ \A g \in Hosts : ec'[g] = ec[g] => DeliveryWaits(g)'
      BY <3>3, <1>7
    <3>. QED  BY <3>2, <3>4, <2>1, <1>2
  <2>. QED  BY <2>3, <2>4
<1>9. ASSUME NEW h \in Hosts, EventConsumer(h) \/ EcFault(h) PROVE WaitInv'
  <2>1. /\ (\A g \in Hosts \ {h} : ec'[g] = ec[g]) /\ wc' = wc
    BY <1>9, EcKeepsCopy
  <2>2. /\ DOMAIN ec = Hosts
        /\ DOMAIN ec[h] = {"pc", "e", "todo", "s", "w", "mem", "snap", "ok"}
    BY DEF TypeOK, EcsTypeOK, EcTypeOK
  <2>3. ASSUME subs' = subs, store' = store, DeliveryWaits(h)' PROVE WaitInv'
    BY <2>1, <2>3, <1>2, <1>7
  <2>. DEFINE v == ec[h].w
              q == subs[ec[h].s].ptr
  <2>4. CASE EcLoad(h)
    <3>. DEFINE inst == store[v]
    <3>1. /\ store' = store /\ subs' = subs /\ ec[h].pc = "load" /\ ec'[h].pc = "persist"
          /\ ec'[h].w = v /\ ec'[h].s = ec[h].s /\ ec'[h].mem = Delivered(inst, q)
      BY <2>2, <2>4 DEF EcLoad, persistence
    <3>2. v \in Workflows /\ subs[ec[h].s].w = v /\ IsStored(inst)
      BY <3>1, <1>4 DEF TypeOK, ProvidersTypeOK
    <3>3. \A i \in DOMAIN inst.ptrs : Waits(inst.ptrs, i) => OpenFor(subs, v, i)
      BY <3>2 DEF WaitInv, WaitersSubscribed, Waits, OpenFor
    <3>. HIDE DEF inst
    <3>4. \A i \in DOMAIN Delivered(inst, q).ptrs :
            Waits(Delivered(inst, q).ptrs, i) => OpenFor(subs, v, i) /\ i # q
      BY <3>2, <3>3, DeliveredFields
    <3>5. DeliveryWaits(h)'
      BY <3>1, <3>2, <3>4 DEF DeliveryWaits
    <3>. QED  BY <3>1, <3>5, <2>3
  <2>5. CASE EcPersist(h)
    <3>1. /\ store' = [store EXCEPT ![v] = ec[h].mem] /\ subs' = subs
          /\ ec[h].pc = "persist" /\ ec'[h].pc = "queue"
          /\ ec'[h].w = v /\ ec'[h].s = ec[h].s
      BY <2>2, <2>5 DEF EcPersist
    <3>2. v \in Workflows /\ subs[ec[h].s].w = v /\ EcHolds(h, v)
      BY <3>1, <1>4, <1>6 DEF EcHolds
    <3>3. \A i \in DOMAIN ec[h].mem.ptrs : Waits(ec[h].mem.ptrs, i) => OpenFor(subs, v, i) /\ i # q
      BY <3>1 DEF WaitInv, DeliveryWaits
    <3>4. store'[v] = ec[h].mem /\ \A w \in Workflows : w # v => NoMoreWaits(w)
      BY <3>1, <3>2, <1>1 DEF NoMoreWaits
    <3>5. KeepsSubs /\ \A w : KeepsOpen(w)
      BY <3>1, SameSubs
    <3>6. \A w \in Workflows : Stored(w)
      <4>1. Stored(v)
        BY <3>1, <3>3, <3>4 DEF Stored
      <4>. HIDE DEF v
      <4>2. \A w \in Workflows : w # v => Stored(w)
        BY <3>4, <3>5, WaitFrame DEF Stored
      <4>. QED  BY <4>1, <4>2
    <3>7. DeliveryWaits(h)'
      BY <3>1, <3>2, <3>3, <3>4 DEF DeliveryWaits
    <3>8. ASSUME NEW g \in Hosts, g # h PROVE DeliveryWaits(g)'
      <4>1. ec[g].pc \in {"queue", "terminate"} => ec[g].w \in Workflows /\ ec[g].w # v
        BY <3>2, <3>8, <1>4, <1>5, <1>6
      <4>. HIDE DEF v
      <4>2. ec[g].pc \in {"queue", "terminate"} => NoMoreWaits(ec[g].w)
        BY <4>1, <3>4
      <4>. QED  BY <4>2, <3>5, <3>8, <2>1, WaitFrame
    <3>9. \A g \in Hosts : PassWaits(g)'
      BY <3>5, <2>1, WaitFrame
    <3>. QED  BY <3>6, <3>7, <3>8, <3>9, <1>2
  <2>6. CASE EcQueue(h)
    <3>1. /\ store' = store /\ subs' = subs /\ ec[h].pc = "queue" /\ ec'[h].pc = "terminate"
          /\ ec'[h].w = v /\ ec'[h].s = ec[h].s
      BY <2>2, <2>6 DEF EcQueue, persistence
    <3>2. DeliveryWaits(h)
      BY DEF WaitInv
    <3>3. DeliveryWaits(h)'
      BY <3>1, <3>2 DEF DeliveryWaits, EcHolding
    <3>. QED  BY <3>1, <3>3, <2>3
  <2>7. CASE EcTerminate(h)
    <3>. DEFINE t == ec[h].s
    <3>1. /\ store' = store /\ subs' = [subs EXCEPT ![t] = [subs[t] EXCEPT !.open = FALSE]]
          /\ ec[h].pc = "terminate" /\ ec'[h].pc = "release"
      BY <2>2, <2>7 DEF EcTerminate
    <3>2. v \in Workflows /\ t \in DOMAIN subs /\ subs[t].w = v /\ EcHolds(h, v)
      BY <3>1, <1>4, <1>6 DEF EcHolds
    <3>3. subs[t] \in EventSubscription
      BY <3>2, <1>1, ElementOfSeq
    <3>4. [subs[t] EXCEPT !.open = FALSE].w = v /\ [subs[t] EXCEPT !.open = FALSE].ptr = q
      BY <3>2, <3>3 DEF EventSubscription
    <3>5. KeepsSubs
      BY <3>1, <3>2, <3>4 DEF KeepsSubs
    <3>6. ASSUME NEW w, NEW i, OpenFor(subs, w, i), w # v \/ i # q PROVE OpenFor(subs', w, i)
      <4>1. PICK s \in DOMAIN subs : subs[s].w = w /\ subs[s].ptr = i /\ subs[s].open
        BY <3>6 DEF OpenFor
      <4>2. s # t
        BY <4>1, <3>2, <3>6
      <4>3. s \in DOMAIN subs' /\ subs'[s] = subs[s]
        BY <4>1, <4>2, <3>1
      <4>. QED  BY <4>1, <4>3 DEF OpenFor
    <3>. HIDE DEF t
    <3>7. \A w : w # v => KeepsOpen(w)
      BY <3>6 DEF KeepsOpen
    <3>8. \A w \in Workflows : NoMoreWaits(w)
      BY <3>1 DEF NoMoreWaits
    <3>9. Stored(v)
      <4>1. \A i \in DOMAIN store[v].ptrs : Waits(store[v].ptrs, i) => OpenFor(subs, v, i) /\ i # q
        <5>1. \A i \in DOMAIN store[v].ptrs : Waits(store[v].ptrs, i) => i # q
          BY <3>1 DEF WaitInv, DeliveryWaits
        <5>2. \A i \in DOMAIN store[v].ptrs : Waits(store[v].ptrs, i) => OpenFor(subs, v, i)
          BY <3>2 DEF WaitInv, WaitersSubscribed, Waits, OpenFor
        <5>. QED  BY <5>1, <5>2
      <4>. QED  BY <4>1, <3>1, <3>6 DEF Stored
    <3>10. \A w \in Workflows : Stored(w)
      <4>. HIDE DEF v
      <4>1. \A w \in Workflows : w # v => Stored(w)
        BY <3>5, <3>7, <3>8, WaitFrame DEF Stored
      <4>. QED  BY <4>1, <3>9
    <3>11. ASSUME NEW g \in Hosts PROVE PassWaits(g)'
      <4>1. wc[g].pc \in WcWorking => wc[g].w # v
        <5>1. ~WcHolds(h, v)
          BY <3>2 DEF MutualExclusion
        <5>. QED  BY <5>1, <3>2, <1>5
      <4>. HIDE DEF v
      <4>. QED  BY <4>1, <3>5, <3>7, <2>1, WaitFrame
    <3>12. ASSUME NEW g \in Hosts, g # h PROVE DeliveryWaits(g)'
      <4>1. ec[g].pc = "persist" => ec[g].w # v
        BY <3>2, <3>12, <1>5, <1>6
      <4>2. ec[g].pc \in {"queue", "terminate"} => ec[g].w \in Workflows
        BY <1>4
      <4>. HIDE DEF v
      <4>. QED  BY <4>1, <4>2, <3>5, <3>7, <3>8, <3>12, <2>1, WaitFrame
    <3>13. DeliveryWaits(h)'
      BY <3>1 DEF DeliveryWaits
    <3>. QED  BY <3>10, <3>11, <3>12, <3>13, <1>2
  <2>8. CASE LetsGoEc(h)
    <3>1. DeliveryWaits(h)'
      BY <2>8 DEF LetsGoEc, DeliveryWaits, EcHolding
    <3>. QED  BY <3>1, <2>3, <2>8 DEF LetsGoEc
  <2>9. ASSUME NEW s \in ec[h].todo, EcAcquire(h, s) PROVE WaitInv'
    <3>1. /\ store' = store /\ subs' = subs /\ ec'[h].pc = "load" /\ ec'[h].s = s
          /\ ec'[h].w = subs[s].w
      BY <2>2, <2>9 DEF EcAcquire, persistence
    <3>2. DeliveryWaits(h)'
      BY <3>1 DEF DeliveryWaits
    <3>. QED  BY <3>1, <3>2, <2>3
  <2>. QED  BY <2>4, <2>5, <2>6, <2>7, <2>8, <2>9, <1>9, EcSteps
<1>10. ASSUME NEW r \in Requests, Request(r) \/ RqFault(r) PROVE WaitInv'
  <2>1. UNCHANGED <<subs, wc, ec>> /\ (store' = store \/ \E c \in Workflows : Create(c))
    BY <1>10, RqSteps
  <2>. QED  BY <2>1, <1>2, <1>7
<1>11. ASSUME NEW h \in Hosts, Crash(h) PROVE WaitInv'
  <2>1. DOMAIN wc = Hosts /\ DOMAIN ec = Hosts
    BY DEF TypeOK, WcsTypeOK, EcsTypeOK
  <2>2. /\ wc'[h] = IdleWc /\ ec'[h] = IdleEc /\ store' = store /\ subs' = subs
        /\ \A g \in Hosts \ {h} : wc'[g] = wc[g] /\ ec'[g] = ec[g]
    BY <2>1, <1>11 DEF Crash, persistence
  <2>3. PassWaits(h)' /\ DeliveryWaits(h)'
    BY <2>2 DEF PassWaits, DeliveryWaits, IdleWc, IdleEc, WcWorking, EcHolding
  <2>. QED  BY <2>2, <2>3, <1>2, <1>7
<1>12. ASSUME NEW w \in Workflows, NEW p, Tick(w, p) PROVE WaitInv'
  BY <1>12, WaitTick
<1>13. (\E w \in Workflows : LeaseExpires(w)) \/ UNCHANGED vars => WaitInv'
  BY <1>2, <1>7 DEF LeaseExpires, persistence, vars
<1>. QED
  BY <1>8, <1>9, <1>10, <1>11, <1>12, <1>13 DEF Next, Time

\* When only the consumers write instances that exist, a stored pointer that
\* waits for an event always has an open subscription: execute persists the two
\* together, and process_event closes a subscription only under the lock and
\* after it has woken the pointer, whichever of its steps a crash interrupts.
THEOREM WaitersAreSubscribed ==
  ASSUME NoUnlockedWriters
  PROVE  Spec => []WaitersSubscribed
<1>1. Init => WaitInv
  <2>1. DOMAIN Absent.ptrs = {}
    BY DEF Absent, Instance
  <2>. QED  BY <2>1 DEF Init, WaitInv, WaitersSubscribed, PassWaits, DeliveryWaits, IdleWc, IdleEc,
               WcWorking, EcHolding
<1>2. TypeOK /\ MutualExclusion /\ CleanInv /\ WaitInv /\ [Next]_vars => WaitInv'
  BY WaitNext
<1>3. WaitInv => WaitersSubscribed
  BY DEF WaitInv
<1>. QED  BY <1>1, <1>2, <1>3, KeptAlways, TypesKept, Exclusive, PTL DEF Spec

-----------------------------------------------------------------------------
(* EventsNotAbandoned.                                                     *)

\* Nothing fails, and a subscription may be terminated twice (SQLite and the
\* in-memory store; Postgres reports an error for the second time).
Faultless == MaxFaults = 0
Lenient == ~StrictTerminate

\* Event e is in the queue, or somebody has it in hand: the request or the pass
\* that published it, or the event consumer that took it from the queue.
InHand(e) ==
  \/ \E i \in DOMAIN evQueue : evQueue[i] = e
  \/ \E h \in Hosts : ec[h].e = e \/ wc[h].e = e
  \/ \E r \in Requests : rq[r].e = e

\* An event is in hand until it is marked processed, and whoever has one in
\* hand is at the point where it is passed on.
PublisherInv(h) == wc[h].e # 0 => wc[h].pc = "announce"
ConsumerInv(h) == ec[h].ok /\ (ec[h].pc = "idle" => ec[h].e = 0)
RequestInv(r) == rq[r].e # 0 => r.op = "publish" /\ rq[r].pc = "queue"
EventInv ==
  /\ \A h \in Hosts : PublisherInv(h) /\ ConsumerInv(h)
  /\ \A r \in Requests : RequestInv(r)
  /\ \A e \in DOMAIN events : events[e].processed \/ InHand(e)

\* A step that leaves the events alone and takes none out of anybody's hands.
LEMMA EventFrame ==
  ASSUME EventInv, \A h \in Hosts : PublisherInv(h)' /\ ConsumerInv(h)',
         \A r \in Requests : RequestInv(r)',
         \A e \in DOMAIN events' :
           \/ events'[e].processed
           \/ e \in DOMAIN events /\ ~events[e].processed /\ (InHand(e) => InHand(e)')
           \/ InHand(e)'
  PROVE  EventInv'
BY DEF EventInv

\* The workflow consumer publishes, queues what it published, or neither.
LEMMA WcEvents ==
  ASSUME TypeOK, NEW h \in Hosts, WorkflowConsumer(h), PublisherInv(h)
  PROVE  \/ UNCHANGED <<events, evQueue>> /\ wc[h].e = 0 /\ wc'[h].e = 0
         \/ /\ wc[h].pc = "announce" /\ wc'[h].e = 0 /\ events' = events
            /\ evQueue' = Append(evQueue, wc[h].e)
         \/ /\ wc[h].e = 0 /\ evQueue' = evQueue
            /\ events' = Append(events, NewEvent(wc[h].w))
            /\ wc'[h].e = Len(events) + 1 /\ wc'[h].pc = "announce"
<1>1. /\ DOMAIN wc = Hosts
      /\ DOMAIN wc[h] = {"pc", "w", "mem", "snap", "todo", "new", "p", "child", "e"}
  BY DEF TypeOK, WcsTypeOK, WcTypeOK
<1>2. IdleWc.e = 0 /\ Executed(h).e = 0 /\ \A pc, w : [IdleWc EXCEPT !.pc = pc, !.w = w].e = 0
  BY DEF IdleWc, Executed
<1>. DEFINE Quiet == UNCHANGED <<events, evQueue>> /\ wc[h].e = 0 /\ wc'[h].e = 0
<1>3. CASE WcDequeue(h) \/ WcDrop(h) \/ WcBounce(h) \/ WcAccept(h) \/ WcProvision(h)
           \/ WcInjectLoad(h) \/ WcInject(h) \/ WcTeardown(h)
           \/ WcAcquire(h) \/ WcRequeue(h)
  BY <1>1, <1>2, <1>3 DEF WcDequeue, WcDrop, WcBounce, WcAccept, WcProvision, WcInjectLoad,
     WcInject, WcTeardown, WcAcquire, WcRequeue, PublisherInv, persistence, queues
<1>4. CASE WcBusy(h) \/ WcRelease(h)
  BY <1>1, <1>2, <1>4 DEF WcBusy, WcRelease, PublisherInv, persistence, queues
<1>5. CASE WcLoad(h)
  BY <1>1, <1>5 DEF WcLoad, PublisherInv, persistence, queues
<1>6. CASE WcPersist(h)
  BY <1>1, <1>2, <1>6 DEF WcPersist, PublisherInv, queues
<1>7. ASSUME NEW p, NEW inst, NEW n, NEW new, Advance(h, p, inst, n, new),
             wc[h].pc \in {"run", "queue_child"}
      PROVE  wc[h].e = 0 /\ wc'[h].e = 0
  BY <1>1, <1>7 DEF Advance, PublisherInv
<1>8. ASSUME NEW p \in wc[h].todo,
             WcRun(h, p) \/ WcSkip(h, p) \/ WcAbort(h, p) \/ WcStartChild(h, p)
      PROVE  Quiet
  <2>1. CASE WcRun(h, p)
    BY <2>1, <1>7 DEF WcRun, OnTurn, AdvanceWith, persistence, queues
  <2>2. CASE WcSkip(h, p)
    BY <2>2, <1>7 DEF WcSkip, OnTurn, persistence, queues
  <2>3. CASE WcAbort(h, p)
    BY <2>3, <1>1, <1>2 DEF WcAbort, OnTurn, PublisherInv, persistence, queues
  <2>4. CASE WcStartChild(h, p)
    BY <2>4, <1>1 DEF WcStartChild, OnTurn, PublisherInv, queues
  <2>. QED  BY <1>8, <2>1, <2>2, <2>3, <2>4
<1>9. CASE WcQueueChild(h)
  BY <1>7, <1>9 DEF WcQueueChild, AdvanceWith, persistence
<1>10. CASE WcAnnounce(h)
  BY <1>1, <1>10 DEF WcAnnounce, persistence
<1>11. CASE WcConclude(h)
  BY <1>1, <1>11 DEF WcConclude, PublisherInv, queues
<1>. QED
  BY <1>3, <1>4, <1>5, <1>6, <1>8, <1>9, <1>10, <1>11 DEF WorkflowConsumer

\* The event consumer takes an event, keeps it, puts it back or is done with it.
LEMMA EcEvents ==
  ASSUME WellFormed, Faultless, Lenient, NEW h \in Hosts, EventConsumer(h), ConsumerInv(h)
  PROVE  /\ ConsumerInv(h)'
         /\ \/ UNCHANGED <<events, evQueue>> /\ ec'[h].e = ec[h].e
            \/ /\ ec[h].e = 0 /\ events' = events /\ evQueue # <<>>
               /\ evQueue' = Tail(evQueue) /\ ec'[h].e = Head(evQueue)
            \/ events' = events /\ evQueue' = Append(evQueue, ec[h].e)
            \/ EcDone(h) /\ evQueue' = evQueue
<1>1. /\ DOMAIN ec = Hosts
      /\ DOMAIN ec[h] = {"pc", "e", "todo", "s", "w", "mem", "snap", "ok"}
      /\ ec[h].pc # "idle" => ec[h].e \in DOMAIN events
  BY DEF WellFormed, TypeOK, ProvidersTypeOK, EcsTypeOK, EcTypeOK
<1>2. IdleEc.e = 0 /\ IdleEc.ok = TRUE
  BY DEF IdleEc
<1>3. CASE EcDequeue(h)
  BY <1>1, <1>3 DEF EcDequeue, ConsumerInv, persistence
<1>a. CASE EcLookup(h)
  <2>1. faults = 0
    BY DEF WellFormed, TypeOK, ProvidersTypeOK, Faultless
  <2>2. ec[h].pc = "lookup" /\ events[ec[h].e].stored
    BY <2>1, <1>1, <1>a DEF EcLookup, WellFormed, UnsavedOK
  <2>3. ec'[h] = [ec[h] EXCEPT !.pc = "next", !.todo = {s \in DOMAIN subs : Matches(s, ec[h].e)}]
    BY <2>2, <1>1, <1>a DEF EcLookup
  <2>4. ec'[h].pc = "next" /\ ec'[h].e = ec[h].e /\ ec'[h].ok = ec[h].ok
    BY <2>3, <1>1
  <2>. QED  BY <2>4, <1>a DEF EcLookup, ConsumerInv, persistence, queues
<1>4. CASE EcLoad(h) \/ EcPersist(h) \/ EcQueue(h)
  BY <1>1, <1>4 DEF EcLoad, EcPersist, EcQueue, ConsumerInv, persistence, queues
<1>5. ASSUME NEW s \in ec[h].todo, EcAcquire(h, s)
      PROVE  ConsumerInv(h)' /\ UNCHANGED <<events, evQueue>> /\ ec'[h].e = ec[h].e
  BY <1>1, <1>5 DEF EcAcquire, ConsumerInv, persistence, queues
<1>6. ASSUME NEW s \in ec[h].todo, EcBusy(h, s)
      PROVE  ConsumerInv(h)' /\ events' = events /\ evQueue' = Append(evQueue, ec[h].e)
  BY <1>1, <1>2, <1>6 DEF EcBusy, ConsumerInv, persistence
<1>7. CASE EcTerminate(h)
  BY <1>1, <1>7 DEF EcTerminate, Lenient, ConsumerInv, queues
<1>8. CASE EcRelease(h)
  <2>. DEFINE c == [IdleEc EXCEPT !.pc = "next", !.e = ec[h].e, !.todo = ec[h].todo \ {ec[h].s}]
  <2>1. c.e = ec[h].e /\ c.ok = TRUE /\ c.pc = "next"
    BY DEF IdleEc
  <2>2. ec'[h] = c /\ UNCHANGED <<events, evQueue>>
    BY <1>1, <1>8 DEF EcRelease, ConsumerInv, persistence, queues
  <2>. HIDE DEF c
  <2>. QED  BY <2>1, <2>2 DEF ConsumerInv
<1>9. CASE EcDone(h)
  BY <1>1, <1>2, <1>9 DEF EcDone, ConsumerInv, queues
<1>. QED
  BY <1>3, <1>a, <1>4, <1>5, <1>6, <1>7, <1>8, <1>9 DEF EventConsumer

\* What is in the event queue after a step on it.
LEMMA EventQueue ==
  ASSUME TypeOK, NEW e, \E i \in DOMAIN evQueue : evQueue[i] = e
  PROVE  /\ evQueue' = evQueue => \E i \in DOMAIN evQueue' : evQueue'[i] = e
         /\ \A x : evQueue' = Append(evQueue, x) => \E i \in DOMAIN evQueue' : evQueue'[i] = e
         /\ evQueue # <<>> /\ evQueue' = Tail(evQueue) =>
              e = Head(evQueue) \/ \E i \in DOMAIN evQueue' : evQueue'[i] = e
<1>1. evQueue \in Seq(1..Len(events))
  BY DEF TypeOK, ProvidersTypeOK
<1>2. PICK i \in DOMAIN evQueue : evQueue[i] = e
  OBVIOUS
<1>3. ASSUME NEW x, evQueue' = Append(evQueue, x)
      PROVE  \E j \in DOMAIN evQueue' : evQueue'[j] = e
  <2>1. i \in DOMAIN evQueue' /\ evQueue'[i] = evQueue[i]
    BY <1>1, <1>2, <1>3
  <2>. QED  BY <2>1, <1>2
<1>4. ASSUME evQueue # <<>>, evQueue' = Tail(evQueue), e # Head(evQueue)
      PROVE  \E j \in DOMAIN evQueue' : evQueue'[j] = e
  <2>1. i \in 1..Len(evQueue) /\ Len(evQueue) \in Nat /\ i # 1
    BY <1>1, <1>2, <1>4
  <2>2. i - 1 \in DOMAIN Tail(evQueue) /\ Tail(evQueue)[i - 1] = evQueue[i]
    BY <2>1, <1>1, <1>4
  <2>. QED  BY <2>2, <1>2, <1>4
<1>. QED  BY <1>2, <1>3, <1>4

LEMMA EventNext ==
  ASSUME WellFormed, Faultless, Lenient, EventInv, [Next]_vars
  PROVE  EventInv'
<1>0. TypeOK
  BY DEF WellFormed
<1>1. /\ DOMAIN wc = Hosts /\ DOMAIN ec = Hosts /\ DOMAIN rq = Requests
      /\ events \in Seq(Event) /\ evQueue \in Seq(1..Len(events)) /\ Len(events) \in Nat
  BY <1>0 DEF TypeOK, ProvidersTypeOK, WcsTypeOK, EcsTypeOK, RqsTypeOK
<1>2. ~Fault
  <2>1. faults \in 0..MaxFaults /\ MaxFaults = 0
    BY <1>0 DEF TypeOK, ProvidersTypeOK, Faultless
  <2>. QED  BY <2>1 DEF Fault
<1>3. /\ \A h \in Hosts : PublisherInv(h) /\ ConsumerInv(h)
      /\ \A r \in Requests : RequestInv(r)
      /\ \A e \in DOMAIN events : ~events[e].processed => InHand(e)
  BY DEF EventInv
<1>4. /\ \A h \in Hosts : wc'[h] = wc[h] => PublisherInv(h)'
      /\ \A h \in Hosts : ec'[h] = ec[h] => ConsumerInv(h)'
      /\ \A r \in Requests : rq'[r] = rq[r] => RequestInv(r)'
  BY <1>3 DEF PublisherInv, ConsumerInv, RequestInv
<1>5. ASSUME NEW key, events' = Append(events, NewEvent(key)), NEW e \in DOMAIN events'
      PROVE  e = Len(events) + 1 \/ (e \in DOMAIN events /\ events'[e] = events[e])
  BY <1>1, <1>5
<1>6. ASSUME NEW x, evQueue' = Append(evQueue, x)
      PROVE  \E i \in DOMAIN evQueue' : evQueue'[i] = x
  <2>1. Len(evQueue) + 1 \in DOMAIN evQueue' /\ evQueue'[Len(evQueue) + 1] = x
    BY <1>1, <1>6
  <2>. QED  BY <2>1
<1>7. ASSUME NEW h \in Hosts, WorkflowConsumer(h) PROVE EventInv'
  <2>1. (\A g \in Hosts \ {h} : wc'[g] = wc[g]) /\ ec' = ec
    BY <1>0, <1>7, WcKeepsCopy
  <2>2. rq' = rq
    BY <1>7 DEF WorkflowConsumer, WcDequeue, WcDrop, WcBounce, WcAccept, WcProvision, WcInject,
       WcInjectLoad, WcTeardown, WcAcquire, WcBusy, WcLoad, WcRun, WcSkip, WcAbort, WcStartChild,
       WcQueueChild, WcConclude, WcAnnounce, WcPersist, WcRequeue, WcRelease
  <2>3. \/ UNCHANGED <<events, evQueue>> /\ wc[h].e = 0 /\ wc'[h].e = 0
        \/ /\ wc[h].pc = "announce" /\ wc'[h].e = 0 /\ events' = events
           /\ evQueue' = Append(evQueue, wc[h].e)
        \/ /\ wc[h].e = 0 /\ evQueue' = evQueue
           /\ events' = Append(events, NewEvent(wc[h].w))
           /\ wc'[h].e = Len(events) + 1 /\ wc'[h].pc = "announce"
    BY <1>0, <1>3, <1>7, WcEvents
  <2>4. PublisherInv(h)'
    BY <2>3 DEF PublisherInv
  <2>5. ASSUME NEW e \in DOMAIN events, InHand(e) PROVE InHand(e)'
    <3>1. e # 0
      BY <1>1
    <3>2. CASE \E i \in DOMAIN evQueue : evQueue[i] = e
      <4>1. \E i \in DOMAIN evQueue' : evQueue'[i] = e
        BY <1>0, <3>2, <2>3, EventQueue
      <4>. QED  BY <4>1 DEF InHand
    <3>3. CASE wc[h].e = e
      <4>1. evQueue' = Append(evQueue, e)
        BY <3>1, <3>3, <2>3
      <4>2. \E i \in DOMAIN evQueue' : evQueue'[i] = e
        BY <4>1, <1>6
      <4>. QED  BY <4>2 DEF InHand
    <3>4. CASE \/ \E g \in Hosts : ec[g].e = e \/ (g # h /\ wc[g].e = e)
               \/ \E r \in Requests : rq[r].e = e
      BY <3>4, <2>1, <2>2 DEF InHand
    <3>. QED  BY <2>5, <3>2, <3>3, <3>4 DEF InHand
  <2>6. ASSUME NEW e \in DOMAIN events'
        PROVE  \/ events'[e].processed
               \/ e \in DOMAIN events /\ ~events[e].processed /\ (InHand(e) => InHand(e)')
               \/ InHand(e)'
    <3>1. CASE e \in DOMAIN events /\ events'[e] = events[e]
      BY <3>1, <2>5
    <3>2. CASE ~(e \in DOMAIN events /\ events'[e] = events[e])
      <4>1. wc'[h].e = e
        BY <3>2, <2>3, <1>5
      <4>. QED  BY <4>1 DEF InHand
    <3>. QED  BY <3>1, <3>2
  <2>. QED  BY <2>1, <2>2, <2>4, <2>6, <1>4, EventFrame
<1>8. ASSUME NEW h \in Hosts, EventConsumer(h) PROVE EventInv'
  <2>1. (\A g \in Hosts \ {h} : ec'[g] = ec[g]) /\ wc' = wc
    BY <1>0, <1>8, EcKeepsCopy
  <2>2. rq' = rq
    BY <1>8 DEF EventConsumer, EcDequeue, EcLookup, EcAcquire, EcBusy, EcLoad, EcPersist, EcQueue,
       EcTerminate, EcRelease, EcDone
  <2>3. /\ ConsumerInv(h)'
        /\ \/ UNCHANGED <<events, evQueue>> /\ ec'[h].e = ec[h].e
           \/ /\ ec[h].e = 0 /\ events' = events /\ evQueue # <<>>
              /\ evQueue' = Tail(evQueue) /\ ec'[h].e = Head(evQueue)
           \/ events' = events /\ evQueue' = Append(evQueue, ec[h].e)
           \/ EcDone(h) /\ evQueue' = evQueue
    BY <1>3, <1>8, EcEvents
  <2>4. ASSUME NEW e \in DOMAIN events, InHand(e), ~(EcDone(h) /\ ec[h].e = e) PROVE InHand(e)'
    <3>1. e # 0
      BY <1>1
    <3>2. CASE \E i \in DOMAIN evQueue : evQueue[i] = e
      <4>1. (\E i \in DOMAIN evQueue' : evQueue'[i] = e) \/ ec'[h].e = e
        BY <1>0, <3>2, <2>3, EventQueue
      <4>. QED  BY <4>1 DEF InHand
    <3>3. CASE ec[h].e = e
      <4>1. ec'[h].e = e \/ evQueue' = Append(evQueue, e)
        BY <3>1, <3>3, <2>3, <2>4
      <4>2. (\E i \in DOMAIN evQueue' : evQueue'[i] = e) \/ ec'[h].e = e
        BY <4>1, <1>6
      <4>. QED  BY <4>2 DEF InHand
    <3>4. CASE \/ \E g \in Hosts : wc[g].e = e \/ (g # h /\ ec[g].e = e)
               \/ \E r \in Requests : rq[r].e = e
      BY <3>4, <2>1, <2>2 DEF InHand
    <3>. QED  BY <2>4, <3>2, <3>3, <3>4 DEF InHand
  <2>5. ASSUME NEW e \in DOMAIN events'
        PROVE  \/ events'[e].processed
               \/ e \in DOMAIN events /\ ~events[e].processed /\ (InHand(e) => InHand(e)')
               \/ InHand(e)'
    <3>1. CASE events' = events /\ ~EcDone(h)
      BY <3>1, <2>4
    <3>2. CASE EcDone(h)
      <4>. DEFINE d == ec[h].e
      <4>1. events' = [events EXCEPT ![d].processed = TRUE]
        BY <3>2 DEF EcDone
      <4>2. \A i \in DOMAIN events : DOMAIN events[i] = {"key", "stored", "processed"}
        <5>1. \A i \in DOMAIN events : events[i] \in Event
          BY <1>1, ElementOfSeq
        <5>. QED  BY <5>1 DEF Event
      <4>3. e \in DOMAIN events /\ (e = d => events'[e].processed) /\ (e # d => events'[e] = events[e])
        BY <4>1, <4>2, <1>1
      <4>. QED  BY <4>3, <2>4
    <3>. QED  BY <3>1, <3>2, <2>3
  <2>. QED  BY <2>1, <2>2, <2>3, <2>5, <1>4, EventFrame
<1>9. ASSUME NEW r \in Requests, Request(r) PROVE EventInv'
  <2>0. DOMAIN rq[r] = {"pc", "mem", "e"} /\ wc' = wc /\ ec' = ec
    BY <1>0, <1>9 DEF TypeOK, RqsTypeOK, RqTypeOK, Request, RqStart, RqPublish, RqLoad, RqPersist, RqQueue
  <2>1. \A q \in Requests \ {r} : rq'[q] = rq[q]
    BY <1>1, <1>9 DEF Request, RqStart, RqPublish, RqLoad, RqPersist, RqQueue
  <2>2. \A pc : [NewRq EXCEPT !.pc = pc].e = 0
    BY DEF NewRq
  <2>3. \/ UNCHANGED <<events, evQueue>> /\ rq[r].e = 0 /\ rq'[r].e = 0
        \/ events' = events /\ evQueue' = Append(evQueue, rq[r].e) /\ rq'[r].e = 0
        \/ /\ rq[r].e = 0 /\ evQueue' = evQueue
           /\ events' = Append(events, NewEvent(r.on)) /\ rq'[r].e = Len(events) + 1
           /\ rq'[r].pc = "queue" /\ r.op = "publish"
    <3>1. CASE RqStart(r)
      BY <3>1, <2>0, <1>1, <1>3 DEF RqStart, RequestInv, queues
    <3>2. CASE RqPublish(r)
      BY <3>2, <2>0, <1>1, <1>3 DEF RqPublish, RequestInv, queues
    <3>3. CASE RqLoad(r)
      BY <3>3, <2>0, <2>2, <1>1, <1>3 DEF RqLoad, RequestInv, persistence, queues
    <3>4. CASE RqPersist(r)
      BY <3>4, <2>0, <2>2, <1>1, <1>3 DEF RqPersist, RequestInv, queues
    <3>5. CASE RqQueue(r)
      BY <3>5, <2>0, <2>2, <1>1, <1>3 DEF RqQueue, RequestInv, persistence
    <3>. QED  BY <1>9, <3>1, <3>2, <3>3, <3>4, <3>5 DEF Request
  <2>4. RequestInv(r)'
    BY <2>3 DEF RequestInv
  <2>5. ASSUME NEW e \in DOMAIN events, InHand(e) PROVE InHand(e)'
    <3>1. e # 0
      BY <1>1
    <3>2. CASE \E i \in DOMAIN evQueue : evQueue[i] = e
      <4>1. \E i \in DOMAIN evQueue' : evQueue'[i] = e
        BY <1>0, <3>2, <2>3, EventQueue
      <4>. QED  BY <4>1 DEF InHand
    <3>3. CASE rq[r].e = e
      <4>1. evQueue' = Append(evQueue, e)
        BY <3>1, <3>3, <2>3
      <4>2. \E i \in DOMAIN evQueue' : evQueue'[i] = e
        BY <4>1, <1>6
      <4>. QED  BY <4>2 DEF InHand
    <3>4. CASE \/ \E g \in Hosts : ec[g].e = e \/ wc[g].e = e
               \/ \E q \in Requests : q # r /\ rq[q].e = e
      BY <3>4, <2>0, <2>1 DEF InHand
    <3>. QED  BY <2>5, <3>2, <3>3, <3>4 DEF InHand
  <2>6. ASSUME NEW e \in DOMAIN events'
        PROVE  \/ events'[e].processed
               \/ e \in DOMAIN events /\ ~events[e].processed /\ (InHand(e) => InHand(e)')
               \/ InHand(e)'
    <3>1. CASE e \in DOMAIN events /\ events'[e] = events[e]
      BY <3>1, <2>5
    <3>2. CASE ~(e \in DOMAIN events /\ events'[e] = events[e])
      <4>1. rq'[r].e = e
        BY <3>2, <2>3, <1>5
      <4>. QED  BY <4>1 DEF InHand
    <3>. QED  BY <3>1, <3>2
  <2>. QED  BY <2>0, <2>1, <2>4, <2>6, <1>4, EventFrame
<1>10. ASSUME /\ UNCHANGED <<events, evQueue>>
              /\ \A h \in Hosts : /\ wc'[h].e = wc[h].e /\ wc'[h].pc = wc[h].pc
                                  /\ ec'[h].e = ec[h].e /\ ec'[h].pc = ec[h].pc
                                  /\ ec'[h].ok = ec[h].ok
              /\ \A r \in Requests : rq'[r].e = rq[r].e /\ rq'[r].pc = rq[r].pc
       PROVE  EventInv'
  <2>1. /\ \A h \in Hosts : PublisherInv(h)' /\ ConsumerInv(h)'
        /\ \A r \in Requests : RequestInv(r)'
    BY <1>3, <1>10 DEF PublisherInv, ConsumerInv, RequestInv
  <2>2. \A e : InHand(e) => InHand(e)'
    BY <1>10 DEF InHand
  <2>. QED  BY <2>1, <2>2, <1>3, <1>10 DEF EventInv
<1>11. ASSUME NEW w \in Workflows, NEW p, Tick(w, p) PROVE EventInv'
  <2>1. /\ UNCHANGED <<events, evQueue>>
        /\ wc' = [h \in Hosts |-> IF wc[h].w = w
             THEN [wc[h] EXCEPT !.mem = Later(wc[h].mem, p), !.snap = Later(wc[h].snap, p)] ELSE wc[h]]
        /\ ec' = [h \in Hosts |-> IF ec[h].w = w
             THEN [ec[h] EXCEPT !.mem = Later(ec[h].mem, p), !.snap = Later(ec[h].snap, p)] ELSE ec[h]]
        /\ rq' = [r \in Requests |-> IF r.on = w
             THEN [rq[r] EXCEPT !.mem = Later(rq[r].mem, p)] ELSE rq[r]]
    BY <1>11 DEF Tick, queues
  <2>2. ASSUME NEW h \in Hosts
        PROVE  /\ wc'[h].e = wc[h].e /\ wc'[h].pc = wc[h].pc /\ ec'[h].e = ec[h].e
               /\ ec'[h].pc = ec[h].pc /\ ec'[h].ok = ec[h].ok
    <3>1. /\ DOMAIN wc[h] = {"pc", "w", "mem", "snap", "todo", "new", "p", "child", "e"}
          /\ DOMAIN ec[h] = {"pc", "e", "todo", "s", "w", "mem", "snap", "ok"}
      BY <1>0 DEF TypeOK, WcsTypeOK, WcTypeOK, EcsTypeOK, EcTypeOK
    <3>. QED  BY <2>1, <3>1
  <2>3. ASSUME NEW r \in Requests PROVE rq'[r].e = rq[r].e /\ rq'[r].pc = rq[r].pc
    <3>1. DOMAIN rq[r] = {"pc", "mem", "e"}
      BY <1>0 DEF TypeOK, RqsTypeOK, RqTypeOK
    <3>. QED  BY <2>1, <3>1
  <2>. QED  BY <2>1, <2>2, <2>3, <1>10
<1>12. (\E w \in Workflows : LeaseExpires(w)) \/ UNCHANGED vars => EventInv'
  BY <1>10 DEF LeaseExpires, vars, persistence, queues
<1>. QED
  BY <1>2, <1>7, <1>8, <1>9, <1>11, <1>12 DEF Next, Time, WcFault, WcUnsaved, EcFault, Crash, RqFault

\* As long as nothing fails, no event is abandoned half-way: an event that is
\* not marked processed is in the queue, with the pass or the request that
\* published it, or with an event consumer that will go on with it.
\* process_event puts the event back when an instance is locked, and marks it
\* only when every subscription has been dealt with.  Whether anyone waits for
\* the event does not matter.
THEOREM EventsKept ==
  ASSUME Faultless, Lenient
  PROVE  Spec => []EventsNotAbandoned
<1>1. Init => EventInv
  BY DEF Init, EventInv, PublisherInv, ConsumerInv, RequestInv, IdleWc, IdleEc, NewRq
<1>2. WellFormed /\ EventInv /\ [Next]_vars => EventInv'
  BY EventNext
<1>3. EventInv => EventsNotAbandoned
  BY DEF EventInv, ConsumerInv, InHand, EventsNotAbandoned
<1>. QED  BY <1>1, <1>2, <1>3, TypeCorrect, PTL DEF Spec

-----------------------------------------------------------------------------
(* AnnouncedOnce.                                                          *)

\* A pass works on an instance that was Runnable, and the delivery of an event
\* leaves the status of the instance alone.
BeganRunnable(h) == wc[h].pc \in WcWorking => wc[h].snap.status = "Runnable"
KeepsStatus(h) == ec[h].pc = "persist" => ec[h].mem.status = ec[h].snap.status
AnnounceInv ==
  /\ OneAnnouncement /\ AnnouncedComplete
  /\ \A h \in Hosts : BeganRunnable(h) /\ KeepsStatus(h)

\* Time passes, and the status of an instance stays.
LEMMA LaterStatus ==
  ASSUME NEW inst, IsStored(inst), NEW p
  PROVE  Later(inst, p).status = inst.status
<1>1. CASE IsInstance(inst)
  BY <1>1 DEF Later, IsInstance
<1>2. CASE inst = Absent
  BY <1>2, LaterType
<1>. QED  BY <1>1, <1>2 DEF IsStored

\* What the consumers hold is what the store holds.
LEMMA StoredStatus ==
  ASSUME CleanInv, NoLostUpdate, TypeOK, NEW h \in Hosts, BeganRunnable(h), KeepsStatus(h)
  PROVE  /\ wc[h].pc \in WcWorking => store[wc[h].w].status = "Runnable"
         /\ ec[h].pc = "persist" => store[ec[h].w].status = ec[h].mem.status
<1>1. /\ wc[h].pc \in WcWorking => wc[h].w \in Workflows
      /\ ec[h].pc = "persist" => ec[h].w \in Workflows
  BY DEF TypeOK, WcsTypeOK, EcsTypeOK, WcTypeOK, EcTypeOK, WcWorking, EcHolding
<1>. QED  BY <1>1 DEF CleanInv, NoLostUpdate, BeganRunnable, KeepsStatus

\* A step that announces nothing, keeps what is Complete and drops no conclusion.
LEMMA AnnounceFrame ==
  ASSUME TypeOK, OneAnnouncement, AnnouncedComplete, events' = events,
         \A w \in Workflows : store[w].status = "Complete" => store'[w].status = "Complete",
         \A h \in Hosts : Concluding(h) =>
           (Concluding(h)' /\ wc'[h].w = wc[h].w) \/ store'[wc[h].w].status = "Complete"
  PROVE  OneAnnouncement' /\ AnnouncedComplete'
BY DEF OneAnnouncement, AnnouncedComplete

\* An event for somebody's key is not an announcement; the announcement of an
\* instance that was not announced before is its first.
LEMMA Announcement ==
  ASSUME TypeOK, OneAnnouncement, AnnouncedComplete, store' = store,
         \A h \in Hosts : Concluding(h) => Concluding(h)' /\ wc'[h].w = wc[h].w,
         NEW key, events' = Append(events, NewEvent(key)),
         key \in Workflows =>
           /\ \A e \in DOMAIN events : events[e].key # key
           /\ \E h \in Hosts : wc'[h].w = key /\ Concluding(h)'
  PROVE  OneAnnouncement' /\ AnnouncedComplete'
<1>1. events \in Seq(Event) /\ Len(events) \in Nat
  BY DEF TypeOK, ProvidersTypeOK
<1>2. NewEvent(key).key = key
  BY DEF NewEvent
<1>3. \A e \in DOMAIN events' :
        \/ e \in DOMAIN events /\ events'[e] = events[e]
        \/ e = Len(events) + 1 /\ events'[e] = NewEvent(key)
  BY <1>1
<1>4. OneAnnouncement'
  <2>. SUFFICES ASSUME NEW w \in Workflows, NEW d \in DOMAIN events', NEW e \in DOMAIN events',
                       events'[d].key = w, events'[e].key = w
                PROVE  d = e
    BY DEF OneAnnouncement
  <2>. QED  BY <1>2, <1>3 DEF OneAnnouncement
<1>5. AnnouncedComplete'
  <2>. SUFFICES ASSUME NEW w \in Workflows, NEW e \in DOMAIN events', events'[e].key = w
                PROVE  store'[w].status = "Complete" \/ \E h \in Hosts : wc'[h].w = w /\ Concluding(h)'
    BY DEF AnnouncedComplete
  <2>1. CASE e \in DOMAIN events /\ events'[e] = events[e]
    BY <2>1 DEF AnnouncedComplete
  <2>2. CASE events'[e] = NewEvent(key)
    BY <2>2, <1>2
  <2>. QED  BY <2>1, <2>2, <1>3
<1>. QED  BY <1>4, <1>5

\* What the workflow consumer does to the instance it concludes.
LEMMA WcConcludes ==
  ASSUME TypeOK, CleanInv, NEW h \in Hosts, WorkflowConsumer(h)
  PROVE  \/ /\ events' = events /\ (store' = store \/ \E c \in Workflows : Create(c))
            /\ Concluding(h) => Concluding(h)' /\ wc'[h].w = wc[h].w
         \/ WcPersist(h)
         \/ /\ wc[h].pc = "run" /\ store' = store
            /\ events' = Append(events, NewEvent(wc[h].w))
            /\ wc'[h].w = wc[h].w /\ Concluding(h)'
<1>1. /\ DOMAIN wc = Hosts
      /\ DOMAIN wc[h] = {"pc", "w", "mem", "snap", "todo", "new", "p", "child", "e"}
      /\ wc[h].pc \in WcWorking => IsInstance(wc[h].mem)
  BY DEF TypeOK, WcsTypeOK, WcTypeOK
<1>2. ~WcInject(h)
  BY DEF CleanInv, WcInject
<1>3. CASE WcConclude(h)
  <2>1. wc[h].pc = "run" /\ store' = store
    BY <1>3 DEF WcConclude
  <2>2. CASE Concluded(wc[h].mem).status # wc[h].mem.status
    <3>1. Concluded(wc[h].mem).status = "Complete"
      BY <2>1, <2>2, <1>1 DEF Concluded, IsInstance, WcWorking
    <3>2. /\ events' = Append(events, NewEvent(wc[h].w)) /\ wc'[h].pc = "announce"
          /\ wc'[h].mem = Concluded(wc[h].mem) /\ wc'[h].w = wc[h].w
      BY <2>2, <1>1, <1>3 DEF WcConclude
    <3>. QED  BY <3>1, <3>2, <2>1 DEF Concluding
  <2>3. CASE Concluded(wc[h].mem).status = wc[h].mem.status
    BY <2>1, <2>3, <1>3 DEF WcConclude, Concluding
  <2>. QED  BY <2>2, <2>3
<1>4. CASE WcAnnounce(h)
  BY <1>1, <1>4 DEF WcAnnounce, Concluding, persistence
<1>5. CASE WcDequeue(h) \/ WcDrop(h) \/ WcBounce(h) \/ WcAccept(h) \/ WcProvision(h)
           \/ WcInjectLoad(h) \/ WcTeardown(h) \/ WcAcquire(h) \/ WcBusy(h) \/ WcLoad(h)
           \/ WcQueueChild(h) \/ WcRequeue(h) \/ WcRelease(h)
  BY <1>5 DEF WcDequeue, WcDrop, WcBounce, WcAccept, WcProvision, WcInjectLoad, WcTeardown,
     WcAcquire, WcBusy, WcLoad, WcQueueChild, WcRequeue, WcRelease, Concluding, persistence
<1>6. ASSUME NEW p \in wc[h].todo,
             WcRun(h, p) \/ WcSkip(h, p) \/ WcAbort(h, p) \/ WcStartChild(h, p)
      PROVE  /\ events' = events /\ (store' = store \/ \E c \in Workflows : Create(c))
             /\ ~Concluding(h)
  <2>1. ~Concluding(h) /\ wc[h].pc = "run"
    BY <1>6 DEF WcRun, WcSkip, WcAbort, WcStartChild, OnTurn, Concluding
  <2>2. Children[wc[h].w] \subseteq Workflows
    BY <2>1, SetsAssumption DEF TypeOK, WcsTypeOK, WcTypeOK
  <2>3. events' = events /\ (store' = store \/ \E c \in Workflows : Create(c))
    BY <2>2, <1>6 DEF WcRun, WcSkip, WcAbort, WcStartChild, persistence
  <2>. QED  BY <2>1, <2>3
<1>. QED
  BY <1>2, <1>3, <1>4, <1>5, <1>6 DEF WorkflowConsumer

\* A new instance is not Complete, and was not before.
LEMMA CreatedStatus ==
  ASSUME TypeOK, NEW c \in Workflows, Create(c), NEW w \in Workflows,
         store[w].status = "Complete"
  PROVE  store'[w].status = "Complete"
<1>1. w # c
  BY AbsentIsNone DEF Create
<1>. QED  BY <1>1, CreatedPointers

LEMMA AnnounceNext ==
  ASSUME TypeOK, MutualExclusion, NoLostUpdate, Faultless, NoUnlockedWriters, CleanInv,
         AnnounceInv, [Next]_vars
  PROVE  AnnounceInv'
<1>1. /\ DOMAIN wc = Hosts /\ DOMAIN ec = Hosts /\ DOMAIN rq = Requests /\ DOMAIN store = Workflows
      /\ \A w \in Workflows : IsStored(store[w])
  BY DEF TypeOK, ProvidersTypeOK, WcsTypeOK, EcsTypeOK, RqsTypeOK
<1>2. ~Fault
  <2>1. faults \in 0..MaxFaults /\ MaxFaults = 0
    BY DEF TypeOK, ProvidersTypeOK, Faultless
  <2>. QED  BY <2>1 DEF Fault
<1>3. /\ OneAnnouncement /\ AnnouncedComplete
      /\ \A h \in Hosts : BeganRunnable(h) /\ KeepsStatus(h)
  BY DEF AnnounceInv
<1>4. /\ \A h \in Hosts : wc'[h] = wc[h] => BeganRunnable(h)' /\ (Concluding(h) => Concluding(h)')
      /\ \A h \in Hosts : ec'[h] = ec[h] => KeepsStatus(h)'
  BY <1>3 DEF BeganRunnable, KeepsStatus, Concluding
<1>5. ASSUME NEW c \in Workflows, Create(c)
      PROVE  \A w \in Workflows : store[w].status = "Complete" => store'[w].status = "Complete"
  BY <1>5, CreatedStatus
<1>6. ASSUME NEW h \in Hosts, WorkflowConsumer(h) PROVE AnnounceInv'
  <2>1. (\A g \in Hosts \ {h} : wc'[g] = wc[g]) /\ ec' = ec
    BY <1>6, WcKeepsCopy
  <2>2. BeganRunnable(h)'
    <3>1. CASE WcLoad(h)
      <4>1. /\ wc[h].w \in Workflows
            /\ DOMAIN wc[h] = {"pc", "w", "mem", "snap", "todo", "new", "p", "child", "e"}
        BY <3>1 DEF WcLoad, TypeOK, WcsTypeOK, WcTypeOK
      <4>2. CASE store[wc[h].w].status = "Runnable"
        BY <3>1, <4>1, <4>2, <1>1 DEF WcLoad, BeganRunnable
      <4>3. CASE store[wc[h].w].status # "Runnable"
        <5>1. wc'[h].pc = "release"
          BY <3>1, <4>1, <4>3, <1>1 DEF WcLoad
        <5>. QED  BY <5>1 DEF BeganRunnable, WcWorking
      <4>. QED  BY <4>2, <4>3
    <3>2. CASE ~WcLoad(h)
      <4>1. wc'[h].pc \in WcWorking => wc[h].pc \in WcWorking /\ wc'[h].snap = wc[h].snap
        BY <3>2, <1>6, WcKeepsCopy DEF WcCopy
      <4>. QED  BY <4>1, <1>3 DEF BeganRunnable
    <3>. QED  BY <3>1, <3>2
  <2>. DEFINE w == wc[h].w
  <2>3. CASE WcPersist(h)
    <3>1. /\ wc[h].pc = "persist" /\ w \in Workflows /\ events' = events
          /\ store' = [store EXCEPT ![w] = wc[h].mem]
      BY <2>3 DEF WcPersist, TypeOK, WcsTypeOK, WcTypeOK
    <3>2. store[w].status = "Runnable"
      BY <3>1, <1>3, StoredStatus DEF WcWorking
    <3>. HIDE DEF w
    <3>3. /\ \A v \in Workflows : v # w => store'[v] = store[v]
          /\ store'[w] = wc[h].mem
      BY <3>1, <1>1
    <3>4. \A v \in Workflows : store[v].status = "Complete" => store'[v].status = "Complete"
      BY <3>2, <3>3
    <3>5. ASSUME NEW g \in Hosts, Concluding(g)
          PROVE  (Concluding(g)' /\ wc'[g].w = wc[g].w) \/ store'[wc[g].w].status = "Complete"
      <4>1. CASE g = h
        BY <3>3, <3>5, <4>1 DEF Concluding, w
      <4>2. CASE g # h
        BY <3>5, <4>2, <2>1 DEF Concluding
      <4>. QED  BY <4>1, <4>2
    <3>6. OneAnnouncement' /\ AnnouncedComplete'
      BY <3>1, <3>4, <3>5, <1>3, AnnounceFrame
    <3>. QED  BY <3>6, <2>1, <2>2, <1>4 DEF AnnounceInv
  <2>4. CASE /\ events' = events /\ (store' = store \/ \E c \in Workflows : Create(c))
             /\ Concluding(h) => Concluding(h)' /\ wc'[h].w = wc[h].w
    <3>1. \A v \in Workflows : store[v].status = "Complete" => store'[v].status = "Complete"
      BY <2>4, <1>5
    <3>2. \A g \in Hosts : Concluding(g) => Concluding(g)' /\ wc'[g].w = wc[g].w
      BY <2>1, <2>4, <1>4
    <3>3. OneAnnouncement' /\ AnnouncedComplete'
      BY <3>1, <3>2, <2>4, <1>3, AnnounceFrame
    <3>. QED  BY <3>3, <2>1, <2>2, <1>4 DEF AnnounceInv
  <2>5. CASE /\ wc[h].pc = "run" /\ store' = store
             /\ events' = Append(events, NewEvent(w))
             /\ wc'[h].w = w /\ Concluding(h)'
    <3>1. w \in Workflows /\ store[w].status = "Runnable"
      BY <2>5, <1>3, StoredStatus DEF WcWorking, TypeOK, WcsTypeOK, WcTypeOK
    <3>2. ASSUME NEW g \in Hosts, Concluding(g) PROVE wc[g].w # w
      <4>1. g # h /\ wc[g].pc \in WcWorking
        BY <3>2, <2>5 DEF Concluding, WcWorking
      <4>. QED  BY <4>1, <2>5, SoleWorker DEF WcWorking
    <3>3. \A e \in DOMAIN events : events[e].key # w
      BY <3>1, <3>2, <1>3 DEF AnnouncedComplete
    <3>4. \A g \in Hosts : Concluding(g) => Concluding(g)' /\ wc'[g].w = wc[g].w
      BY <2>1, <2>5, <1>4
    <3>5. OneAnnouncement' /\ AnnouncedComplete'
      BY <3>3, <3>4, <2>5, <1>3, Announcement
    <3>. QED  BY <3>5, <2>1, <2>2, <1>4 DEF AnnounceInv
  <2>. QED  BY <2>3, <2>4, <2>5, <1>6, WcConcludes
<1>7. ASSUME NEW h \in Hosts, EventConsumer(h) PROVE AnnounceInv'
  <2>1. /\ (\A g \in Hosts \ {h} : ec'[g] = ec[g]) /\ wc' = wc
        /\ ec'[h].pc = "persist" => EcLoad(h)
    BY <1>7, EcKeepsCopy
  <2>2. KeepsStatus(h)'
    <3>1. CASE EcLoad(h)
      <4>. DEFINE inst == store[ec[h].w]
                  p == subs[ec[h].s].ptr
      <4>1. /\ DOMAIN ec[h] = {"pc", "e", "todo", "s", "w", "mem", "snap", "ok"}
            /\ ec[h].w \in Workflows
        BY <3>1 DEF EcLoad, TypeOK, EcsTypeOK, EcTypeOK, EcHolding
      <4>2. ec'[h].snap = inst /\ ec'[h].mem = Delivered(inst, p) /\ IsStored(inst)
        BY <3>1, <4>1, <1>1 DEF EcLoad
      <4>. HIDE DEF inst, p
      <4>. QED  BY <4>2, DeliveredFields DEF KeepsStatus
    <3>2. CASE ~EcLoad(h)
      BY <3>2, <2>1 DEF KeepsStatus
    <3>. QED  BY <3>1, <3>2
  <2>3. \A v \in Workflows : store[v].status = "Complete" => store'[v].status = "Complete"
    <3>1. CASE EcPersist(h)
      <4>. DEFINE w == ec[h].w
      <4>1. /\ ec[h].pc = "persist" /\ w \in Workflows
            /\ store' = [store EXCEPT ![w] = ec[h].mem]
        BY <3>1 DEF EcPersist, TypeOK, EcsTypeOK, EcTypeOK, EcHolding
      <4>2. store[w].status = ec[h].mem.status
        BY <4>1, <1>3, StoredStatus
      <4>. HIDE DEF w
      <4>. QED  BY <4>1, <4>2, <1>1
    <3>2. CASE ~EcPersist(h)
      BY <3>2, <1>7, EcSteps DEF EcLoad, EcQueue, EcTerminate, EcAcquire, LetsGoEc, persistence
    <3>. QED  BY <3>1, <3>2
  <2>4. \A g \in Hosts : Concluding(g) => Concluding(g)' /\ wc'[g].w = wc[g].w
    BY <2>1, <1>4
  <2>5. OneAnnouncement' /\ AnnouncedComplete'
    <3>1. CASE ~EcDone(h)
      <4>1. events' = events
        BY <3>1, <1>7 DEF EventConsumer, EcDequeue, EcLookup, EcAcquire, EcBusy, EcLoad, EcPersist,
           EcQueue, EcTerminate, EcRelease, persistence
      <4>. QED  BY <4>1, <2>3, <2>4, <1>3, AnnounceFrame
    <3>2. CASE EcDone(h)
      <4>1. events' = [events EXCEPT ![ec[h].e].processed = TRUE] /\ store' = store
        BY <3>2 DEF EcDone
      <4>2. \A e \in DOMAIN events : events[e] \in Event
        BY ElementOfSeq DEF TypeOK, ProvidersTypeOK
      <4>3. DOMAIN events' = DOMAIN events /\ \A e \in DOMAIN events : events'[e].key = events[e].key
        BY <4>1, <4>2 DEF Event
      <4>4. OneAnnouncement'
        BY <4>3, <1>3 DEF OneAnnouncement
      <4>5. AnnouncedComplete'
        BY <4>1, <4>3, <2>4, <1>3 DEF AnnouncedComplete
      <4>. QED  BY <4>4, <4>5
    <3>. QED  BY <3>1, <3>2
  <2>. QED  BY <2>1, <2>2, <2>5, <1>4 DEF AnnounceInv
<1>8. ASSUME NEW r \in Requests, Request(r) PROVE AnnounceInv'
  <2>1. wc' = wc /\ ec' = ec /\ (store' = store \/ \E c \in Workflows : Create(c))
    BY <1>8, RqSteps
  <2>2. \A g \in Hosts : Concluding(g) => Concluding(g)' /\ wc'[g].w = wc[g].w
    BY <2>1, <1>4
  <2>3. OneAnnouncement' /\ AnnouncedComplete'
    <3>1. CASE RqPublish(r)
      <4>1. events' = Append(events, NewEvent(r.on)) /\ store' = store /\ r.on \notin Workflows
        BY <3>1, RequestsAssumption, SetsAssumption DEF RqPublish
      <4>. QED  BY <4>1, <2>2, <1>3, Announcement
    <3>2. CASE ~RqPublish(r)
      <4>1. events' = events
        BY <3>2, <1>8 DEF Request, RqStart, RqLoad, RqPersist, RqQueue, persistence
      <4>2. \A v \in Workflows : store[v].status = "Complete" => store'[v].status = "Complete"
        BY <2>1, <1>5
      <4>. QED  BY <4>1, <4>2, <2>2, <1>3, AnnounceFrame
    <3>. QED  BY <3>1, <3>2
  <2>. QED  BY <2>1, <2>3, <1>4 DEF AnnounceInv
<1>9. ASSUME NEW w \in Workflows, NEW p, Tick(w, p) PROVE AnnounceInv'
  <2>1. events' = events /\ store' = [store EXCEPT ![w] = Later(store[w], p)]
    BY <1>9 DEF Tick
  <2>2. \A v \in Workflows : store'[v].status = store[v].status
    BY <2>1, <1>1, LaterStatus
  <2>3. ASSUME NEW h \in Hosts
        PROVE  /\ wc'[h].w = wc[h].w /\ wc'[h].pc = wc[h].pc /\ ec'[h].pc = ec[h].pc
               /\ wc'[h].mem.status = wc[h].mem.status /\ wc'[h].snap.status = wc[h].snap.status
               /\ ec'[h].mem.status = ec[h].mem.status /\ ec'[h].snap.status = ec[h].snap.status
    <3>1. /\ IsStored(wc[h].mem) /\ IsStored(wc[h].snap)
          /\ IsStored(ec[h].mem) /\ IsStored(ec[h].snap)
      BY DEF TypeOK, WcsTypeOK, WcTypeOK, EcsTypeOK, EcTypeOK
    <3>. QED  BY <3>1, <1>9, TickFrame, LaterStatus
  <2>4. \A h \in Hosts : BeganRunnable(h)' /\ KeepsStatus(h)'
                         /\ (Concluding(h) => Concluding(h)' /\ wc'[h].w = wc[h].w)
    BY <2>3, <1>3 DEF BeganRunnable, KeepsStatus, Concluding
  <2>5. OneAnnouncement' /\ AnnouncedComplete'
    BY <2>1, <2>2, <2>4, <1>3, AnnounceFrame
  <2>. QED  BY <2>4, <2>5 DEF AnnounceInv
<1>10. ASSUME UNCHANGED <<events, store, wc, ec>> PROVE AnnounceInv'
  <2>1. OneAnnouncement' /\ AnnouncedComplete'
    BY <1>3, <1>4, <1>10, AnnounceFrame
  <2>. QED  BY <2>1, <1>4, <1>10 DEF AnnounceInv
<1>11. (\E w \in Workflows : LeaseExpires(w)) \/ UNCHANGED vars => AnnounceInv'
  BY <1>10 DEF LeaseExpires, vars, persistence
<1>. QED
  BY <1>2, <1>6, <1>7, <1>8, <1>9, <1>11 DEF Next, Time, WcFault, WcUnsaved, EcFault, Crash, RqFault

\* As long as nothing fails and nobody writes without the lock, an instance
\* announces its completion once, and it is Complete or about to be written so,
\* although the event is published before the instance is persisted: the pass
\* that announces it holds the lock until it is persisted, and a later pass finds
\* it Complete.
THEOREM CompletionAnnouncedOnce ==
  ASSUME Faultless, NoUnlockedWriters
  PROVE  Spec => []AnnouncedOnce
<1>1. Init => AnnounceInv
  BY DEF Init, AnnounceInv, OneAnnouncement, AnnouncedComplete, BeganRunnable, KeepsStatus, IdleWc,
     IdleEc, WcWorking
<1>2. TypeOK /\ MutualExclusion /\ NoLostUpdate /\ CleanInv /\ AnnounceInv /\ [Next]_vars
        => AnnounceInv'
  BY AnnounceNext
<1>3. AnnounceInv => AnnouncedOnce
  BY DEF AnnounceInv, AnnouncedOnce
<1>4. Spec => [](CleanInv /\ KeptInv)
  BY KeptAlways
<1>. QED  BY <1>1, <1>2, <1>3, <1>4, TypesKept, Exclusive, NoUpdateLost, PTL DEF Spec

-----------------------------------------------------------------------------
(* ChildrenAwaited.                                                        *)

\* Passes on a parent end without an error of their own, the id of a sub-workflow
\* is its own (create_workflow draws a fresh one for each), and no API call starts
\* an instance under it.
SoundFamilies ==
  /\ \A w \in Workflows : Children[w] # {} => Sound(DefOf[w])
  /\ \A v, w \in Workflows : Children[v] \cap Children[w] # {} => v = w
  /\ \A r \in Requests : \A w \in Workflows : r.op = "start" => r.on \notin Children[w]

\* The copies of a parent that are written or going to be: all on its steps.
StoreOnSteps(w) == OnSteps(DefOf[w], store[w].ptrs)
WcOnSteps(h) ==
  wc[h].pc \in WcWorking \cup {"inject"} /\ Sound(DefOf[wc[h].w]) =>
    OnSteps(DefOf[wc[h].w], wc[h].mem.ptrs)
EcOnSteps(h) ==
  ec[h].pc = "persist" /\ Sound(DefOf[ec[h].w]) => OnSteps(DefOf[ec[h].w], ec[h].mem.ptrs)
RqOnSteps(r) ==
  rq[r].pc = "persist" /\ Sound(DefOf[r.on]) => OnSteps(DefOf[r.on], rq[r].mem.ptrs)
StepsInv ==
  /\ \A w \in Workflows : Sound(DefOf[w]) => StoreOnSteps(w)
  /\ \A h \in Hosts : WcOnSteps(h) /\ EcOnSteps(h)
  /\ \A r \in Requests : RqOnSteps(r)

\* Host h has started c, or has the subscription to c's completion in hand.
Bears(h, c) == wc[h].child = c \/ \E i \in DOMAIN wc[h].new : wc[h].new[i].key = c
Subscribed(ss, w, c) == \E s \in DOMAIN ss : ss[s].w = w /\ ss[s].key = c
StartsOne(h) == wc[h].child # "none" => wc[h].pc = "queue_child"
ChildInv ==
  faults = 0 => ChildrenAwaited /\ StepsInv /\ \A h \in Hosts : StartsOne(h)

\* The steps of an instance that is new, delivered to, or older by a while.
LEMMA StepsOf ==
  ASSUME NEW d, NEW inst, IsStored(inst), OnSteps(d, inst.ptrs), NEW p
  PROVE  OnSteps(d, Delivered(inst, p).ptrs) /\ OnSteps(d, Later(inst, p).ptrs)
<1>1. OnSteps(d, Later(inst, p).ptrs)
  BY LaterType DEF OnSteps
<1>2. CASE p \in DOMAIN inst.ptrs /\ inst.ptrs[p].status = "WaitingForEvent"
  <2>1. IsInstance(inst)
    BY <1>2, AbsentIsNone DEF IsStored
  <2>. DEFINE x == [inst.ptrs[p] EXCEPT !.event = TRUE, !.active = TRUE]
              q == [inst.ptrs EXCEPT ![p] = x]
  <2>2. inst.ptrs[p] \in ExecutionPointer
    BY <2>1, <1>2 DEF IsInstance
  <2>3. x.step = inst.ptrs[p].step
    BY <2>2 DEF ExecutionPointer
  <2>4. Delivered(inst, p).ptrs = q
    BY <2>1, <1>2 DEF Delivered, IsInstance
  <2>. HIDE DEF x
  <2>5. DOMAIN q = DOMAIN inst.ptrs /\ \A i \in DOMAIN inst.ptrs : q[i] = IF i = p THEN x ELSE inst.ptrs[i]
    BY <2>1 DEF IsInstance
  <2>. HIDE DEF q
  <2>6. OnSteps(d, q)
    BY <2>3, <2>5 DEF OnSteps
  <2>. QED  BY <2>4, <2>6, <1>1
<1>3. CASE ~(p \in DOMAIN inst.ptrs /\ inst.ptrs[p].status = "WaitingForEvent")
  BY <1>1, <1>3 DEF Delivered
<1>. QED  BY <1>2, <1>3

LEMMA NewOnSteps ==
  ASSUME NEW d, IsDefinition(d), Sound(d)
  PROVE  OnSteps(d, NewInstance(d).ptrs)
<1>1. 0 \in DOMAIN d.steps
  BY DEF IsDefinition, Sound
<1>2. \A p \in DOMAIN NewInstance(d).ptrs : NewInstance(d).ptrs[p].step = 0
  BY DEF NewInstance, Instance, NewPointer
<1>. QED  BY <1>1, <1>2 DEF OnSteps

\* A pass on a sound definition stays on its steps.
LEMMA WcStaysOnSteps ==
  ASSUME TypeOK, StepsInv, NEW h \in Hosts, WorkflowConsumer(h)
  PROVE  WcOnSteps(h)'
<1>1. /\ DOMAIN wc = Hosts
      /\ DOMAIN wc[h] = {"pc", "w", "mem", "snap", "todo", "new", "p", "child", "e"}
      /\ wc[h].pc # "idle" => wc[h].w \in Workflows
      /\ wc[h].pc \in WcWorking => IsInstance(wc[h].mem)
      /\ wc[h].pc = "queue_child" => wc[h].p \in wc[h].todo
  BY DEF TypeOK, WcsTypeOK, WcTypeOK
<1>2. /\ WcOnSteps(h)
      /\ wc[h].pc # "idle" /\ Sound(DefOf[wc[h].w]) => OnSteps(DefOf[wc[h].w], store[wc[h].w].ptrs)
  BY <1>1 DEF StepsInv, StoreOnSteps
<1>. DEFINE Copies == WcWorking \cup {"inject"}
<1>3. /\ IdleWc.pc \notin Copies /\ Executed(h).pc \notin Copies
      /\ [IdleWc EXCEPT !.pc = "release", !.w = wc[h].w].pc \notin Copies
      /\ [IdleWc EXCEPT !.pc = "requeue", !.w = wc[h].w].pc \notin Copies
  BY DEF IdleWc, Executed, WcWorking
<1>4. wc'[h].pc \notin Copies => WcOnSteps(h)'
  BY DEF WcOnSteps
<1>5. CASE WcDequeue(h) \/ WcDrop(h) \/ WcBounce(h) \/ WcAccept(h) \/ WcProvision(h)
           \/ WcInject(h) \/ WcTeardown(h) \/ WcBusy(h)
           \/ WcAcquire(h) \/ WcRequeue(h) \/ WcRelease(h)
  <2>1. wc'[h].pc \notin Copies
    BY <1>1, <1>3, <1>5 DEF WcDequeue, WcDrop, WcBounce, WcAccept, WcProvision, WcInject,
       WcTeardown, WcBusy, WcAcquire, WcRequeue, WcRelease, WcWorking
  <2>. QED  BY <2>1, <1>4
<1>6. CASE WcPersist(h)
  <2>1. wc'[h].pc \notin Copies
    BY <1>1, <1>3, <1>6 DEF WcPersist
  <2>. QED  BY <2>1, <1>4
<1>7. CASE WcInjectLoad(h)
  <2>1. wc'[h].w = wc[h].w /\ wc'[h].mem = store[wc[h].w] /\ wc[h].pc # "idle"
    BY <1>1, <1>7 DEF WcInjectLoad
  <2>. QED  BY <2>1, <1>2 DEF WcOnSteps
<1>8. CASE WcLoad(h)
  <2>1. CASE store[wc[h].w].status = "Runnable"
    <3>1. wc'[h].w = wc[h].w /\ wc'[h].mem = store[wc[h].w] /\ wc[h].pc # "idle"
      BY <2>1, <1>1, <1>8 DEF WcLoad
    <3>. QED  BY <3>1, <1>2 DEF WcOnSteps
  <2>2. CASE store[wc[h].w].status # "Runnable"
    <3>1. wc'[h].pc = "release"
      BY <2>2, <1>1, <1>8 DEF WcLoad
    <3>. QED  BY <3>1, <1>4 DEF WcWorking
  <2>. QED  BY <2>1, <2>2
<1>9. ASSUME wc[h].pc \in WcWorking, wc'[h].w = wc[h].w, wc'[h].mem.ptrs = wc[h].mem.ptrs
      PROVE  WcOnSteps(h)'
  BY <1>2, <1>9 DEF WcOnSteps
<1>10. CASE WcConclude(h)
  <2>1. wc[h].pc = "run"
    BY <1>10 DEF WcConclude
  <2>2. Concluded(wc[h].mem).ptrs = wc[h].mem.ptrs
    BY <2>1, <1>1 DEF Concluded, IsInstance, WcWorking
  <2>3. wc'[h].w = wc[h].w /\ (wc'[h].mem = wc[h].mem \/ wc'[h].mem = Concluded(wc[h].mem))
    BY <1>1, <1>10 DEF WcConclude
  <2>. QED  BY <2>1, <2>2, <2>3, <1>9 DEF WcWorking
<1>11. CASE WcAnnounce(h)
  BY <1>1, <1>9, <1>11 DEF WcAnnounce, WcWorking
<1>12. ASSUME NEW p \in wc[h].todo, NEW inst, NEW n, NEW new, Advance(h, p, inst, n, new),
              wc[h].pc \in {"run", "queue_child"},
              \/ \E r \in ExecutionResult : inst = ApplyResult(DefAt(h), wc[h].mem, p, r, lastId[wc[h].w])
              \/ inst = ApplySkip(DefAt(h), wc[h].mem, p, lastId[wc[h].w])
       PROVE  WcOnSteps(h)'
  <2>1. wc'[h].w = wc[h].w /\ wc'[h].mem = inst
    BY <1>1, <1>12 DEF Advance
  <2>2. /\ IsDefinition(DefAt(h)) /\ IsInstance(wc[h].mem) /\ p \in DOMAIN wc[h].mem.ptrs
        /\ lastId[wc[h].w] \in Nat
    BY <1>12, OnTurnType
  <2>3. ASSUME Sound(DefAt(h)) PROVE OnSteps(DefAt(h), inst.ptrs)
    <3>1. OnSteps(DefAt(h), wc[h].mem.ptrs)
      BY <2>3, <1>2, <1>12 DEF WcOnSteps, WcWorking, DefAt
    <3>. QED  BY <3>1, <2>2, <2>3, <1>12, SoundOnSteps
  <2>. QED  BY <2>1, <2>3 DEF WcOnSteps, DefAt
<1>13. ASSUME NEW p \in wc[h].todo, WcRun(h, p) PROVE WcOnSteps(h)'
  <2>1. PICK r \in StepResults(DefAt(h), wc[h].mem.ptrs, p) :
          \E new : AdvanceWith(h, p, r, new)
    BY <1>13 DEF WcRun
  <2>2. wc[h].pc = "run" /\ HasStep(h, p)
    BY <1>13 DEF WcRun, OnTurn
  <2>3. r \in ExecutionResult
    BY <2>2, OnTurnType, StepResultsType DEF HasStep
  <2>. QED  BY <2>1, <2>2, <2>3, <1>12 DEF AdvanceWith
<1>14. ASSUME NEW p \in wc[h].todo, WcSkip(h, p) PROVE WcOnSteps(h)'
  BY <1>12, <1>14 DEF WcSkip, OnTurn
<1>15. CASE WcQueueChild(h)
  <2>1. wait_for_event \in ExecutionResult
    <3>1. NoData \in PersistenceData
      BY DEF NoData, PersistenceData
    <3>. QED  BY <3>1, ConstructorTypes
  <2>. QED  BY <2>1, <1>1, <1>12, <1>15 DEF WcQueueChild, AdvanceWith
<1>16. ASSUME NEW p \in wc[h].todo, WcStartChild(h, p) PROVE WcOnSteps(h)'
  <2>1. wc[h].pc = "run" /\ wc'[h].w = wc[h].w /\ wc'[h].mem = wc[h].mem
    BY <1>1, <1>16 DEF WcStartChild, OnTurn
  <2>. QED  BY <2>1, <1>9 DEF WcWorking
<1>17. ASSUME NEW p \in wc[h].todo, WcAbort(h, p) PROVE WcOnSteps(h)'
  BY <1>1, <1>3, <1>4, <1>17 DEF WcAbort
<1>. QED
  BY <1>5, <1>6, <1>7, <1>8, <1>10, <1>11, <1>13, <1>14, <1>15, <1>16, <1>17 DEF WorkflowConsumer

\* What is written to the store is on the steps.
LEMMA StoreStaysOnSteps ==
  ASSUME TypeOK, StepsInv, [Next]_vars, NEW w \in Workflows, Sound(DefOf[w])
  PROVE  StoreOnSteps(w)'
<1>1. /\ DOMAIN store = Workflows /\ IsStored(store[w]) /\ IsDefinition(DefOf[w])
      /\ OnSteps(DefOf[w], store[w].ptrs)
  BY SetsAssumption DEF TypeOK, ProvidersTypeOK, StepsInv, StoreOnSteps
<1>. DEFINE G == OnSteps(DefOf[w], store'[w].ptrs)
<1>2. ASSUME NEW v, NEW inst, store' = [store EXCEPT ![v] = inst],
             v = w => OnSteps(DefOf[w], inst.ptrs)
      PROVE  G
  BY <1>1, <1>2
<1>3. ASSUME NEW c, Create(c) PROVE G
  BY <1>1, <1>2, <1>3, NewOnSteps DEF Create
<1>4. ASSUME NEW h \in Hosts, WcInject(h) \/ WcPersist(h) PROVE G
  <2>1. /\ store' = [store EXCEPT ![wc[h].w] = wc[h].mem]
        /\ wc[h].pc \in WcWorking \cup {"inject"}
    BY <1>4 DEF WcInject, WcPersist, WcWorking
  <2>2. wc[h].w = w => OnSteps(DefOf[w], wc[h].mem.ptrs)
    BY <2>1 DEF StepsInv, WcOnSteps
  <2>. QED  BY <2>1, <2>2, <1>2
<1>5. ASSUME NEW h \in Hosts, EcPersist(h) PROVE G
  <2>1. store' = [store EXCEPT ![ec[h].w] = ec[h].mem] /\ ec[h].pc = "persist"
    BY <1>5 DEF EcPersist
  <2>2. ec[h].w = w => OnSteps(DefOf[w], ec[h].mem.ptrs)
    BY <2>1 DEF StepsInv, EcOnSteps
  <2>. QED  BY <2>1, <2>2, <1>2
<1>6. ASSUME NEW r \in Requests, RqPersist(r) PROVE G
  <2>1. store' = [store EXCEPT ![r.on] = rq[r].mem] /\ rq[r].pc = "persist"
    BY <1>6 DEF RqPersist
  <2>2. r.on = w => OnSteps(DefOf[w], rq[r].mem.ptrs)
    BY <2>1 DEF StepsInv, RqOnSteps
  <2>. QED  BY <2>1, <2>2, <1>2
<1>7. ASSUME NEW v \in Workflows, NEW p, Tick(v, p) PROVE G
  <2>1. store' = [store EXCEPT ![v] = Later(store[v], p)]
    BY <1>7 DEF Tick
  <2>2. OnSteps(DefOf[w], Later(store[w], p).ptrs)
    BY <1>1, StepsOf
  <2>. QED  BY <2>1, <2>2, <1>2
<1>8. ASSUME NEW h \in Hosts, NEW p, WcStartChild(h, p) PROVE G
  BY <1>3, <1>8 DEF WcStartChild
<1>9. ASSUME NEW r \in Requests, RqStart(r) PROVE G
  BY <1>3, <1>9 DEF RqStart
<1>10. store' = store => G
  BY <1>1
<1>11. G
  <2>. HIDE DEF G
  <2>. QED  BY <1>4, <1>5, <1>6, <1>7, <1>8, <1>9, <1>10, StoreWriters
<1>. QED  BY <1>11 DEF StoreOnSteps

\* Every step that is not a fault.
LEMMA StepsNext ==
  ASSUME TypeOK, StepsInv, [Next]_vars, ~Fault
  PROVE  StepsInv'
<1>1. /\ DOMAIN wc = Hosts /\ DOMAIN ec = Hosts /\ DOMAIN rq = Requests
      /\ \A w \in Workflows : IsStored(store[w])
      /\ \A w \in Workflows : Sound(DefOf[w]) => OnSteps(DefOf[w], store[w].ptrs)
  BY DEF TypeOK, ProvidersTypeOK, WcsTypeOK, EcsTypeOK, RqsTypeOK, StepsInv, StoreOnSteps
<1>2. \A w \in Workflows : Sound(DefOf[w]) => StoreOnSteps(w)'
  BY StoreStaysOnSteps
<1>3. /\ \A h \in Hosts : wc'[h] = wc[h] => WcOnSteps(h)'
      /\ \A h \in Hosts : ec'[h] = ec[h] => EcOnSteps(h)'
      /\ \A r \in Requests : rq'[r] = rq[r] => RqOnSteps(r)'
  BY DEF StepsInv, WcOnSteps, EcOnSteps, RqOnSteps
<1>4. ASSUME NEW h \in Hosts, WorkflowConsumer(h) PROVE StepsInv'
  <2>1. (\A g \in Hosts \ {h} : wc'[g] = wc[g]) /\ ec' = ec
    BY <1>4, WcKeepsCopy
  <2>2. rq' = rq
    BY <1>4 DEF WorkflowConsumer, WcDequeue, WcDrop, WcBounce, WcAccept, WcProvision, WcInject,
       WcInjectLoad, WcTeardown, WcAcquire, WcBusy, WcLoad, WcRun, WcSkip, WcAbort, WcStartChild,
       WcQueueChild, WcConclude, WcAnnounce, WcPersist, WcRequeue, WcRelease
  <2>3. WcOnSteps(h)'
    BY <1>4, WcStaysOnSteps
  <2>. QED  BY <2>1, <2>2, <2>3, <1>2, <1>3 DEF StepsInv
<1>5. ASSUME NEW h \in Hosts, EventConsumer(h) PROVE StepsInv'
  <2>1. /\ (\A g \in Hosts \ {h} : ec'[g] = ec[g]) /\ wc' = wc
        /\ ec'[h].pc = "persist" => EcLoad(h)
    BY <1>5, EcKeepsCopy
  <2>2. rq' = rq
    BY <1>5 DEF EventConsumer, EcDequeue, EcLookup, EcAcquire, EcBusy, EcLoad, EcPersist, EcQueue,
       EcTerminate, EcRelease, EcDone
  <2>3. EcOnSteps(h)'
    <3>1. CASE EcLoad(h)
      <4>. DEFINE w == ec[h].w
                  p == subs[ec[h].s].ptr
      <4>1. w \in Workflows /\ DOMAIN ec[h] = {"pc", "e", "todo", "s", "w", "mem", "snap", "ok"}
        BY <3>1 DEF EcLoad, TypeOK, EcsTypeOK, EcTypeOK, EcHolding
      <4>2. ec'[h].w = w /\ ec'[h].mem = Delivered(store[w], p)
        BY <3>1, <4>1, <1>1 DEF EcLoad
      <4>. HIDE DEF w, p
      <4>3. Sound(DefOf[w]) => OnSteps(DefOf[w], Delivered(store[w], p).ptrs)
        BY <4>1, <1>1, StepsOf
      <4>. QED  BY <4>2, <4>3 DEF EcOnSteps
    <3>2. CASE ~EcLoad(h)
      BY <3>2, <2>1 DEF EcOnSteps
    <3>. QED  BY <3>1, <3>2
  <2>. QED  BY <2>1, <2>2, <2>3, <1>2, <1>3 DEF StepsInv
<1>6. ASSUME NEW r \in Requests, Request(r) PROVE StepsInv'
  <2>1. /\ wc' = wc /\ ec' = ec /\ \A q \in Requests \ {r} : rq'[q] = rq[q]
        /\ DOMAIN rq[r] = {"pc", "mem", "e"}
    BY <1>1, <1>6 DEF Request, RqStart, RqPublish, RqLoad, RqPersist, RqQueue, TypeOK, RqsTypeOK,
       RqTypeOK
  <2>2. \A pc : [NewRq EXCEPT !.pc = pc].pc = pc
    BY DEF NewRq
  <2>3. RqOnSteps(r)'
    <3>1. CASE RqLoad(r)
      <4>1. r.on \in Workflows /\ IsInstance(store[r.on])
        BY <3>1, <1>1, RequestsAssumption DEF RqLoad, IsStored
      <4>2. [store[r.on] EXCEPT !.status = To(r.op)].ptrs = store[r.on].ptrs
        BY <4>1 DEF IsInstance
      <4>3. rq'[r].pc = "persist" => rq'[r].mem = [store[r.on] EXCEPT !.status = To(r.op)]
        BY <3>1, <2>2, <1>1 DEF RqLoad
      <4>. QED  BY <4>1, <4>2, <4>3, <1>1 DEF RqOnSteps
    <3>2. CASE RqStart(r) \/ RqPublish(r) \/ RqPersist(r) \/ RqQueue(r)
      <4>1. rq'[r].pc # "persist"
        BY <3>2, <2>1, <2>2, <1>1 DEF RqStart, RqPublish, RqPersist, RqQueue
      <4>. QED  BY <4>1 DEF RqOnSteps
    <3>. QED  BY <1>6, <3>1, <3>2 DEF Request
  <2>. QED  BY <2>1, <2>3, <1>2, <1>3 DEF StepsInv
<1>7. ASSUME NEW w \in Workflows, NEW p, Tick(w, p) PROVE StepsInv'
  <2>1. ASSUME NEW h \in Hosts PROVE WcOnSteps(h)' /\ EcOnSteps(h)'
    <3>1. /\ wc'[h].pc = wc[h].pc /\ wc'[h].w = wc[h].w
          /\ ec'[h].pc = ec[h].pc /\ ec'[h].w = ec[h].w
          /\ wc'[h].mem = wc[h].mem \/ wc'[h].mem = Later(wc[h].mem, p)
          /\ ec'[h].mem = ec[h].mem \/ ec'[h].mem = Later(ec[h].mem, p)
      BY <1>7, TickFrame
    <3>2. IsStored(wc[h].mem) /\ IsStored(ec[h].mem) /\ WcOnSteps(h) /\ EcOnSteps(h)
      BY DEF TypeOK, WcsTypeOK, WcTypeOK, EcsTypeOK, EcTypeOK, StepsInv
    <3>. QED  BY <3>1, <3>2, StepsOf DEF WcOnSteps, EcOnSteps
  <2>2. ASSUME NEW r \in Requests PROVE RqOnSteps(r)'
    <3>1. DOMAIN rq[r] = {"pc", "mem", "e"} /\ IsStored(rq[r].mem) /\ RqOnSteps(r)
      BY DEF TypeOK, RqsTypeOK, RqTypeOK, StepsInv
    <3>2. rq'[r] = IF r.on = w THEN [rq[r] EXCEPT !.mem = Later(rq[r].mem, p)] ELSE rq[r]
      BY <1>7 DEF Tick
    <3>3. rq'[r].pc = rq[r].pc /\ (rq'[r].mem = rq[r].mem \/ rq'[r].mem = Later(rq[r].mem, p))
      BY <3>1, <3>2
    <3>. QED  BY <3>1, <3>3, StepsOf DEF RqOnSteps
  <2>. QED  BY <2>1, <2>2, <1>2 DEF StepsInv
<1>8. (\E w \in Workflows : LeaseExpires(w)) \/ UNCHANGED vars => StepsInv'
  BY <1>2, <1>3 DEF LeaseExpires, vars, StepsInv
<1>. QED
  BY <1>4, <1>5, <1>6, <1>7, <1>8 DEF Next, Time, WcFault, WcUnsaved, EcFault, Crash, RqFault

\* An instance comes into being as a sub-workflow or by a start request.
LEMMA ComesToExist ==
  ASSUME TypeOK, WorkExists, [Next]_vars, NEW c \in Workflows, ~Exists(c), Exists(c)'
  PROVE  \/ \E h \in Hosts : /\ wc[h].w \in Workflows /\ c \in Children[wc[h].w]
                             /\ wc'[h].w = wc[h].w /\ wc'[h].child = c
         \/ \E r \in Requests : r.op = "start" /\ r.on = c
<1>1. DOMAIN store = Workflows /\ IsStored(store[c]) /\ store[c] = Absent /\ store'[c] # Absent
  BY DEF TypeOK, ProvidersTypeOK, Exists
<1>2. ASSUME NEW h \in Hosts, WcInject(h) \/ WcPersist(h) PROVE FALSE
  <2>1. store' = [store EXCEPT ![wc[h].w] = wc[h].mem] /\ wc[h].pc # "idle"
    BY <1>2 DEF WcInject, WcPersist
  <2>2. wc[h].w # c
    BY <2>1, <1>1 DEF WorkExists, WcExists, Exists
  <2>. QED  BY <2>1, <2>2, <1>1
<1>3. ASSUME NEW h \in Hosts, EcPersist(h) PROVE FALSE
  <2>1. store' = [store EXCEPT ![ec[h].w] = ec[h].mem] /\ ec[h].pc \in EcHolding
    BY <1>3 DEF EcPersist, EcHolding
  <2>2. ec[h].w # c
    BY <2>1, <1>1 DEF WorkExists, EcExists, Exists
  <2>. QED  BY <2>1, <2>2, <1>1
<1>4. ASSUME NEW r \in Requests, RqPersist(r) PROVE FALSE
  <2>1. store' = [store EXCEPT ![r.on] = rq[r].mem] /\ rq[r].pc = "persist"
    BY <1>4 DEF RqPersist
  <2>2. r.on # c
    BY <2>1, <1>1 DEF WorkExists, RqExists, Exists
  <2>. QED  BY <2>1, <2>2, <1>1
<1>5. ASSUME NEW w \in Workflows, NEW p, Tick(w, p) PROVE FALSE
  <2>1. store' = [store EXCEPT ![w] = Later(store[w], p)]
    BY <1>5 DEF Tick
  <2>2. Later(store[c], p) = Absent
    BY <1>1, LaterType
  <2>. QED  BY <2>1, <2>2, <1>1
<1>6. ASSUME NEW v, Create(v) PROVE v = c
  BY <1>1, <1>6 DEF Create
<1>7. ASSUME NEW h \in Hosts, NEW p, WcStartChild(h, p)
      PROVE  /\ wc[h].w \in Workflows /\ c \in Children[wc[h].w]
             /\ wc'[h].w = wc[h].w /\ wc'[h].child = c
  <2>1. PICK v \in Children[wc[h].w] :
          /\ Create(v)
          /\ wc' = [wc EXCEPT ![h].pc = "queue_child", ![h].p = p, ![h].child = v]
    BY <1>7 DEF WcStartChild
  <2>2. /\ DOMAIN wc = Hosts /\ wc[h].w \in Workflows
        /\ DOMAIN wc[h] = {"pc", "w", "mem", "snap", "todo", "new", "p", "child", "e"}
    BY <1>7 DEF WcStartChild, OnTurn, TypeOK, WcsTypeOK, WcTypeOK
  <2>3. v = c
    BY <2>1, <1>6
  <2>. QED  BY <2>1, <2>2, <2>3
<1>8. ASSUME NEW r \in Requests, RqStart(r) PROVE r.op = "start" /\ r.on = c
  BY <1>6, <1>8 DEF RqStart
<1>. QED  BY <1>1, <1>2, <1>3, <1>4, <1>5, <1>7, <1>8, StoreWriters

\* What one more subscription, or several, add to a sequence of them.
LEMMA Subscribes ==
  ASSUME NEW a \in Seq(EventSubscription), NEW b \in Seq(EventSubscription)
  PROVE  /\ \A i \in DOMAIN a : i \in DOMAIN (a \o b) /\ (a \o b)[i] = a[i]
         /\ \A i \in DOMAIN b : Len(a) + i \in DOMAIN (a \o b) /\ (a \o b)[Len(a) + i] = b[i]
OBVIOUS

\* The pass keeps what it bears until that is persisted, unless it is aborted.
LEMMA WcBears ==
  ASSUME TypeOK, WorkExists, NEW h \in Hosts, WorkflowConsumer(h), StartsOne(h),
         \A p \in wc[h].todo : ~WcAbort(h, p), NEW c \in Workflows, Bears(h, c)
  PROVE  (wc'[h].w = wc[h].w /\ Bears(h, c)') \/ Subscribed(subs', wc[h].w, c)
<1>1. /\ DOMAIN wc = Hosts /\ subs \in Seq(EventSubscription)
      /\ DOMAIN wc[h] = {"pc", "w", "mem", "snap", "todo", "new", "p", "child", "e"}
      /\ wc[h].new \in Seq(EventSubscription)
      /\ wc[h].new # <<>> => wc[h].pc \in WcWorking
      /\ wc[h].pc # "idle" => wc[h].w \in Workflows
      /\ wc[h].pc = "queue_child" => wc[h].child \in Workflows /\ wc[h].p \in wc[h].todo
      /\ Len(events) \in Nat
  BY DEF TypeOK, ProvidersTypeOK, WcsTypeOK, WcTypeOK
<1>2. wc[h].pc \in WcWorking /\ (wc[h].pc # "queue_child" => wc[h].child # c)
  <2>1. DOMAIN <<>> = {} /\ c # "none"
    BY SetsAssumption
  <2>. QED  BY <2>1, <1>1 DEF Bears, StartsOne, WcWorking
<1>. DEFINE Kept == wc'[h].w = wc[h].w /\ Bears(h, c)'
<1>3. ASSUME wc[h].pc # "queue_child", wc'[h].w = wc[h].w, NEW new \in Seq(EventSubscription),
             wc'[h].new = wc[h].new \o new
      PROVE  Kept
  <2>1. PICK i \in DOMAIN wc[h].new : wc[h].new[i].key = c
    BY <1>2, <1>3 DEF Bears
  <2>2. i \in DOMAIN wc'[h].new /\ wc'[h].new[i] = wc[h].new[i]
    BY <1>1, <1>3, Subscribes
  <2>. QED  BY <2>1, <2>2, <1>3 DEF Bears
<1>4. ASSUME wc[h].pc # "queue_child", wc'[h].w = wc[h].w, wc'[h].new = wc[h].new PROVE Kept
  BY <1>2, <1>4 DEF Bears
<1>5. CASE WcConclude(h) \/ WcAnnounce(h)
  BY <1>1, <1>4, <1>5 DEF WcConclude, WcAnnounce
<1>6. CASE WcPersist(h)
  <2>1. PICK i \in DOMAIN wc[h].new : wc[h].new[i].key = c
    BY <1>2, <1>6 DEF Bears, WcPersist
  <2>2. wc[h].new[i].w = wc[h].w
    BY DEF WorkExists, WcExists
  <2>. DEFINE j == Len(subs) + i
  <2>3. j \in DOMAIN subs' /\ subs'[j] = wc[h].new[i]
    BY <1>1, <1>6, Subscribes DEF WcPersist
  <2>. HIDE DEF j
  <2>. QED  BY <2>1, <2>2, <2>3 DEF Subscribed
<1>7. ASSUME NEW p \in wc[h].todo, WcRun(h, p) PROVE Kept
  <2>1. PICK r \in StepResults(DefAt(h), wc[h].mem.ptrs, p) :
          AdvanceWith(h, p, r,
            IF r.kind = "event"
            THEN <<Subscription(wc[h].w, p, StepAt(h, p).value, Len(events))>> ELSE <<>>)
    BY <1>7 DEF WcRun
  <2>. DEFINE sub == Subscription(wc[h].w, p, StepAt(h, p).value, Len(events))
              new == IF r.kind = "event" THEN <<sub>> ELSE <<>>
  <2>2. wc[h].pc = "run" /\ HasStep(h, p)
    BY <1>7 DEF WcRun, OnTurn
  <2>3. StepAt(h, p).value \in Value
    BY <2>2, OnTurnType DEF StepAt, HasStep, IsDefinition, WorkflowStep
  <2>4. sub \in EventSubscription
    BY <2>2, <2>3, <1>1, OnTurnType DEF Subscription, EventSubscription
  <2>. HIDE DEF sub
  <2>5. new \in Seq(EventSubscription)
    BY <2>4
  <2>6. AdvanceWith(h, p, r, new)
    BY <2>1 DEF sub
  <2>. HIDE DEF new
  <2>7. wc'[h].w = wc[h].w /\ wc'[h].new = wc[h].new \o new
    BY <2>6, <1>1 DEF AdvanceWith, Advance
  <2>. QED  BY <2>2, <2>5, <2>7, <1>3
<1>8. ASSUME NEW p \in wc[h].todo, WcSkip(h, p) PROVE Kept
  <2>1. <<>> \in Seq(EventSubscription) /\ wc[h].pc = "run"
    BY <1>8 DEF WcSkip, OnTurn
  <2>2. wc'[h].w = wc[h].w /\ wc'[h].new = wc[h].new \o <<>>
    BY <1>1, <1>8 DEF WcSkip, Advance
  <2>. QED  BY <2>1, <2>2, <1>3
<1>9. ASSUME NEW p \in wc[h].todo, WcStartChild(h, p) PROVE Kept
  <2>1. wc[h].pc = "run" /\ wc'[h].w = wc[h].w /\ wc'[h].new = wc[h].new
    BY <1>1, <1>9 DEF WcStartChild, OnTurn
  <2>. QED  BY <2>1, <1>4
<1>10. CASE WcQueueChild(h)
  <2>. DEFINE sub == Subscription(wc[h].w, wc[h].p, wc[h].child, Len(events))
  <2>1. wc[h].pc = "queue_child" /\ AdvanceWith(h, wc[h].p, wait_for_event, <<sub>>)
    BY <1>10 DEF WcQueueChild
  <2>2. sub \in EventSubscription /\ sub.key = wc[h].child
    BY <2>1, <1>1, OnTurnType DEF Subscription, EventSubscription
  <2>. HIDE DEF sub
  <2>3. wc'[h].w = wc[h].w /\ wc'[h].new = wc[h].new \o <<sub>>
    BY <2>1, <1>1 DEF AdvanceWith, Advance
  <2>4. <<sub>> \in Seq(EventSubscription) /\ DOMAIN <<sub>> = {1} /\ <<sub>>[1] = sub
    BY <2>2
  <2>5. /\ \A i \in DOMAIN wc[h].new : i \in DOMAIN wc'[h].new /\ wc'[h].new[i] = wc[h].new[i]
        /\ Len(wc[h].new) + 1 \in DOMAIN wc'[h].new /\ wc'[h].new[Len(wc[h].new) + 1] = sub
    BY <2>3, <2>4, <1>1, Subscribes
  <2>6. Bears(h, c)'
    BY <2>2, <2>5 DEF Bears
  <2>. QED  BY <2>3, <2>6
<1>. QED
  BY <1>2, <1>5, <1>6, <1>7, <1>8, <1>9, <1>10 DEF WorkflowConsumer, WcWorking,
     WcDequeue, WcDrop, WcBounce, WcAccept, WcProvision, WcInjectLoad, WcInject, WcTeardown,
     WcAcquire, WcBusy, WcLoad, WcRequeue, WcRelease

\* One sub-workflow is being started at a time.
LEMMA WcStartsOne ==
  ASSUME TypeOK, NEW h \in Hosts, WorkflowConsumer(h), StartsOne(h)
  PROVE  StartsOne(h)'
<1>1. /\ DOMAIN wc = Hosts
      /\ DOMAIN wc[h] = {"pc", "w", "mem", "snap", "todo", "new", "p", "child", "e"}
  BY DEF TypeOK, WcsTypeOK, WcTypeOK
<1>2. /\ IdleWc.child = "none" /\ Executed(h).child = "none"
      /\ \A pc, w : [IdleWc EXCEPT !.pc = pc, !.w = w].child = "none"
  BY DEF IdleWc, Executed
<1>3. CASE WcDequeue(h) \/ WcDrop(h) \/ WcBounce(h) \/ WcAccept(h) \/ WcProvision(h)
           \/ WcInjectLoad(h) \/ WcInject(h) \/ WcTeardown(h) \/ WcBusy(h)
           \/ WcAcquire(h) \/ WcRequeue(h) \/ WcRelease(h)
  BY <1>1, <1>2, <1>3 DEF WcDequeue, WcDrop, WcBounce, WcAccept, WcProvision,
     WcInjectLoad, WcInject, WcTeardown, WcBusy, WcAcquire, WcRequeue, WcRelease, StartsOne
<1>4. CASE WcLoad(h) \/ WcConclude(h) \/ WcAnnounce(h) \/ WcPersist(h)
  <2>1. wc[h].child = "none"
    BY <1>4 DEF WcLoad, WcConclude, WcAnnounce, WcPersist, StartsOne
  <2>2. CASE WcLoad(h) \/ WcAnnounce(h)
    BY <2>1, <2>2, <1>1 DEF WcLoad, WcAnnounce, StartsOne
  <2>3. CASE WcConclude(h)
    BY <2>1, <2>3, <1>1 DEF WcConclude, StartsOne
  <2>4. CASE WcPersist(h)
    BY <2>4, <1>1, <1>2 DEF WcPersist, StartsOne
  <2>. QED  BY <1>4, <2>2, <2>3, <2>4
<1>5. ASSUME NEW p, NEW inst, NEW n, NEW new, Advance(h, p, inst, n, new) PROVE StartsOne(h)'
  BY <1>1, <1>5 DEF Advance, StartsOne
<1>6. ASSUME NEW p \in wc[h].todo,
             WcRun(h, p) \/ WcSkip(h, p) \/ WcAbort(h, p) \/ WcStartChild(h, p)
      PROVE  StartsOne(h)'
  <2>1. CASE WcRun(h, p) \/ WcSkip(h, p)
    BY <2>1, <1>5 DEF WcRun, WcSkip, AdvanceWith
  <2>2. CASE WcAbort(h, p)
    BY <2>2, <1>1, <1>2 DEF WcAbort, StartsOne
  <2>3. CASE WcStartChild(h, p)
    BY <2>3, <1>1 DEF WcStartChild, StartsOne
  <2>. QED  BY <1>6, <2>1, <2>2, <2>3
<1>7. CASE WcQueueChild(h)
  BY <1>5, <1>7 DEF WcQueueChild, AdvanceWith
<1>. QED  BY <1>3, <1>4, <1>6, <1>7 DEF WorkflowConsumer

\* A subscription is never removed, only closed.
LEMMA StaysSubscribed ==
  ASSUME TypeOK, [Next]_vars, NEW w, NEW c, Subscribed(subs, w, c)
  PROVE  Subscribed(subs', w, c)
<1>1. /\ subs \in Seq(EventSubscription) /\ \A h \in Hosts : wc[h].new \in Seq(EventSubscription)
      /\ \A s \in DOMAIN subs : DOMAIN subs[s] = {"w", "ptr", "key", "asOf", "open"}
  <2>1. subs \in Seq(EventSubscription)
    BY DEF TypeOK, ProvidersTypeOK
  <2>2. \A s \in DOMAIN subs : subs[s] \in EventSubscription
    BY <2>1, ElementOfSeq
  <2>. QED  BY <2>1, <2>2 DEF TypeOK, WcsTypeOK, WcTypeOK, EventSubscription
<1>2. PICK s \in DOMAIN subs : subs[s].w = w /\ subs[s].key = c
  BY DEF Subscribed
<1>3. ASSUME NEW h \in Hosts, WcPersist(h) PROVE Subscribed(subs', w, c)
  <2>1. s \in DOMAIN subs' /\ subs'[s] = subs[s]
    BY <1>1, <1>2, <1>3, Subscribes DEF WcPersist
  <2>. QED  BY <2>1, <1>2 DEF Subscribed
<1>4. ASSUME NEW h \in Hosts, EcTerminate(h) PROVE Subscribed(subs', w, c)
  <2>1. s \in DOMAIN subs' /\ subs'[s].w = subs[s].w /\ subs'[s].key = subs[s].key
    BY <1>1, <1>2, <1>4 DEF EcTerminate
  <2>. QED  BY <2>1, <1>2 DEF Subscribed
<1>5. subs' = subs => Subscribed(subs', w, c)
  OBVIOUS
<1>6. ASSUME NEW h \in Hosts, WorkflowConsumer(h) PROVE subs' = subs \/ WcPersist(h)
  BY <1>6 DEF WorkflowConsumer, WcDequeue, WcDrop, WcBounce, WcAccept, WcProvision, WcInject,
     WcInjectLoad, WcTeardown, WcAcquire, WcBusy, WcLoad, WcRun, WcSkip, WcAbort, WcStartChild,
     WcQueueChild, WcConclude, WcAnnounce, WcRequeue, WcRelease, persistence
<1>7. ASSUME NEW h \in Hosts, EventConsumer(h) PROVE subs' = subs \/ EcTerminate(h)
  BY <1>7 DEF EventConsumer, EcDequeue, EcLookup, EcAcquire, EcBusy, EcLoad, EcPersist, EcQueue,
     EcRelease, EcDone, persistence
<1>8. ASSUME NEW r \in Requests, Request(r) PROVE subs' = subs
  BY <1>8 DEF Request, RqStart, RqPublish, RqLoad, RqPersist, RqQueue, persistence
<1>9. ASSUME \/ \E h \in Hosts : WcFault(h) \/ WcUnsaved(h) \/ EcFault(h) \/ Crash(h)
             \/ \E r \in Requests : RqFault(r)
             \/ \E v \in Workflows : LeaseExpires(v)
             \/ Time \/ UNCHANGED vars
      PROVE  subs' = subs
  BY <1>9 DEF WcFault, WcUnsaved, EcFault, Crash, RqFault, LeaseExpires, Time, Tick, vars, persistence
<1>. QED  BY <1>3, <1>4, <1>5, <1>6, <1>7, <1>8, <1>9 DEF Next

\* The number of faults is zero as long as there is none.
LEMMA NoFaultYet ==
  ASSUME TypeOK, [Next]_vars, faults' = 0
  PROVE  faults = 0 /\ ~Fault
<1>1. faults \in Nat
  BY SetsAssumption DEF TypeOK, ProvidersTypeOK
<1>2. ~Fault
  BY <1>1 DEF Fault
<1>3. ASSUME NEW h \in Hosts, WorkflowConsumer(h) PROVE faults' = faults
  BY <1>3 DEF WorkflowConsumer, WcDequeue, WcDrop, WcBounce, WcAccept, WcProvision, WcInject,
     WcInjectLoad, WcTeardown, WcAcquire, WcBusy, WcLoad, WcRun, WcSkip, WcAbort, WcStartChild,
     WcQueueChild, WcConclude, WcAnnounce, WcPersist, WcRequeue, WcRelease
<1>4. ASSUME NEW h \in Hosts, EventConsumer(h) PROVE faults' = faults
  BY <1>4 DEF EventConsumer, EcDequeue, EcLookup, EcAcquire, EcBusy, EcLoad, EcPersist, EcQueue,
     EcTerminate, EcRelease, EcDone
<1>5. ASSUME NEW r \in Requests, Request(r) PROVE faults' = faults
  BY <1>5 DEF Request, RqStart, RqPublish, RqLoad, RqPersist, RqQueue
<1>6. (\E v \in Workflows : LeaseExpires(v)) \/ Time \/ UNCHANGED vars => faults' = faults
  BY DEF LeaseExpires, Time, Tick, vars
<1>7. faults' = faults
  BY <1>2, <1>3, <1>4, <1>5, <1>6 DEF Next, WcFault, WcUnsaved, EcFault, Crash, RqFault
<1>. QED  BY <1>2, <1>7

LEMMA ChildNext ==
  ASSUME TypeOK, WorkExists, SoundFamilies, ChildInv, [Next]_vars
  PROVE  ChildInv'
<1>. SUFFICES ASSUME faults' = 0
              PROVE  ChildrenAwaited' /\ StepsInv' /\ \A h \in Hosts : StartsOne(h)'
  BY DEF ChildInv
<1>1. ~Fault /\ ChildrenAwaited /\ StepsInv /\ \A h \in Hosts : StartsOne(h)
  BY NoFaultYet DEF ChildInv
<1>2. StepsInv'
  BY <1>1, StepsNext
<1>3. ASSUME NEW h \in Hosts, NEW p \in wc[h].todo, WcAbort(h, p), Children[wc[h].w] # {}
      PROVE  FALSE
  <2>1. wc[h].pc = "run" /\ (HasStep(h, p) => "error" \in StepAt(h, p).when)
    BY <1>3 DEF WcAbort, OnTurn
  <2>2. wc[h].w \in Workflows /\ p \in DOMAIN wc[h].mem.ptrs
    BY <2>1 DEF TypeOK, WcsTypeOK, WcTypeOK
  <2>3. Sound(DefAt(h))
    BY <2>2, <1>3 DEF SoundFamilies, DefAt
  <2>4. HasStep(h, p)
    BY <2>1, <2>2, <2>3, <1>1 DEF StepsInv, WcOnSteps, WcWorking, OnSteps, DefAt, HasStep
  <2>. QED  BY <2>1, <2>3, <2>4 DEF Sound, HasStep, StepAt
<1>4. ASSUME NEW h \in Hosts
      PROVE  /\ StartsOne(h)'
             /\ \A c \in Workflows : Bears(h, c) /\ c \in Children[wc[h].w] =>
                  (wc'[h].w = wc[h].w /\ Bears(h, c)') \/ Subscribed(subs', wc[h].w, c)
  <2>1. CASE WorkflowConsumer(h)
    BY <2>1, <1>1, <1>3, WcStartsOne, WcBears
  <2>2. ASSUME wc'[h].w = wc[h].w, wc'[h].pc = wc[h].pc, wc'[h].child = wc[h].child,
               wc'[h].new = wc[h].new
        PROVE  /\ StartsOne(h)'
               /\ \A c \in Workflows : Bears(h, c) => wc'[h].w = wc[h].w /\ Bears(h, c)'
    BY <2>2, <1>1 DEF StartsOne, Bears
  <2>3. CASE ~WorkflowConsumer(h)
    <3>1. ASSUME NEW g \in Hosts, WorkflowConsumer(g) PROVE wc'[h] = wc[h]
      BY <2>3, <3>1, WcKeepsCopy
    <3>2. ASSUME NEW g \in Hosts, EventConsumer(g) PROVE wc'[h] = wc[h]
      BY <3>2, EcKeepsCopy
    <3>3. ASSUME NEW r \in Requests, Request(r) PROVE wc'[h] = wc[h]
      BY <3>3 DEF Request, RqStart, RqPublish, RqLoad, RqPersist, RqQueue
    <3>4. (\E v \in Workflows : LeaseExpires(v)) \/ UNCHANGED vars => wc'[h] = wc[h]
      BY DEF LeaseExpires, vars
    <3>5. ASSUME Time
          PROVE  /\ wc'[h].w = wc[h].w /\ wc'[h].pc = wc[h].pc /\ wc'[h].child = wc[h].child
                 /\ wc'[h].new = wc[h].new
      BY <3>5, TickFrame DEF Time
    <3>6. wc'[h] = wc[h] \/ Time
      BY <3>1, <3>2, <3>3, <3>4, <1>1 DEF Next, WcFault, WcUnsaved, EcFault, Crash, RqFault
    <3>. QED  BY <3>5, <3>6, <2>2
  <2>. QED  BY <2>1, <2>3
<1>5. ASSUME NEW w \in Workflows, NEW c \in Children[w], store'[c] # Absent
      PROVE  (\E h \in Hosts : wc'[h].w = w /\ Bears(h, c)') \/ Subscribed(subs', w, c)
  <2>1. c \in Workflows
    BY SetsAssumption
  <2>2. CASE Exists(c)
    <3>1. (\E h \in Hosts : wc[h].w = w /\ Bears(h, c)) \/ Subscribed(subs, w, c)
      BY <2>2, <1>1, NoFaultYet DEF ChildrenAwaited, Bears, Subscribed, Exists
    <3>2. Subscribed(subs, w, c) => Subscribed(subs', w, c)
      BY StaysSubscribed
    <3>3. ASSUME NEW h \in Hosts, wc[h].w = w, Bears(h, c)
          PROVE  (wc'[h].w = w /\ Bears(h, c)') \/ Subscribed(subs', w, c)
      BY <3>3, <2>1, <1>4
    <3>. QED  BY <3>1, <3>2, <3>3
  <2>3. CASE ~Exists(c)
    <3>1. Exists(c)'
      BY <1>5 DEF Exists
    <3>2. \A r \in Requests : ~(r.op = "start" /\ r.on = c)
      BY DEF SoundFamilies
    <3>3. PICK h \in Hosts : /\ wc[h].w \in Workflows /\ c \in Children[wc[h].w]
                             /\ wc'[h].w = wc[h].w /\ wc'[h].child = c
      BY <3>1, <3>2, <2>1, <2>3, ComesToExist
    <3>4. wc[h].w = w
      <4>1. Children[wc[h].w] \cap Children[w] # {}
        BY <3>3
      <4>. QED  BY <4>1, <3>3 DEF SoundFamilies
    <3>. QED  BY <3>3, <3>4 DEF Bears
  <2>. QED  BY <2>2, <2>3
<1>6. ChildrenAwaited'
  BY <1>5 DEF ChildrenAwaited, Bears, Subscribed
<1>. QED  BY <1>2, <1>4, <1>6

\* As long as nothing failed, a sub-workflow that exists is awaited, although
\* SubWorkflowStep starts it in the middle of its parent's pass and the
\* subscription is only persisted at the end of it: until then the pass has the
\* subscription in hand, and a pass on a sound definition gets to the end, also
\* beside suspend, resume and terminate.  (A pass that is aborted after it started
\* a child, by a condition that cannot be evaluated or a step that does not
\* exist, leaves the child without a parent.)
THEOREM ChildrenAreAwaited ==
  ASSUME SoundFamilies
  PROVE  Spec => []ChildrenAwaited
<1>1. Init => ChildInv
  <2>. SUFFICES ASSUME Init PROVE ChildrenAwaited /\ StepsInv /\ \A h \in Hosts : StartsOne(h)
    BY DEF ChildInv
  <2>1. ChildrenAwaited
    BY SetsAssumption DEF Init, ChildrenAwaited
  <2>2. StepsInv
    BY AbsentIsNone DEF Init, StepsInv, StoreOnSteps, WcOnSteps, EcOnSteps, RqOnSteps, OnSteps,
       IdleWc, IdleEc, NewRq, WcWorking
  <2>3. \A h \in Hosts : StartsOne(h)
    BY DEF Init, StartsOne, IdleWc
  <2>. QED  BY <2>1, <2>2, <2>3
<1>2. TypeOK /\ WorkExists /\ ChildInv /\ [Next]_vars => ChildInv'
  BY ChildNext
<1>3. ChildInv => ChildrenAwaited
  BY DEF ChildInv, ChildrenAwaited
<1>. QED  BY <1>1, <1>2, <1>3, TypesKept, WorkRefersToInstances, PTL DEF Spec
=============================================================================
