------------------------------- MODULE Engine -------------------------------
(***************************************************************************)
(* Several workflow hosts over shared providers.  Each host runs two tasks *)
(* (WorkflowHost::start): the workflow consumer takes instances from the   *)
(* workflow queue and has the executor run a pass on them under the        *)
(* instance's lock, and the event consumer takes events from the event     *)
(* queue and hands them to the waiting pointers (process_event).  API      *)
(* requests (start, publish, suspend, resume, terminate) run beside them.  *)
(* One action per await: every call of a provider is a step of its own, in *)
(* the order of the code.                                                  *)
(*                                                                         *)
(* Abstractions:                                                           *)
(*  - An instance's definition is fixed by its id (DefOf).                 *)
(*  - Event n is the n-th event made; one that create_event failed to      *)
(*    store is not `stored'.  A subscription made when there were n events *)
(*    has as_of n and matches the events after n.                          *)
(*  - A request is handled at most once; two equal calls are two requests. *)
(*  - Rust's lock, queue and persistence providers are the traits'         *)
(*    contracts: a lock that only the dead lose, FIFO queues whose dequeue *)
(*    removes the item, a store that overwrites whole instances.           *)
(*  - workflow.data is left out: inject_service_endpoints writes back the  *)
(*    instance it read.                                                    *)
(***************************************************************************)
EXTENDS Primitives, FiniteSets

CONSTANTS
  Hosts,            \* workflow hosts
  Workflows,        \* instance ids, those of sub-workflows included
  DefOf,            \* the definition of each instance
  Children,         \* the ids the sub-workflows of an instance may get
  Keys,             \* event keys user code waits for
  Requests,         \* API calls: [op, on, n]
  Registered,       \* definitions each host has registered (by instance)
  Capable,          \* definitions each host can execute (by instance)
  Serviced,         \* instances whose definition declares services
  StrictTerminate,  \* terminate_subscription fails on a terminated one
  MaxPointers,      \* bound on the pointers ever created for an instance
  MaxFaults         \* bound on crashes and provider errors

Op == {"start", "publish", "suspend", "resume", "terminate"}

ASSUME SetsAssumption ==
  /\ "none" \notin Workflows /\ Keys \cap Workflows = {}
  /\ \A w \in Workflows : IsDefinition(DefOf[w]) /\ Children[w] \subseteq Workflows
  /\ Serviced \subseteq Workflows
  /\ StrictTerminate \in BOOLEAN /\ MaxPointers \in Nat /\ MaxFaults \in Nat
ASSUME RequestsAssumption ==
  \A r \in Requests :
    /\ r.op \in Op
    /\ r.on \in IF r.op = "publish" THEN Keys ELSE Workflows

VARIABLES
  store,     \* persistence: the instances
  subs,      \* persistence: the event subscriptions
  events,    \* persistence: the events made, stored or not
  wfQueue, evQueue,  \* the queue provider's two queues
  locked,    \* the lock provider: the locked instances
  up,        \* the service provider: instances with services running
  wc, ec,    \* workflow and event consumer of each host
  rq,        \* progress of each request
  lastId,    \* largest pointer id used, per instance
  dirty,     \* history: written without the lock since the last locked load
  faults

persistence == <<store, subs, events>>
queues == <<wfQueue, evQueue>>
vars == <<store, subs, events, wfQueue, evQueue, locked, up, wc, ec, rq,
          lastId, dirty, faults>>

Absent == Instance("Absent", <<>>)

IdleWc == [pc |-> "idle", w |-> "none", mem |-> Absent, snap |-> Absent,
           todo |-> {}, new |-> <<>>, p |-> 0, child |-> "none", e |-> 0]
IdleEc == [pc |-> "idle", e |-> 0, todo |-> {}, s |-> 0, w |-> "none",
           mem |-> Absent, snap |-> Absent, ok |-> TRUE]
NewRq == [pc |-> "new", mem |-> Absent, e |-> 0]

Init ==
  /\ store = [w \in Workflows |-> Absent]
  /\ subs = <<>> /\ events = <<>> /\ wfQueue = <<>> /\ evQueue = <<>>
  /\ locked = {} /\ up = {}
  /\ wc = [h \in Hosts |-> IdleWc]
  /\ ec = [h \in Hosts |-> IdleEc]
  /\ rq = [r \in Requests |-> NewRq]
  /\ lastId = [w \in Workflows |-> 0]
  /\ dirty = [w \in Workflows |-> FALSE]
  /\ faults = 0

Subscription(w, p, key, asOf) ==
  [w |-> w, ptr |-> p, key |-> key, asOf |-> asOf, open |-> TRUE]
NewEvent(key) == [key |-> key, stored |-> TRUE, processed |-> FALSE]
UnsavedEvent(key) == [NewEvent(key) EXCEPT !.stored = FALSE]

\* Slip: the instance is not saved.
CreateUnsaved(w) ==
  /\ store[w] = Absent
  /\ lastId' = [lastId EXCEPT ![w] = 1]
  /\ UNCHANGED store

\* create_new_workflow of an instance that does not exist yet.
Create(w) ==
  /\ store[w] = Absent
  /\ store' = [store EXCEPT ![w] = NewInstance(DefOf[w])]
  /\ lastId' = [lastId EXCEPT ![w] = 1]

-----------------------------------------------------------------------------
(* The workflow consumer: before and after the executor.                   *)

\* The pc after executor.execute has returned, and the state it leaves.
Executed(h) == IF wc[h].w \in Serviced
               THEN [IdleWc EXCEPT !.pc = "teardown", !.w = wc[h].w] ELSE IdleWc

WcDequeue(h) ==
  /\ wc[h].pc = "idle" /\ wfQueue # <<>>
  /\ wc' = [wc EXCEPT ![h].pc = "check", ![h].w = Head(wfQueue)]
  /\ wfQueue' = Tail(wfQueue)
  /\ UNCHANGED <<persistence, evQueue, locked, up, ec, rq, lastId, dirty, faults>>

\* The definition is not registered on this host: the work item is dropped.
WcDrop(h) ==
  /\ wc[h].pc = "check" /\ wc[h].w \notin Registered[h]
  /\ wc' = [wc EXCEPT ![h] = IdleWc]
  /\ UNCHANGED <<persistence, queues, locked, up, ec, rq, lastId, dirty, faults>>

\* Slip: a host that cannot execute the workflow drops the item.
WcBounceDrops(h) ==
  /\ wc[h].pc = "check"
  /\ wc[h].w \in Registered[h] \ Capable[h]
  /\ wc' = [wc EXCEPT ![h] = IdleWc]
  /\ UNCHANGED <<persistence, queues, locked, up, ec, rq, lastId, dirty, faults>>

\* can_execute_workflow is false: back to the queue.
WcBounce(h) ==
  /\ wc[h].pc = "check"
  /\ wc[h].w \in Registered[h] \ Capable[h]
  /\ wfQueue' = Append(wfQueue, wc[h].w)
  /\ wc' = [wc EXCEPT ![h] = IdleWc]
  /\ UNCHANGED <<persistence, evQueue, locked, up, ec, rq, lastId, dirty, faults>>

WcAccept(h) ==
  /\ wc[h].pc = "check"
  /\ wc[h].w \in Registered[h] \cap Capable[h]
  /\ wc' = [wc EXCEPT ![h].pc = IF wc[h].w \in Serviced THEN "provision" ELSE "acquire"]
  /\ UNCHANGED <<persistence, queues, locked, up, ec, rq, lastId, dirty, faults>>

WcProvision(h) ==
  /\ wc[h].pc = "provision"
  /\ up' = up \cup {wc[h].w}
  /\ wc' = [wc EXCEPT ![h].pc = "inject_load"]
  /\ UNCHANGED <<persistence, queues, locked, ec, rq, lastId, dirty, faults>>

\* inject_service_endpoints reads and writes the instance without the lock.
WcInjectLoad(h) ==
  /\ wc[h].pc = "inject_load"
  /\ wc' = [wc EXCEPT ![h].pc = "inject", ![h].mem = store[wc[h].w]]
  /\ UNCHANGED <<persistence, queues, locked, up, ec, rq, lastId, dirty, faults>>

WcInject(h) ==
  /\ wc[h].pc = "inject"
  /\ store' = [store EXCEPT ![wc[h].w] = wc[h].mem]
  /\ dirty' = [dirty EXCEPT ![wc[h].w] = TRUE]
  /\ wc' = [wc EXCEPT ![h].pc = "acquire", ![h].mem = Absent]
  /\ UNCHANGED <<subs, events, queues, locked, up, ec, rq, lastId, faults>>

\* After every pass, also after one that could not take the lock.
WcTeardown(h) ==
  /\ wc[h].pc = "teardown"
  /\ up' = up \ {wc[h].w}
  /\ wc' = [wc EXCEPT ![h] = IdleWc]
  /\ UNCHANGED <<persistence, queues, locked, ec, rq, lastId, dirty, faults>>

-----------------------------------------------------------------------------
(* WorkflowExecutor::execute.                                              *)

\* Slip: the answer of acquire_lock is ignored.
WcAcquireUnchecked(h) ==
  /\ wc[h].pc = "acquire"
  /\ locked' = locked \cup {wc[h].w}
  /\ wc' = [wc EXCEPT ![h].pc = "load"]
  /\ UNCHANGED <<persistence, queues, up, ec, rq, lastId, dirty, faults>>

WcAcquire(h) ==
  /\ wc[h].pc = "acquire" /\ wc[h].w \notin locked
  /\ locked' = locked \cup {wc[h].w}
  /\ wc' = [wc EXCEPT ![h].pc = "load"]
  /\ UNCHANGED <<persistence, queues, up, ec, rq, lastId, dirty, faults>>

\* The lock is taken: execute returns Ok and the work item is used up.
WcBusy(h) ==
  /\ wc[h].pc = "acquire" /\ wc[h].w \in locked
  /\ wc' = [wc EXCEPT ![h] = Executed(h)]
  /\ UNCHANGED <<persistence, queues, locked, up, ec, rq, lastId, dirty, faults>>

WcLoad(h) ==
  LET inst == store[wc[h].w]
  IN  /\ wc[h].pc = "load"
      /\ IF inst.status = "Runnable"
         THEN wc' = [wc EXCEPT ![h].pc = "run", ![h].mem = inst, ![h].snap = inst,
                               ![h].todo = Runnable(inst.ptrs)]
         ELSE wc' = [wc EXCEPT ![h].pc = "release"]
      /\ dirty' = [dirty EXCEPT ![wc[h].w] = FALSE]
      /\ UNCHANGED <<persistence, queues, locked, up, ec, rq, lastId, faults>>

DefAt(h) == DefOf[wc[h].w]
StepAt(h, p) == DefAt(h).steps[wc[h].mem.ptrs[p].step]
HasStep(h, p) == wc[h].mem.ptrs[p].step \in DOMAIN DefAt(h).steps
OnTurn(h, p) == wc[h].pc = "run" /\ p \in wc[h].todo

\* The pass goes on with `inst' instead of mem, which has n more pointers, and
\* with the subscriptions `new'.
Advance(h, p, inst, n, new) ==
  /\ wc' = [wc EXCEPT ![h].pc = "run", ![h].mem = inst,
                      ![h].todo = @ \ {p}, ![h].new = @ \o new,
                      ![h].p = 0, ![h].child = "none"]
  /\ lastId' = [lastId EXCEPT ![wc[h].w] = @ + n]
  /\ lastId[wc[h].w] + n <= MaxPointers

AdvanceWith(h, p, r, new) ==
  Advance(h, p, ApplyResult(DefAt(h), wc[h].mem, p, r, lastId[wc[h].w]),
          Len(new_pointers(DefAt(h), wc[h].mem.ptrs, p, r)), new)

\* A step that has to start a sub-workflow before it waits for it.
Starts(h, p, r) == StepAt(h, p).kind = "sub_workflow" /\ r.kind = "event"

WcRun(h, p) ==
  /\ OnTurn(h, p) /\ HasStep(h, p) /\ "true" \in StepAt(h, p).when
  /\ \E r \in StepResults(DefAt(h), wc[h].mem.ptrs, p) :
       /\ ~Starts(h, p, r)
       /\ AdvanceWith(h, p, r,
            IF r.kind = "event"
            THEN <<Subscription(wc[h].w, p, StepAt(h, p).value, Len(events))>> ELSE <<>>)
  /\ UNCHANGED <<persistence, queues, locked, up, ec, rq, dirty, faults>>

WcSkip(h, p) ==
  /\ OnTurn(h, p) /\ HasStep(h, p) /\ "false" \in StepAt(h, p).when
  /\ Advance(h, p, ApplySkip(DefAt(h), wc[h].mem, p, lastId[wc[h].w]),
             Len(SkipSuccessor(DefAt(h), wc[h].mem.ptrs, p)), <<>>)
  /\ UNCHANGED <<persistence, queues, locked, up, ec, rq, dirty, faults>>

\* Slip: the early return skips release_lock.
WcAbortLocked(h, p) ==
  /\ OnTurn(h, p)
  /\ HasStep(h, p) => "error" \in StepAt(h, p).when
  /\ wc' = [wc EXCEPT ![h] = IdleWc]
  /\ UNCHANGED <<persistence, queues, locked, up, ec, rq, lastId, dirty, faults>>

\* StepNotFound, or a condition that cannot be evaluated: the pass is lost.
WcAbort(h, p) ==
  /\ OnTurn(h, p)
  /\ HasStep(h, p) => "error" \in StepAt(h, p).when
  /\ wc' = [wc EXCEPT ![h] = [IdleWc EXCEPT !.pc = "release", !.w = wc[h].w]]
  /\ UNCHANGED <<persistence, queues, locked, up, ec, rq, lastId, dirty, faults>>

\* SubWorkflowStep: HostContext::start_workflow creates and queues the child
\* while the parent's pass is under way ...
WcStartChild(h, p) ==
  /\ OnTurn(h, p) /\ HasStep(h, p) /\ "true" \in StepAt(h, p).when
  /\ \E r \in StepResults(DefAt(h), wc[h].mem.ptrs, p) : Starts(h, p, r)
  /\ \E c \in Children[wc[h].w] :
       /\ Create(c)
       /\ wc' = [wc EXCEPT ![h].pc = "queue_child", ![h].p = p, ![h].child = c]
  /\ UNCHANGED <<subs, events, queues, locked, up, ec, rq, dirty, faults>>

\* Slip: the step does not subscribe to the child's completion.
WcQueueChildUnawaited(h) ==
  /\ wc[h].pc = "queue_child"
  /\ wfQueue' = Append(wfQueue, wc[h].child)
  /\ AdvanceWith(h, wc[h].p, wait_for_event, <<>>)
  /\ UNCHANGED <<persistence, evQueue, locked, up, ec, rq, dirty, faults>>

\* ... and only then takes as_of and waits for the child's completion event.
WcQueueChild(h) ==
  /\ wc[h].pc = "queue_child"
  /\ wfQueue' = Append(wfQueue, wc[h].child)
  /\ AdvanceWith(h, wc[h].p, wait_for_event,
                 <<Subscription(wc[h].w, wc[h].p, wc[h].child, Len(events))>>)
  /\ UNCHANGED <<persistence, evQueue, locked, up, ec, rq, dirty, faults>>

\* All pointers have run.  A finished instance announces its completion with
\* an event, before it is persisted as Complete.
WcConclude(h) ==
  LET done == Concluded(wc[h].mem)
  IN  /\ wc[h].pc = "run" /\ wc[h].todo = {}
      /\ IF done.status # wc[h].mem.status
         THEN /\ events' = Append(events, NewEvent(wc[h].w))
              /\ wc' = [wc EXCEPT ![h].pc = "announce", ![h].mem = done,
                                  ![h].e = Len(events) + 1]
         ELSE /\ wc' = [wc EXCEPT ![h].pc = "persist"]
              /\ UNCHANGED events
      /\ UNCHANGED <<store, subs, queues, locked, up, ec, rq, lastId, dirty, faults>>

WcAnnounce(h) ==
  /\ wc[h].pc = "announce"
  /\ evQueue' = Append(evQueue, wc[h].e)
  /\ wc' = [wc EXCEPT ![h].pc = "persist", ![h].e = 0]
  /\ UNCHANGED <<persistence, wfQueue, locked, up, ec, rq, lastId, dirty, faults>>

\* Slip: the subscriptions are not persisted.
WcPersistUnsubscribed(h) ==
  /\ wc[h].pc = "persist"
  /\ store' = [store EXCEPT ![wc[h].w] = wc[h].mem]
  /\ wc' = [wc EXCEPT ![h] = [IdleWc EXCEPT
              !.pc = IF NeedsRequeue(wc[h].mem) THEN "requeue" ELSE "release",
              !.w = wc[h].w]]
  /\ UNCHANGED <<subs, events, queues, locked, up, ec, rq, lastId, dirty, faults>>

\* The instance and the pass's subscriptions, in one transaction.
WcPersist(h) ==
  /\ wc[h].pc = "persist"
  /\ store' = [store EXCEPT ![wc[h].w] = wc[h].mem]
  /\ subs' = subs \o wc[h].new
  /\ wc' = [wc EXCEPT ![h] = [IdleWc EXCEPT
              !.pc = IF NeedsRequeue(wc[h].mem) THEN "requeue" ELSE "release",
              !.w = wc[h].w]]
  /\ UNCHANGED <<events, queues, locked, up, ec, rq, lastId, dirty, faults>>

\* Follow-up work is queued while the lock is still held.
WcRequeue(h) ==
  /\ wc[h].pc = "requeue"
  /\ wfQueue' = Append(wfQueue, wc[h].w)
  /\ wc' = [wc EXCEPT ![h].pc = "release"]
  /\ UNCHANGED <<persistence, evQueue, locked, up, ec, rq, lastId, dirty, faults>>

WcRelease(h) ==
  /\ wc[h].pc = "release"
  /\ locked' = locked \ {wc[h].w}
  /\ wc' = [wc EXCEPT ![h] = Executed(h)]
  /\ UNCHANGED <<persistence, queues, up, ec, rq, lastId, dirty, faults>>

-----------------------------------------------------------------------------
(* The event consumer: process_event.                                      *)

EcDequeue(h) ==
  /\ ec[h].pc = "idle" /\ evQueue # <<>>
  /\ ec' = [ec EXCEPT ![h].pc = "lookup", ![h].e = Head(evQueue)]
  /\ evQueue' = Tail(evQueue)
  /\ UNCHANGED <<persistence, wfQueue, locked, up, wc, rq, lastId, dirty, faults>>

Matches(s, e) == subs[s].open /\ subs[s].key = events[e].key /\ subs[s].asOf < e

\* get_event and get_subscriptions, before any lock is taken.  An event that is
\* not stored is an error, and its item is used up.
EcLookup(h) ==
  /\ ec[h].pc = "lookup"
  /\ ec' = [ec EXCEPT ![h] =
       IF events[ec[h].e].stored
       THEN [@ EXCEPT !.pc = "next", !.todo = {s \in DOMAIN subs : Matches(s, ec[h].e)}]
       ELSE IdleEc]
  /\ UNCHANGED <<persistence, queues, locked, up, wc, rq, lastId, dirty, faults>>

EcAcquire(h, s) ==
  /\ ec[h].pc = "next" /\ s \in ec[h].todo /\ subs[s].w \notin locked
  /\ locked' = locked \cup {subs[s].w}
  /\ ec' = [ec EXCEPT ![h].pc = "load", ![h].s = s, ![h].w = subs[s].w]
  /\ UNCHANGED <<persistence, queues, up, wc, rq, lastId, dirty, faults>>

\* Slip: an event whose waiter is busy is dropped.
EcBusyDrops(h, s) ==
  /\ ec[h].pc = "next" /\ s \in ec[h].todo /\ subs[s].w \in locked
  /\ ec' = [ec EXCEPT ![h] = IdleEc]
  /\ UNCHANGED <<persistence, queues, locked, up, wc, rq, lastId, dirty, faults>>

\* The lock is taken: the whole event goes back to the queue.
EcBusy(h, s) ==
  /\ ec[h].pc = "next" /\ s \in ec[h].todo /\ subs[s].w \in locked
  /\ evQueue' = Append(evQueue, ec[h].e)
  /\ ec' = [ec EXCEPT ![h] = IdleEc]
  /\ UNCHANGED <<persistence, wfQueue, locked, up, wc, rq, lastId, dirty, faults>>

\* event_data, event_published and active of the pointer that waits.
Delivered(inst, p) ==
  IF p \in DOMAIN inst.ptrs /\ inst.ptrs[p].status = "WaitingForEvent"
  THEN [inst EXCEPT !.ptrs[p].event = TRUE, !.ptrs[p].active = TRUE]
  ELSE inst

EcLoad(h) ==
  LET inst == store[ec[h].w]
  IN  /\ ec[h].pc = "load"
      /\ ec' = [ec EXCEPT ![h].pc = "persist", ![h].snap = inst,
                          ![h].mem = Delivered(inst, subs[ec[h].s].ptr)]
      /\ dirty' = [dirty EXCEPT ![ec[h].w] = FALSE]
      /\ UNCHANGED <<persistence, queues, locked, up, wc, rq, lastId, faults>>

EcPersist(h) ==
  /\ ec[h].pc = "persist"
  /\ store' = [store EXCEPT ![ec[h].w] = ec[h].mem]
  /\ ec' = [ec EXCEPT ![h].pc = "queue", ![h].mem = Absent, ![h].snap = Absent]
  /\ UNCHANGED <<subs, events, queues, locked, up, wc, rq, lastId, dirty, faults>>

\* The instance is queued while its lock is still held.
EcQueue(h) ==
  /\ ec[h].pc = "queue"
  /\ wfQueue' = Append(wfQueue, ec[h].w)
  /\ ec' = [ec EXCEPT ![h].pc = "terminate"]
  /\ UNCHANGED <<persistence, evQueue, locked, up, wc, rq, lastId, dirty, faults>>

\* terminate_subscription: SQLite and the in-memory store set a flag, Postgres
\* deletes the row and fails when it is gone.
EcTerminate(h) ==
  /\ ec[h].pc = "terminate"
  /\ subs' = [subs EXCEPT ![ec[h].s].open = FALSE]
  /\ ec' = [ec EXCEPT ![h].pc = "release",
                      ![h].ok = StrictTerminate => subs[ec[h].s].open]
  /\ UNCHANGED <<store, events, queues, locked, up, wc, rq, lastId, dirty, faults>>

\* The lock is released whatever happened; an error then ends process_event.
EcRelease(h) ==
  /\ ec[h].pc = "release"
  /\ locked' = locked \ {ec[h].w}
  /\ ec' = [ec EXCEPT ![h] = IF ec[h].ok
              THEN [IdleEc EXCEPT !.pc = "next", !.e = ec[h].e,
                                  !.todo = ec[h].todo \ {ec[h].s}]
              ELSE IdleEc]
  /\ UNCHANGED <<persistence, queues, up, wc, rq, lastId, dirty, faults>>

\* mark_event_processed.
EcDone(h) ==
  /\ ec[h].pc = "next" /\ ec[h].todo = {}
  /\ events' = [events EXCEPT ![ec[h].e].processed = TRUE]
  /\ ec' = [ec EXCEPT ![h] = IdleEc]
  /\ UNCHANGED <<store, subs, queues, locked, up, wc, rq, lastId, dirty, faults>>

-----------------------------------------------------------------------------
(* API requests, on any host, without the lock.                            *)

From(op) == CASE op = "suspend" -> {"Runnable"}
              [] op = "resume" -> {"Suspended"}
              [] OTHER -> {"Runnable", "Suspended"}
To(op) == CASE op = "suspend" -> "Suspended"
            [] op = "resume" -> "Runnable"
            [] OTHER -> "Terminated"

RqStart(r) ==
  /\ r.op = "start" /\ rq[r].pc = "new"
  /\ Create(r.on)
  /\ rq' = [rq EXCEPT ![r].pc = "queue"]
  /\ UNCHANGED <<subs, events, queues, locked, up, wc, ec, dirty, faults>>

Fault == faults < MaxFaults /\ faults' = faults + 1

\* Slip: a failure of create_event is ignored here too.
RqPublishUnchecked(r) ==
  /\ r.op = "publish" /\ rq[r].pc = "new"
  /\ \/ events' = Append(events, NewEvent(r.on)) /\ UNCHANGED faults
     \/ events' = Append(events, UnsavedEvent(r.on)) /\ Fault
  /\ rq' = [rq EXCEPT ![r].pc = "queue", ![r].e = Len(events) + 1]
  /\ UNCHANGED <<store, subs, queues, locked, up, wc, ec, lastId, dirty>>

\* create_event first: when it fails, nothing has happened.
RqPublish(r) ==
  /\ r.op = "publish" /\ rq[r].pc = "new"
  /\ events' = Append(events, NewEvent(r.on))
  /\ rq' = [rq EXCEPT ![r].pc = "queue", ![r].e = Len(events) + 1]
  /\ UNCHANGED <<store, subs, queues, locked, up, wc, ec, lastId, dirty, faults>>

\* suspend, resume and terminate read the instance ...
RqLoad(r) ==
  /\ r.op \notin {"start", "publish"} /\ rq[r].pc = "new"
  /\ store[r.on] # Absent
  /\ rq' = [rq EXCEPT ![r] =
       IF store[r.on].status \in From(r.op)
       THEN [pc |-> "persist", mem |-> [store[r.on] EXCEPT !.status = To(r.op)], e |-> 0]
       ELSE [NewRq EXCEPT !.pc = "done"]]
  /\ UNCHANGED <<persistence, queues, locked, up, wc, ec, lastId, dirty, faults>>

\* ... and write it back whole.
RqPersist(r) ==
  /\ rq[r].pc = "persist"
  /\ store' = [store EXCEPT ![r.on] = rq[r].mem]
  /\ dirty' = [dirty EXCEPT ![r.on] = TRUE]
  /\ rq' = [rq EXCEPT ![r] = [NewRq EXCEPT
              !.pc = IF r.op = "resume" THEN "queue" ELSE "done"]]
  /\ UNCHANGED <<subs, events, queues, locked, up, wc, ec, lastId, faults>>

\* start and resume queue the instance, publish queues the event.
RqQueue(r) ==
  /\ rq[r].pc = "queue"
  /\ IF r.op = "publish"
     THEN evQueue' = Append(evQueue, rq[r].e) /\ UNCHANGED wfQueue
     ELSE wfQueue' = Append(wfQueue, r.on) /\ UNCHANGED evQueue
  /\ rq' = [rq EXCEPT ![r] = [NewRq EXCEPT !.pc = "done"]]
  /\ UNCHANGED <<persistence, locked, up, wc, ec, lastId, dirty, faults>>

-----------------------------------------------------------------------------
(* Time and faults.                                                        *)

\* Where a consumer holds the lock of its instance.
WcHolding == {"load", "run", "queue_child", "announce", "persist", "requeue", "release"}
EcHolding == {"load", "persist", "queue", "terminate", "release"}
WcHolds(h, w) == wc[h].pc \in WcHolding /\ wc[h].w = w
EcHolds(h, w) == ec[h].pc \in EcHolding /\ ec[h].w = w

\* The sleep_until of a pointer passes: an absolute time, in every copy.
Later(inst, p) == [inst EXCEPT !.ptrs = Awake(inst.ptrs, p)]

Tick(w, p) ==
  /\ \/ Asleep(store[w].ptrs, p)
     \/ \E h \in Hosts : wc[h].w = w /\ Asleep(wc[h].mem.ptrs, p)
  /\ store' = [store EXCEPT ![w] = Later(@, p)]
  /\ wc' = [h \in Hosts |-> IF wc[h].w = w
              THEN [wc[h] EXCEPT !.mem = Later(@, p), !.snap = Later(@, p)] ELSE wc[h]]
  /\ ec' = [h \in Hosts |-> IF ec[h].w = w
              THEN [ec[h] EXCEPT !.mem = Later(@, p), !.snap = Later(@, p)] ELSE ec[h]]
  /\ rq' = [r \in Requests |-> IF r.on = w
              THEN [rq[r] EXCEPT !.mem = Later(@, p)] ELSE rq[r]]
  /\ UNCHANGED <<subs, events, queues, locked, up, lastId, dirty, faults>>

\* A provider call fails and the error is propagated or logged.
WcFault(h) ==
  /\ Fault
  /\ \/ /\ wc[h].pc \in {"check", "provision", "teardown"}
        /\ wc' = [wc EXCEPT ![h] = IdleWc]
        /\ UNCHANGED lastId
     \/ /\ wc[h].pc \in {"inject_load", "inject", "acquire", "release"}
        /\ wc' = [wc EXCEPT ![h] = Executed(h)]
        /\ UNCHANGED lastId
     \/ /\ wc[h].pc \in {"load", "persist", "requeue"}
        /\ wc' = [wc EXCEPT ![h] = [IdleWc EXCEPT !.pc = "release", !.w = wc[h].w]]
        /\ UNCHANGED lastId
     \/ /\ wc[h].pc = "announce"
        /\ wc' = [wc EXCEPT ![h].pc = "persist", ![h].e = 0]
        /\ UNCHANGED lastId
     \/ /\ wc[h].pc = "queue_child"
        /\ AdvanceWith(h, wc[h].p, failure, <<>>)
  /\ UNCHANGED <<persistence, queues, locked, up, ec, rq, dirty>>

\* create_event of the completion event fails: the error is ignored, and the id
\* of an event that is not there goes to the queue all the same.
WcUnsaved(h) ==
  LET done == Concluded(wc[h].mem)
  IN  /\ Fault
      /\ wc[h].pc = "run" /\ wc[h].todo = {} /\ done.status # wc[h].mem.status
      /\ events' = Append(events, UnsavedEvent(wc[h].w))
      /\ wc' = [wc EXCEPT ![h].pc = "announce", ![h].mem = done, ![h].e = Len(events) + 1]
      /\ UNCHANGED <<store, subs, queues, locked, up, ec, rq, lastId, dirty>>

EcFault(h) ==
  /\ Fault
  /\ \/ /\ ec[h].pc \in {"lookup", "next", "release"}
        /\ ec' = [ec EXCEPT ![h] = IdleEc]
     \/ /\ ec[h].pc \in EcHolding \ {"release"}
        /\ ec' = [ec EXCEPT ![h].pc = "release", ![h].ok = FALSE,
                            ![h].mem = Absent, ![h].snap = Absent]
  /\ UNCHANGED <<persistence, queues, locked, up, wc, rq, lastId, dirty>>

\* The process of a request dies, or its queue is unreachable.
RqFault(r) ==
  /\ Fault
  /\ rq[r].pc \in {"queue", "persist"}
  /\ rq' = [rq EXCEPT ![r] = [NewRq EXCEPT !.pc = "done"]]
  /\ UNCHANGED <<persistence, queues, locked, up, wc, ec, lastId, dirty>>

\* A host dies and comes back: its consumers lose what they were doing, the
\* locks they held stay behind ...
Crash(h) ==
  /\ Fault
  /\ wc[h] # IdleWc \/ ec[h] # IdleEc
  /\ wc' = [wc EXCEPT ![h] = IdleWc]
  /\ ec' = [ec EXCEPT ![h] = IdleEc]
  /\ UNCHANGED <<persistence, queues, locked, up, rq, lastId, dirty>>

\* Slip: the lease runs out under a live holder.
LeaseExpiresEarly(w) ==
  /\ w \in locked
  /\ locked' = locked \ {w}
  /\ UNCHANGED <<persistence, queues, up, wc, ec, rq, lastId, dirty, faults>>

\* ... until their lease runs out.
LeaseExpires(w) ==
  /\ w \in locked
  /\ \A h \in Hosts : ~WcHolds(h, w) /\ ~EcHolds(h, w)
  /\ locked' = locked \ {w}
  /\ UNCHANGED <<persistence, queues, up, wc, ec, rq, lastId, dirty, faults>>

-----------------------------------------------------------------------------
WorkflowConsumer(h) ==
  \/ WcDequeue(h) \/ WcDrop(h) \/ WcBounce(h) \/ WcAccept(h)
  \/ WcProvision(h) \/ WcInjectLoad(h) \/ WcInject(h) \/ WcTeardown(h)
  \/ WcAcquire(h) \/ WcBusy(h) \/ WcLoad(h)
  \/ \E p \in wc[h].todo :
       WcRun(h, p) \/ WcSkip(h, p) \/ WcAbort(h, p) \/ WcStartChild(h, p)
  \/ WcQueueChild(h) \/ WcConclude(h) \/ WcAnnounce(h)
  \/ WcPersist(h) \/ WcRequeue(h) \/ WcRelease(h)

EventConsumer(h) ==
  \/ EcDequeue(h) \/ EcLookup(h)
  \/ \E s \in ec[h].todo : EcAcquire(h, s) \/ EcBusy(h, s)
  \/ EcLoad(h) \/ EcPersist(h) \/ EcQueue(h) \/ EcTerminate(h)
  \/ EcRelease(h) \/ EcDone(h)

Request(r) ==
  RqStart(r) \/ RqPublish(r) \/ RqLoad(r) \/ RqPersist(r) \/ RqQueue(r)

Time == \E w \in Workflows : \E p \in DOMAIN store[w].ptrs : Tick(w, p)

Next ==
  \/ \E h \in Hosts : WorkflowConsumer(h) \/ EventConsumer(h)
  \/ \E r \in Requests : Request(r)
  \/ \E h \in Hosts : WcFault(h) \/ WcUnsaved(h) \/ EcFault(h) \/ Crash(h)
  \/ \E r \in Requests : RqFault(r)
  \/ \E w \in Workflows : LeaseExpires(w)
  \/ Time

Spec == Init /\ [][Next]_vars

\* The consumer tasks keep running, a request that was begun is carried out,
\* clocks advance and leases run out.  A host that bounces an instance sleeps
\* for 100 ms while the others poll every 50 ms, so they do get to dequeue it:
\* that is the strong fairness.  Nobody has to issue a request.
FairSpec ==
  /\ Spec
  /\ \A h \in Hosts : /\ WF_vars(WorkflowConsumer(h)) /\ SF_vars(WcDequeue(h))
                      /\ WF_vars(EventConsumer(h))
  /\ \A r \in Requests : WF_vars(RqPersist(r) \/ RqQueue(r))
  /\ \A w \in Workflows : WF_vars(LeaseExpires(w))
  /\ WF_vars(Time)

-----------------------------------------------------------------------------
(* Properties.                                                             *)

EventSubscription ==
  [w : Workflows, ptr : Nat, key : Value \cup Workflows, asOf : Nat, open : BOOLEAN]
Event == [key : Keys \cup Workflows, stored : BOOLEAN, processed : BOOLEAN]
IsStored(inst) == IsInstance(inst) \/ inst = Absent

\* Where the workflow consumer has a working copy that it is going to persist.
WcWorking == {"run", "queue_child", "announce", "persist"}
WcPc == WcHolding \cup
  {"idle", "check", "provision", "inject_load", "inject", "acquire", "teardown"}
EcPc == EcHolding \cup {"idle", "lookup", "next"}
RqPc == {"new", "queue", "persist", "done"}

\* A workflow consumer, when there are n events.
WcTypeOK(c, n) ==
  /\ DOMAIN c = {"pc", "w", "mem", "snap", "todo", "new", "p", "child", "e"}
  /\ c.pc \in WcPc
  /\ c.pc # "idle" => c.w \in Workflows
  /\ IsStored(c.mem) /\ IsStored(c.snap)
  /\ c.pc \in WcWorking => IsInstance(c.mem)
  /\ c.todo \subseteq DOMAIN c.mem.ptrs
  /\ c.todo # {} => c.pc \in {"run", "queue_child"}
  /\ c.new \in Seq(EventSubscription)
  /\ c.new # <<>> => c.pc \in WcWorking
  /\ c.pc = "queue_child" =>
       /\ c.child \in Workflows /\ c.p \in c.todo
       /\ c.mem.ptrs[c.p].step \in DOMAIN DefOf[c.w].steps
  /\ c.e \in 0..n /\ (c.pc = "announce" => c.e > 0)

\* An event consumer, when there are n events and the subscriptions ss.
EcTypeOK(c, n, ss) ==
  /\ DOMAIN c = {"pc", "e", "todo", "s", "w", "mem", "snap", "ok"}
  /\ c.pc \in EcPc /\ c.e \in 0..n
  /\ c.pc # "idle" => c.e > 0
  /\ c.todo \subseteq ss
  /\ c.pc \in EcHolding => c.s \in ss /\ c.w \in Workflows
  /\ IsStored(c.mem) /\ IsStored(c.snap)
  /\ c.ok \in BOOLEAN

\* A request, when there are n events.
RqTypeOK(r, c, n) ==
  /\ DOMAIN c = {"pc", "mem", "e"}
  /\ c.pc \in RqPc /\ IsStored(c.mem) /\ c.e \in 0..n
  /\ r.op = "publish" /\ c.pc = "queue" => c.e > 0
  /\ c.pc = "persist" => r.op \notin {"start", "publish"}

ProvidersTypeOK ==
  /\ DOMAIN store = Workflows /\ \A w \in Workflows : IsStored(store[w])
  /\ subs \in Seq(EventSubscription) /\ events \in Seq(Event)
  /\ wfQueue \in Seq(Workflows) /\ evQueue \in Seq(1..Len(events))
  /\ locked \subseteq Workflows /\ up \subseteq Workflows
  /\ lastId \in [Workflows -> Nat] /\ dirty \in [Workflows -> BOOLEAN]
  /\ faults \in 0..MaxFaults

WcsTypeOK == DOMAIN wc = Hosts /\ \A h \in Hosts : WcTypeOK(wc[h], Len(events))
EcsTypeOK == DOMAIN ec = Hosts /\ \A h \in Hosts : EcTypeOK(ec[h], Len(events), DOMAIN subs)
RqsTypeOK == DOMAIN rq = Requests /\ \A r \in Requests : RqTypeOK(r, rq[r], Len(events))

TypeOK == ProvidersTypeOK /\ WcsTypeOK /\ EcsTypeOK /\ RqsTypeOK

\* An event that is not stored: a completion event whose create_event failed.
\* publish_event queues nothing that is not stored, and process_event goes no
\* further with what it cannot read.
UnsavedOK ==
  \A e \in DOMAIN events :
    ~events[e].stored =>
      faults > 0 /\ events[e].key \in Workflows /\ ~events[e].processed

\* The state is well formed: the types of the variables, with what the consumers
\* rely on (a queue item refers to an instance or to an event that was made, a
\* consumer past "idle" has a work item), and a queued event is stored, but for
\* the completion events whose create_event failed, an error execute ignores.
WellFormed == TypeOK /\ UnsavedOK

\* At most one consumer, of either sort and on any host, is inside the locked
\* section of an instance, and its lock is held for it: crashes, provider
\* errors and leases that run out included.
MutualExclusion ==
  \A w \in Workflows : \A g, h \in Hosts :
    /\ WcHolds(g, w) \/ EcHolds(g, w) => w \in locked
    /\ WcHolds(g, w) /\ WcHolds(h, w) => g = h
    /\ EcHolds(g, w) /\ EcHolds(h, w) => g = h
    /\ ~(WcHolds(g, w) /\ EcHolds(h, w))

Exists(w) == store[w] # Absent
WcExists(h) ==
  /\ wc[h].pc # "idle" => Exists(wc[h].w)
  /\ wc[h].pc = "inject" => wc[h].mem # Absent
  /\ wc[h].pc = "queue_child" => Exists(wc[h].child)
  /\ \A i \in DOMAIN wc[h].new : wc[h].new[i].w = wc[h].w
EcExists(h) ==
  /\ ec[h].pc \in EcHolding => Exists(ec[h].w)
  /\ ec[h].pc = "persist" => ec[h].mem # Absent
RqExists(r) ==
  /\ r.op # "publish" /\ rq[r].pc = "queue" => Exists(r.on)
  /\ rq[r].pc = "persist" => Exists(r.on) /\ rq[r].mem # Absent

\* Work refers to what exists: an instance is in the store before its id is in
\* the queue, in a subscription, in a consumer's hands or in a request that is
\* going to queue it, and whoever is going to write it back has it in hand.
\* (start_workflow stores the instance first and queues it second.)
WorkExists ==
  /\ \A i \in DOMAIN wfQueue : Exists(wfQueue[i])
  /\ \A s \in DOMAIN subs : Exists(subs[s].w)
  /\ \A h \in Hosts : WcExists(h) /\ EcExists(h)
  /\ \A r \in Requests : RqExists(r)

\* No lost update: what a consumer loaded under the lock is still what the
\* store holds when it writes the instance back, unless an unlocked writer
\* (an operator's request, the service endpoints) wrote it since.
NoLostUpdate ==
  \A h \in Hosts :
    /\ wc[h].pc \in WcWorking => dirty[wc[h].w] \/ wc[h].snap = store[wc[h].w]
    /\ ec[h].pc = "persist" => dirty[ec[h].w] \/ ec[h].snap = store[ec[h].w]

\* Without unlocked writers, a stored pointer that waits for an event has an
\* open subscription, through every crash: no waiter is out of reach.
WaitersSubscribed ==
  \A w \in Workflows : \A p \in DOMAIN store[w].ptrs :
    store[w].ptrs[p].status = "WaitingForEvent" /\ ~store[w].ptrs[p].event =>
      \E s \in DOMAIN subs : subs[s].w = w /\ subs[s].ptr = p /\ subs[s].open

\* Without unlocked writers, what has finished stays finished, whichever host
\* runs the next pass and whatever passes are lost: no persisted pointer is
\* dropped, no finished one runs again.
FinishedIsFinal ==
  [][\A w \in Workflows : \A p \in DOMAIN store[w].ptrs :
       /\ p \in DOMAIN store'[w].ptrs
       /\ store[w].ptrs[p].status \in DoneStatus
            => store'[w].ptrs[p] = store[w].ptrs[p]]_vars

\* As long as nothing failed, a sub-workflow that exists is awaited: its
\* parent's pass has yet to persist the subscription, or it is there.
ChildrenAwaited ==
  \A w \in Workflows : \A c \in Children[w] :
    faults = 0 /\ store[c] # Absent =>
      \/ \E h \in Hosts :
           /\ wc[h].w = w
           /\ wc[h].child = c \/ \E i \in DOMAIN wc[h].new : wc[h].new[i].key = c
      \/ \E s \in DOMAIN subs : subs[s].w = w /\ subs[s].key = c

OneAnnouncement ==
  \A w \in Workflows : \A d, e \in DOMAIN events :
    events[d].key = w /\ events[e].key = w => d = e

\* The pass that host h is about to persist completes its instance.
Concluding(h) == wc[h].pc \in {"announce", "persist"} /\ wc[h].mem.status = "Complete"
AnnouncedComplete ==
  \A w \in Workflows : \A e \in DOMAIN events :
    events[e].key = w =>
      store[w].status = "Complete" \/ \E h \in Hosts : wc[h].w = w /\ Concluding(h)

\* Without faults and unlocked writers, an instance announces its completion
\* once, and what it announced stays true: it is Complete in the store, or the
\* pass that announced it has yet to write it so, for execute publishes the
\* event before it persists the instance.
AnnouncedOnce == OneAnnouncement /\ AnnouncedComplete

\* Without faults, no event is abandoned half-way: one that has not been marked
\* processed is in the queue or on its way there, or an event consumer has it,
\* or no subscription is left that it should have reached.
EventsNotAbandoned ==
  \A e \in DOMAIN events : \A s \in DOMAIN subs :
    ~events[e].processed /\ Matches(s, e) =>
      \/ \E i \in DOMAIN evQueue : evQueue[i] = e
      \/ \E h \in Hosts : (ec[h].e = e /\ ec[h].ok) \/ wc[h].e = e
      \/ \E r \in Requests : rq[r].e = e

\* No lock is forgotten: a lock that some consumer holds stays with a consumer
\* that is on its way to release it, on every early return and error path of
\* execute and process_event.  Only a crash, or a failure of release_lock
\* itself, leaves a lock to its lease.
Held(w) == \E h \in Hosts : WcHolds(h, w) \/ EcHolds(h, w)
LocksNotForgotten ==
  [][\A w \in locked :
       Held(w) /\ w \in locked' /\ ~Held(w)' =>
         \E h \in Hosts : \/ Crash(h)
                          \/ wc[h].pc = "release" /\ wc[h].w = w
                          \/ ec[h].pc = "release" /\ ec[h].w = w]_vars

\* Every instance that was created, of a definition without waits and with one
\* host that can execute it, completes or is suspended by a step that used up
\* its retries, unless an operator's call interferes; the other hosts only hand
\* it back to the queue.
Operated(w) ==
  \E r \in Requests : /\ r.op \in {"suspend", "resume", "terminate"}
                      /\ r.on = w /\ rq[r].pc # "new"
InstancesEnd ==
  \A w \in Workflows :
    store[w] # Absent ~> store[w].status \in {"Complete", "Suspended"} \/ Operated(w)

-----------------------------------------------------------------------------
(* What the documentation promises and the code does not keep.             *)

\* host.rs, terminate_workflow: "Terminated workflows cannot be resumed."
TerminatedIsFinal ==
  [][\A w \in Workflows :
       store[w].status = "Terminated" => store'[w].status = "Terminated"]_vars

\* host.rs, process_event: "Acquire lock on the workflow to prevent concurrent
\* modifications."  The strict form of NoLostUpdate: what the lock's holder
\* loaded is unchanged when it persists.
LockPreventsModification ==
  \A h \in Hosts :
    /\ wc[h].pc = "persist" => wc[h].snap = store[wc[h].w]
    /\ ec[h].pc = "persist" => ec[h].snap = store[ec[h].w]

\* lib.rs, execution model: "The lock is released, and the instance is
\* re-queued if there is more work to do."  Somebody is going to look at a
\* Runnable instance with an active pointer.
Scheduled(w) ==
  \/ \E i \in DOMAIN wfQueue : wfQueue[i] = w
  \/ \E h \in Hosts : wc[h].w = w /\ wc[h].pc \notin {"release", "teardown"}
  \/ \E h \in Hosts : ec[h].w = w /\ ec[h].pc \in {"load", "persist", "queue"}
  \/ \E r \in Requests : r.on = w /\ rq[r].pc \in {"queue", "persist"}
MoreWorkIsScheduled ==
  \A w \in Workflows :
    store[w].status = "Runnable" /\ has_active(store[w].ptrs) => Scheduled(w)

\* lib.rs, WaitForStep: "Suspend until an external event is published".  An
\* event that was published after the step began to wait reaches it: when the
\* event is marked processed, no subscription that it matches is left open.
PublishedReachesWaiter ==
  \A e \in DOMAIN events : \A s \in DOMAIN subs :
    events[e].processed => ~Matches(s, e)

\* persistence.rs: a terminated subscription "no longer receives events".
ClosedReceivesNothing ==
  \A h \in Hosts : ec[h].pc = "persist" => subs[ec[h].s].open

\* service.rs: teardown is "called on workflow completion, failure, or
\* termination": while a pass runs steps, the services of the instance are up.
ServicesUpWhileRunning ==
  \A h \in Hosts :
    wc[h].pc \in {"run", "queue_child"} /\ wc[h].w \in Serviced => wc[h].w \in up

\* sub_workflow.rs: the step "starts a child workflow and waits for its
\* completion".
ParentAfterChild ==
  \A s \in DOMAIN subs : subs[s].key \in Workflows /\ subs[s].ptr \in DOMAIN store[subs[s].w].ptrs =>
    (store[subs[s].w].ptrs[subs[s].ptr].event => store[subs[s].key].status = "Complete")
=============================================================================
