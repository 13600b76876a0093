# Verification of the wfe workflow engine

TLA+ specifications of `wfe`, a distributed, durable workflow engine in Rust,
with TLC configurations that check them on small instances and TLAPS proofs for
all instances. Paths are relative to the repository's root, `src/`.

## 1. The system

A *definition* is a graph of steps, written in YAML or with a builder. An
*instance* of it is a set of *execution pointers*, each on one step. A *host*
takes instances from a queue and runs one *pass* of the executor on each: load
the instance under its lock, run the step body of every runnable pointer, turn
each result into new pointer states, successors, children and event
subscriptions, write the instance back, queue it again if a pointer is still
active. A second task per host takes published events from a queue and hands
them to waiting pointers. A server puts a gRPC API, webhooks and streams around
a host.

| Component | State | Operations | Correct means | Module |
|---|---|---|---|---|
| Executor (`wfe-core/src/executor`) | working copy of the instance, subscriptions of the pass | `execute`, `process_result`, `handle_error` | blocks join, finished work stays finished, no work forgotten, lock always released | `Pointers`, `Executor`, `Engine` |
| Primitives (`wfe-core/src/primitives`) | `persistence_data` of their pointer | `run` of 13 step bodies | containers wait for their children, sequential loops are sequential | `Primitives` |
| Host (`wfe/src/host.rs`) | two consumer tasks | consumer loops, `process_event`, start, publish, suspend, resume, terminate, endpoint injection, stop | events reach their waiters once, control requests are not lost, services are up while needed | `Engine`, `Workers` |
| Registries (`wfe/src/registry.rs`, `step_registry.rs`) | definitions, step factories, each behind an `RwLock` | register, look up | every call returns, what is registered can be executed | `Registry` |
| Lock and queue providers (memory, `wfe-valkey`, `wfe-nats`) | keys with leases, streams, channels | acquire, release, heartbeat; queue, dequeue, acknowledge | one pass at a time, an orphaned lock comes free, items arrive | `Locks`, `Queues`, `Workers` |
| Stores (memory, `wfe-postgres`, `wfe-sqlite`) | instances, pointers, subscriptions, events, commands, numbers | the `PersistenceProvider` calls, start-up | instances are read and written whole, claims have one holder, waiters are found | `Tables`, `MemoryStore`, `PostgresStore`, `SqliteStore`, `Stores`; contract: `StoreContract` |
| Artifact store (`wfe-core/src/local_artifact_store.rs`) | blobs and their expiry, in files | put, get, collect, resolve | a reference leads to its blob until it expires | `ArtifactStore`, `Stores` |
| Conditions and types (`executor/condition.rs`, `models/schema.rs`) | none | `evaluate`, validation of values | what validation accepts has a value | `Conditions` |
| YAML compiler, builder | files, specs, the definition under construction | load, include, validate, compile; builder calls | the graph means what the text says | `Loader`, `WorkflowSpecs`, `Authoring` |
| Step executors (shell, git, Deno, cargo, rustup, BuildKit, containerd, Kubernetes), services | processes, containers, jobs, namespaces, directories | mount, run, time limit, unmount; provision, teardown | success is real, limits stop what they limit, nothing is left behind, runs end (how far each holds: section 3) | `StepRuns`, `ProcessSteps`, `ContainerdSteps`, `KubernetesSteps`, `Steps` |
| Server (`wfe-server`) | calls, lifecycle bus, log store, streams | start-up, gRPC, webhooks, streams | a delivery is acted on once, subscribers see output in order | `Server`; RegisterWorkflow in `Registry` |
| OpenSearch, `wfectl`, Deno bindings, rustdoc transformer | external or none | | | not modelled |

Components meet in four places: the **store**, which everybody reads and
overwrites whole; the **queues**, whose items are gone once dequeued; the
**lock** of each instance, which passes and event delivery take and the API and
the endpoint injection do not; and the **registries** of a host, shared by its
consumer and its API.

What makes it hard: a pass may last hours between its load and its write, and
other hosts, operators, events and crashes fall into that window; a queue item
is the only trace of work to do; subscriptions, completion events and requeues
are separate provider calls whose order matters; a block is joined by polling
one level of a growing tree of pointers; leases end by themselves; files,
containers and jobs outlive the future that waits for them. `PROJECT.json` lists
these hazards with their lines and the properties about them.

## 2. The modules

The engine:

* **`Pointers`**: the data of an instance and the pure functions on it:
  `is_pointer_runnable`, `is_branch_complete`, `find_next_step`,
  `process_result`, `handle_error`, and the steps of a pass for one pointer
  (`ApplyResult`, `ApplySkip`) and for all (`Concluded`, `NeedsRequeue`). Ids are
  numbers, handed out by the caller; `sleep_until` is none, past or future;
  event data, names, timestamps and `workflow.data` are abstracted. What depends
  on them (a condition, a user's step body) is a set of possible outcomes in the
  definition.
* **`Primitives`** (extends `Pointers`): for each built-in step body the set of
  results it may return (`StepResults`).
* **`Executor`** (extends `Primitives`): one instance, one consumer. A pass is
  `BeginPass`, one `RunPointer`/`SkipPointer` per pointer, `EndPass`, or
  `AbortPass`; around it events, clock ticks, operator calls in two steps (read,
  write back) and crashes. Loading and persisting are atomic here: the module is
  about what passes do to the tree of pointers.
* **`Engine`** (extends `Primitives`): any number of hosts, instances and
  requests over shared providers, one action per provider call. `Wc...` is the
  workflow consumer with the executor inside it, `Ec...` the event consumer,
  `Rq...` the API. Any provider call can fail (`WcFault`, `EcFault`,
  `RqFault`; `WcUnsaved` for the one error that `execute` ignores, an event that
  is queued and not stored) and a host can die (`Crash`), up to `MaxFaults` times. `dirty` is a
  history variable: whether an unlocked writer wrote the instance since its last
  load under the lock; `snap` remembers what was loaded.
* **`Registry`**: the two RwLocks of one host with tokio's FIFO queues, and the
  tasks that take them. What happens between two acquisitions is one step.
  `can_execute_workflow` asks for factories and, of the definitions in `Declaring`,
  for a `ServiceProvider` (`Provided`).

What the engine stands on:

* **`Locks`**, **`Queues`** (extends `Locks`), **`Workers`** (extends `Queues`):
  the three lock providers for one resource, the three queue providers, and
  hosts whose two consumers take an item, try the lock, make a pass and release.
  Both consumers of a host use one lock provider, and so one list of held locks;
  `EventHosts` are the hosts whose event consumer comes to the instance. Time passes in
  thirds of the lease (`Ttl` = 3), which is how the NATS heartbeat counts; a pass
  may outlive the Valkey lease or not (`MayOutlive`). Messages are lost, answers
  come late, hosts crash and stop.
* **`Tables`**: what a store keeps, its clients, and the calls that all stores
  have in common. **`MemoryStore`**, **`PostgresStore`** and **`SqliteStore`**
  (extend `Tables`) say how each carries a call out: in how many statements,
  with which guard, with what left behind. PostgreSQL starts with
  `ensure_store_exists`: the schema, which no lock protects, then the migrations. An instance is a version number, in its row and in its
  tree of pointers: a *torn* instance is one whose two numbers differ.
* **`ArtifactStore`** (extends `Tables`): the blob directory, one action per file
  operation.
* **`Stores`** composes the four. **`StoreContract`** is the abstract
  specification: instances are stored, replaced and loaded whole in one step, a
  number is drawn once, a claim has one holder. `Stores!Implements` is the
  refinement: row and tree are the instance, a client at `loaded` holds what it
  read, a client at `claimed` has the claim.
* **`StepRuns`**: what the executor does around a step body: provision, mount,
  run, unmount, teardown, retry. **`ProcessSteps`**, **`ContainerdSteps`** and
  **`KubernetesSteps`** add the bodies and the environment they use (processes,
  the daemon, the cluster, both marked external); **`Steps`** composes them. A
  process is running, awaiting (a script, on an op), orphaned (what a killed `sh`
  had started), ended or gone. The containerd daemon refuses to delete a task
  that runs, and no call of the code kills one.
  `conf` says which options of a step are in use, chosen once.

What stands on the engine:

* **`Conditions`**: JSON values, type expressions, `evaluate` and the validation
  of values, as operators.
* **`WorkflowSpecs`** (extends `Pointers`, `Conditions`): validation and
  compilation of YAML workflows, as operators that yield `Pointers`'
  definitions.
* **`Loader`**: loading YAML files with their includes, one file after the other.
* **`Authoring`** (extends `Executor`, `WorkflowSpecs`, `Loader`): compilation of
  what was loaded, the calls of the builder, registration with its factories,
  and then `Executor`'s consumer running what came out. Each of its steps is one
  of `Loader` or, by its conjunct `Afterwards`, leaves `Loader`'s files alone, so
  that `AuthoringSpec` implies `LoaderSpec`.
* **`Server`**: start-up, shutdown and restart (the store persists, log store, bus,
  keys and registry are new), calls with their answers, lost connections (`Cut`)
  and retries, broadcast channels as sequences with positions, log store and
  streams. `Secured` are the doors with a secret or token configured; the others
  let everybody in.
* **`MCExecutor`, `MCEngine`, `MCAuthoring`**: the definitions, hosts, requests
  and files of the runs. The other modules are checked as they are.
* **`PointersProofs`** (what the executor's operators do to an instance),
  **`EngineProofs`** (types and locks, then what is stored),
  **`DefinitionsProofs`** (`Loader` and `Registry`),
  **`ExecutorProofs`, `StoresProofs`, `WorkersProofs`, `StepsProofs`,
  `ServerProofs`**: theorems, section 4.

A definition marked *Slip* is a mistake one could make in the code line below
it. The specification does not use it; it serves to show that the property that
should notice does. The type invariants of `Engine`, `Executor`, `Registry`,
`Stores`, `Workers`, `Steps` and `Server` are proved; that of `Engine` is also part of
an invariant of a run, `WellFormed`.

Assumptions of the models that are not the code's doing:

* In `Engine` the lock is lost only by the dead (`LeaseExpires`). That is the NATS
  provider, whose heartbeat renews the lease, and the in-memory one; `Workers`
  checks it for them, and for Valkey as long as a pass is shorter than its 30 s.
  With NATS there is an exception, which `OnePass` names: one consumer of a host can
  strike the other's lock from the list the heartbeat works from.
* In `Engine` the store writes the instance and its new subscriptions together.
  `Stores!WaitersFound` checks it for the SQL providers. The in-memory provider,
  meant for tests, takes two locks one after the other.
* `can_execute_workflow` has said yes before a pass, so the executor finds every
  step type. A missing step id is modelled (`AbortPass`, `WcAbort`).
* The store does not keep the order of pointers (the SQL providers do not), so a
  pass runs its pointers in any order.
* `Locks`: heartbeats are punctual and local steps take no time.
* Deterministic conversions are left out where nobody can observe them (archives,
  manifests, command lines, protocol messages), or reduced to succeeding or
  failing.

## 3. Runs

All runs set `CHECK_DEADLOCK FALSE`: an instance that is over, or that waits for
an event nobody publishes, is a state in which the system rightly does nothing.

### Passing

| Run | Distinct states | What it checks |
|---|---|---|
| `blocks` | 319,033 | all primitives, nested, with failures, retries and compensation, up to three operator calls, two crashes, passes that end with an error: `BlocksJoined`, `OneItemAtATime`, `NotStuck`, `FinishedIsFinal`, `CompleteIsFinal`; fair: `EventuallyEnds`, for definitions without waits and without a crash |
| `hosts` | 212,623 | two hosts, parent and child, one host without the parent's definition, one event, two faults: `WellFormed`, `WorkExists`, `WaitersSubscribed`, `MutualExclusion`, `ChildrenAwaited`, `FinishedIsFinal`, `LocksNotForgotten` |
| `control` | 63,635 | fair; one capable host of two, a step that is retried, suspend, resume, terminate and endpoint injection: `InstancesEnd`, for instances that no operator suspended or terminated |
| `broadcast` | 1,071,578 | two waiters, two events, two hosts (up to symmetry): `EventsNotAbandoned`, `AnnouncedOnce`, `NoLostUpdate` |
| `registry` | 115,194 | fair; a host without a `ServiceProvider`, as `wfe-server` is, one of its compiled workflows declares services: `CallsReturn`; `CompiledCanExecute` (a compiled workflow is bounced only for want of its services) |
| `providers` | 287,833 | fair; two hosts, one with both consumers, on each lock and queue, two items, a channel of one, one lost message or answer, one stop or crash: `OnePass`, `LockComesFree`, `ItemsTaken` |
| `stores` | 2,000,071 | each store with two clients, five calls, one fault: `Implements` (the refinement), `WaitersFound`, `CommandsKept`, `StartsTogether`; the artifact store: `ArtifactsThere` |
| `steps` | 262,813 | fair; each kind of step for a workflow and its sub-workflow, two tries, one fault, up to three features: `SuccessIsReal`, `Tidy`, `TimeoutStops`, `ServicesTornDown`, `RunsEnd` |
| `definitions` | 491,692 | files with includes, conditions on declared inputs, parts of them and outputs, on every shape of data, objects called `inputs` and `outputs` included, hooks, blocks, sub-workflows, and builder programs of up to four steps, compiled and run: `CyclesFound`, `FilesComplete`, `AcceptedEvaluates`, `TrueForGood`, `AllInOrder` |
| `server` | 1,561,630 | fair; a call with one retry, one failing call, lost connection or restart, two chunks of output from two steps, a channel of one, one reader of any kind: `TriggeredOnce`, `OutputInOrder`, `StreamsDeliver` |

Some of these properties have exceptions, because the code has them. Each formula
names its own and shows that there is no other. Where the strict form says
something further it is a definition of its own in the same module, listed below
with what TLC finds.

* `WellFormed`: an event that is queued is stored, but for completion events.
  `execute` ignores a failing `create_event` and queues the id all the same
  (`workflow_executor.rs:442`); the parent then waits for ever.
* `CompiledCanExecute`: services that nobody here can provision.
* `StartsTogether`: a host that another one overtook between looking for the schema
  and creating it. On a database that has the schema all hosts come up, on a new
  one at least the one that created it.
* `ArtifactsThere`: the meta file may be unreadable while a put writes it, or after
  one has failed.
* `Tidy`: the directory that a relative mount point lies in, and the local copy of a
  Kubernetes output, stay.
* `TimeoutStops`: what `sh` had started goes on. cargo, rustup, BuildKit, containerd
  and a shell without a log sink stop nothing and are not among the kinds it names.
* `ServicesTornDown`: for containerd the record of the container is deleted, so that
  the next pass can create it, and not the task.
* `RunsEnd`: a Deno script whose op never answers.
* `TrueForGood`: an output called `inputs` or `outputs` arrives.
* `AcceptedEvaluates`: a path with more than two segments, or data with an object
  called like the prefix.
* `OnePass`: a host stopped in the middle of a pass (stop ends the heartbeat), and the
  lock struck from the list by the other consumer of the host.
* `ItemsTaken`: items popped from Valkey by a host that stopped before it had the
  answer, or whose answer was lost.
* `TriggeredOnce`: a redelivery after an attempt that was cut off.

Bounds. `MaxPointers` = 8 (4 in `control`, 6 in `definitions`) is enough for two
levels of blocks with two children, two iterations of a loop, a successor and a
compensation; beyond it loops repeat the same shapes. Two hosts are enough for
every race on a lock, two events for one to overtake the other, two faults for a
failure while another one is being handled. In `registry` two starters are
enough for a reader before and one after a waiting writer. In `providers` a
lease of three units is the heartbeat's own grain, two items are one more
than the channel holds, and with one event consumer every pair of consumers, of
one host and of two, contends. In `stores` five calls let one client load, another
store, and a third call see what they left; two migrations let one host find the
other half-way. In `steps` two tries are a retry, and two runners a workflow and
its sub-workflow, which share a namespace. In `server` a channel of one and two
chunks make a receiver lag; one retry after one cut connection is enough for a
second start, and `MaxWriters` = 1 lets one instance write. In `definitions`
`MaxRetried` = 3 bounds the built definitions that keep the default error
behaviour, three retries; with `terminate` they have up to `MaxBuilt` steps.

Fairness. The consumer loops never end, so their steps are weakly fair; a request
that was begun is carried out; clocks advance; leases run out. `SF(WcDequeue)`
in `control`: a host that bounces an item sleeps for 100 ms, the others poll
every 50 ms. In `Registry` step bodies return and tokio grants a free lock. In
`Steps` the bodies go on when they can, timers fire, the cluster does its part,
and a process ends by itself if it has no time limit; nothing makes an op of a
script answer. In `Workers` clock and
consumers go on, faults need not happen. In `Server` handlers and streams go on
and what was written is broadcast; `StreamsDeliver` is about clients that stay
and keep up. Nobody is obliged to make a request, publish an event, register,
stop or crash.

### Where code and documentation disagree

Each of these runs finds one property violated that the repository states; the
quotes are in `PROJECT.json`.

| Run | What happens |
|---|---|
| `wakeup` | A pass queues its instance before it releases the lock. A second host that is as capable takes the item, finds the lock taken and drops the item: the instance is Runnable and never executed again. |
| `own_steps` | Step factories are keyed by type and name of the step. Two workflows that use a name for different steps run the step that was registered last. |

The following configurations are not runs of the project, they are kept beside
it because each shows in a few steps a behaviour that is easy to overlook. TLC
finds the named property violated.

| Configuration, of | Property | What happens |
|---|---|---|
| `crash.cfg`, `MCExecutor` | `ResumesAfterCrash` | A pass dies: its work item is gone, nobody calls `get_runnable_instances`, the instance is never executed again (`wfe-core/src/lib.rs:100` says it resumes). |
| `terminated.cfg`, `MCEngine` | `TerminatedIsFinal` | A pass under way writes Runnable over Terminated (`host.rs:588`: "Terminated workflows cannot be resumed."). |
| `lost_event.cfg`, `MCEngine` | `PublishedReachesWaiter` | An event published while the step that waits for it is still in its pass is marked processed and lost. |
| `registry.cfg`, `Registry` | `ChildIsStarted` | A registration between the two read guards of a pass with a sub-workflow step blocks consumer and registration for ever. |
| `delay.cfg`, `MCExecutor` | `DelayProceeds` | `DelayStep` sleeps again on every wake-up. |
| `schedule.cfg`, `MCExecutor` | `ScheduleRunsChildren` | `ScheduleStep` completes without its children. |
| `conditional.cfg`, `MCExecutor` | `SequenceJoins` | A container's `when` is evaluated in every pass; when it turns false the container is skipped with children running. |
| the same with `Defs <- TwoChildren` | `SequenceInOrder` | `SequenceStep` starts all children at once (as `wfe-core/src/lib.rs` says, and `sequence.rs` does not). |
| the same with `Defs <- TwoFailures` | `TerminatedByPass` | Of two failures in a pass the later status wins: Suspended over Terminated. |
| `services.cfg`, `MCEngine` | `ServicesUpWhileRunning` | The host that lost the race for the lock tears down the winner's services. |
| `inject.cfg`, `MCEngine` | `LockPreventsModification` | The endpoint injection writes inside another holder's locked section. |
| the same with `Serviced = {}`, `StrictTerminate = FALSE` | `ClosedReceivesNothing` | Subscriptions are read before the lock: a terminated one still receives. |
| `broadcast.cfg` with `StrictTerminate = TRUE` | `EventsNotAbandoned` | PostgreSQL: a second `terminate_subscription` fails and the event's other waiters are not served. |
| `registry.cfg` | `CompiledRuns` | A compiled workflow that declares services is bounced from host to host: `wfe-server` never configures a `ServiceProvider`. |
| `broadcast.cfg` with `DefOf <- DefsParent`, `Children <- ChildW2`, `Requests <- Start1` | `ParentAfterChild` | The parent is handed the completion of a child that is not yet stored as Complete. |
| `providers.cfg` with `MayOutlive = TRUE` | `NeverTwo` | Valkey: a pass longer than 30 s loses its lock, and two hosts run the instance. |
| `providers.cfg` with `MaxFaults = 0`, `MaxStops = 0` | `NeverTwo` | NATS: one consumer deletes its key, the other consumer of the host acquires and lists the lock, the first strikes it from the list; nobody refreshes it, and another host enters in mid-pass. |
| `providers.cfg` with `MaxFaults = 0`, or with `MaxStops = 0` | `NoneLost` | Valkey: a host that stops while it dequeues, or that does not get the answer to its RPOP, has popped an item that nobody gets. |
| `stores.cfg` | `OnlyProcessedDeleted` | PostgreSQL: a due command that was scheduled while others were handled is deleted with them, unhandled. |
| `stores.cfg` with `Locked = FALSE` | `Implements` | SQL: who reads without the instance lock can get the row of one version with the pointers of the next. |
| `stores.cfg` | `AllStart` | PostgreSQL: two hosts start on a new database, both find no schema, the second CREATE SCHEMA violates the catalogue's unique index and that host does not come up. |
| `stores.cfg` | `PutsHeal` | A put that died in its meta file leaves it torn; a second put of the same bytes finds the blob and returns a reference that no get can resolve. |
| `stores.cfg` | `RenewedThere` | A put that renews an expired artifact returns, and a get that had read the old expiry has removed the new blob. |
| `steps.cfg`, `Steps` | `ServicesStop` | containerd: teardown deletes the task, which the daemon refuses while it runs, and the record; the service goes on, and the next pass fails to create its task (`wfe-containerd/src/step.rs:649`: "Stop and clean up a service container"). |
| `steps.cfg` | `NothingLeft` | A run with a relative mount point leaves its directory in the temporary directory. |
| `steps.cfg` | `RunsEnd` without `[]Awaits(r)` | The time limit of a Deno script does not end its wait for an op: `op_fetch` has no limit. |
| `workspace.cfg`, `Steps` | `VolumePersists` | Services are torn down after every pass; with Kubernetes the namespace goes, and the volume that the steps of a family share (`workflow_definition.rs:10`). |
| `workspace.cfg` | `OwnPod` | A retried job finds the pod of the try before. |
| `workspace.cfg` | `OutputsWhole` | Outputs are copied when the file is there, which may be before it is complete. |
| `definitions.cfg`, `MCAuthoring` | `TrueForEver` | `.outputs.y == 1` holds on `{y: 1}`; when an output called `outputs` arrives, `y` is looked up in it. |
| `definitions.cfg` | `AcceptedRuns` | `.inputs.x.0 contains ...` with `x: list<number>` is checked against the type of `x`, accepted, and an error in the pass. |
| `hooks.cfg`, `MCAuthoring` | `ChildrenOnce` | The children of `parallel:` are also wired in sequence: one can run twice. |
| `hooks.cfg` | `EnsureRuns` | An `ensure` hook does not run when the step fails and its `on_failure` takes over. |
| `server.cfg` | `TriggersOnce` | The connection of a delivery is lost after its trigger was started; the forge delivers again and starts it again. |
| `server.cfg` | `FollowsAll` | A following stream subscribes after it has replayed the history; what is written in between is never shown (`wfectl/src/commands/logs.rs:18`: "Follow mode (`tail -f`)."). |

Further observations of the reading, without a property: a client
that retries a StartWorkflow whose second half failed (`grpc.rs:124`) starts a
second instance; signing keys are fetched at start-up only (`auth.rs:88`), so
rotated keys are refused until a restart; the host takes work (`main.rs:185`)
before authentication is set up (line 199), which may still end the process;
combinations of store and queue that `main.rs:66` does not list fall back to
providers in memory; the shutdown that is called graceful (line 238) drops the
servers with their calls.

## 4. Proofs

Proved by TLAPS for every value of the constants that the named assumptions
admit: any number of hosts, clients, runners, instances, definitions, requests,
tries and faults. The bounds of a run (`MaxFaults`, `MaxTries`, `MaxCalls`, ...)
are arbitrary numbers in the proofs. Each theorem that has a run's property as
its conclusion says of all instances what the run shows of a small one. The
inductive invariants were checked by TLC on the constants of the runs before
they were proved.

A theorem has the form `Spec => []P` or `Spec => P`, or takes a hypothesis on the
constants, which its statement names:

| Theorem | Shows | Inductive invariant | Hypothesis |
|---|---|---|---|
| **`EngineProofs`** | | | |
| `TypeCorrect` | `WellFormed` | `TypeOK`, `UnsavedInv` | |
| `Exclusive` | `MutualExclusion` | itself, relative to `TypeOK` | |
| `LocksReleased` | `LocksNotForgotten` | `TypeOK` | |
| `WorkRefersToInstances` | `WorkExists` | itself | |
| `NoUpdateLost` | `NoLostUpdate` | itself, with the three above | |
| `FinishedStaysDone` | `FinishedIsFinal` | `KeptInv`, `CleanInv` | `NoUnlockedWriters` |
| `WaitersAreSubscribed` | `WaitersSubscribed` | `WaitInv` | `NoUnlockedWriters` |
| `EventsKept` | `EventsNotAbandoned` | `EventInv` | `Faultless`, `Lenient` |
| `CompletionAnnouncedOnce` | `AnnouncedOnce` | `AnnounceInv` | `Faultless`, `NoUnlockedWriters` |
| `ChildrenAreAwaited` | `ChildrenAwaited` | `ChildInv`, `StepsInv` | `SoundFamilies` |
| **`ExecutorProofs`** | | | |
| `ExecutorTypeCorrect` | `TypeOK` | `FinalInv` | |
| `FinishedStaysFinal` | `FinishedIsFinal` | `FinalInv` | |
| `CompleteStaysFinal` | `CompleteIsFinal` | `CompleteInv` | |
| `BlocksAreJoined` | `BlocksJoined` | `Trees` | every definition `Joinable` |
| `OneItemInFlight` | `OneItemAtATime` | `Trees` | every definition `Joinable` |
| `NeverStuck` | `NotStuck` | `QueueInv`, of a sound definition | |
| **`DefinitionsProofs`** | | | |
| `LoadingIsComplete` | `FilesComplete` | `LoadInv` | |
| `RegistryTypeCorrect` | `TypeOK` | `GuardsInv`, `Exclusion` | |
| `CompiledNeverBounces` | `CompiledCanExecute` | `OrderInv` | |
| **`StoresProofs`** | | | |
| `StoresTypeCorrect` | `TypeOK` | itself | |
| `ArtifactsKept` | `ArtifactsThere` | `FilesInv` | |
| `HostsStart` | `StartsTogether` | `BootInv` | |
| `CommandsNotLost` | `CommandsKept` | `CommandInv` | |
| `SubscriptionsFound` | `WaitersFound` | `ClaimInv`, `WaitInv` | |
| `StoresKeepContract` | `Implements`, the refinement of `StoreContract` | `LoadInv`, `CountInv`, `ClaimInv` | `Locked = TRUE` |
| **`WorkersProofs`** | | | |
| `WorkersTypeCorrect` | `TypeOK` | itself | |
| `OneHostPasses` | `OnePass` | `LeaseInv` | `LeaseSuffices` |
| **`StepsProofs`** | | | |
| `StepsTypeCorrect` | `TypeOK` | itself | |
| `SuccessesAreReal` | `SuccessIsReal` | `StepsInv` | |
| `RunsAreTidy` | `Tidy` | `StepsInv` | |
| `TimeoutsStop` | `TimeoutStops` | `StepsInv` | |
| `ServicesAreTornDown` | `ServicesTornDown` | `StepsInv` | |
| **`ServerProofs`** | | | |
| `ServerTypeCorrect` | `TypeOK` | `StreamInv` | |
| `StreamsInOrder` | `OutputInOrder` | `StreamInv` | |
| `DeliveredOnce` | `TriggeredOnce` | `DeliveriesOK`, with `TriggeredOnce` itself | |

### The arguments

* **`Engine`**. `TypeOK` is inductive because it holds more than types: where a
  consumer has a working consumer has a working copy, which fields its position fills, that event
  numbers exist. `UnsavedInv` adds that a consumer which has read its event has a
  stored one, so that an event without a row is never processed. Its core is `PointersProofs`: `ApplyResult`, `ApplySkip` and
  `Concluded` map instances to instances for every definition and every result.
  For `MutualExclusion`, that a holder's lock is taken and that there is one
  holder need each other: a release by one would take the lock from the other.
  For `WorkExists` the conjuncts on consumers and requests are needed, since an id
  passes through their hands between store and queue. For `NoLostUpdate` each
  step leaves the instance alone, writes it without the lock and sets `dirty`, or
  writes it as the only holder (`SoleWorker`).
* **What the engine stores.** A working copy *carries* the stored instance when it
  has all its pointers and the finished ones unchanged. `KeptInv` says that every
  copy made under the lock carries what was loaded, `NoLostUpdate` that what was
  loaded is still what is stored; together a persist never takes anything back.
  `WaitInv` extends this to waiting pointers: a pass has the subscription of each
  new one in hand, an event consumer that takes a pointer out of its wait closes
  only that pointer's subscription. `EventInv` says who has an unprocessed event
  in hand at each point of the publisher and the consumer. `AnnounceInv` bridges
  the window between announcing and storing: an announced instance is Complete
  in the store or a host is about to store it, and that host has the lock; this is
  the second half of `AnnouncedOnce`, and the first rests on it.
  `ChildInv` says the same of a started child and its parent's subscription.
* **`Executor`**. Three copies of the instance exist: stored, in a pass, and the
  one an operator's call read. `AgeInv` orders them by *carries*. `Trees` holds of
  each copy that a container is Complete only when everything below it has
  finished, and that a sequential `ForEach` has one item in flight; it has to hold of the operator's old copy as well, which may be written
  back. `QueueInv`: an instance with work left is queued or in a pass.
* **`Registry`**. `GuardsInv` counts: a task has the guards its point in the code
  says, less the one it is waiting for. From it `Exclusion` is inductive, and
  from `Exclusion` that the factories are registered before the definition
  (`OrderInv`), whatever a consumer reads in between; what is left of
  `can_execute_workflow` is the test for services.
* **`Loader`**. `FilesComplete` says nothing before loading ends, so `LoadInv` says
  what of it holds on the way: an include of a file that was read was read too or
  is on the stack (`Awaited`), and every workflow of the files read has its id
  among those collected. That merging drops nothing is `MergeBoth`, and that
  filtering a list keeps each chosen element a counting argument
  (`KeptElements`): an element goes to the place that is the number of chosen
  ones up to it, and different elements have different numbers.
* **`Stores`**. `FilesInv` follows an expired meta file into the hands of the clients
  that act on it, and a torn meta file to its writer or to a fault. `BootInv`: the
  client with the advisory lock knows how many migrations are applied; the creator
  of the schema is past creating it, so that who fails there was overtaken. `ClaimInv`: a claim has one holder and its token
  says so. For the refinement, `LoadInv` says that under the lock a client that
  has read the row reads the pointers of the same version, and `CountInv` that no
  more is written than was called for, which the contract bounds.
* **`Workers`**. `LeaseInv` measures: the rest of a holder's lease exceeds the time to
  its next refresh plus one interval for each refresh that can still be lost. So
  a lease runs out under a living host only if more are lost, or if the host no
  longer refreshes it (`dirty`, `struck`).
* **`Steps`**. `StepsInv` is one invariant per runner and one on processes. `CodeInv`
  (who has an exit code has ended) makes a verdict final; `TryInv` (a later try is
  untouched) makes a retry start clean; `LeftInv` accounts for each job, container
  and directory by the point in the body that still knows it, or by the call
  that failed; `StopInv` follows the job through its deletion by others of the
  same name and by a namespace that goes; `ServiceInv` ties services to the
  pass, and what is left of them to a pass that could not be provisioned. What one runner does is framed off from the others (`Frame`,
  `OthersKeep`), so that each action is looked at for its own runner only.
* **`Server`, streams**. `LogInOrder`: the channel of an instance has its chunks in
  the order of their times, and of what is in the history at most the newest is
  not yet in the channel. That the sorted history exists which `get_history`
  chooses follows from this (`HistorySorted`): it is the channel, with that chunk
  behind it. A stream that replays has sent less than what is left to replay
  (`ReplayOK`). At the change-over the chunk that was stored and not yet
  broadcast may have been replayed and come again: `FollowOK` says that either
  nothing was sent twice and what the channel still brings is at least as new as
  all that was sent, or it is strictly newer. The weaker order alone would allow
  a second repetition, the stricter one is false before the first. A watcher's
  events are numbered by their place on the bus, so its position bounds them
  (`WatchOK`). Lagging only moves the position forward.
* **`Server`, deliveries**. `Started(c)` are the triggers that the attempt at hand of
  caller `c` has started. An attempt that has not come to its triggers, or was
  answered with an error, has started none; those left to start, and the one at
  hand, are not among them; and whatever earlier attempts started, they started
  before they were cut off (`Before`; together `DeliveryOK`). It holds because a
  trigger that cannot be started does not fail the delivery, so that an attempt is
  answered with an error before its first trigger or not at all.

### The hypotheses

Assumptions on constants are named in the modules that declare them: sets that
are disjoint and bounds that are numbers (`SetsAssumption`, `RequestsAssumption`,
`ValueAssumption`, `DefsAssumption`, `BoundsAssumption`, `TasksAssumption`,
`NamesAssumption`, `ClientsAssumption`, `LocksAssumption`, `RunnersAssumption`,
...), and in `Loader` that the root file exists and that includes and workflows
of a file are lists (`WorldsAssumption`). The hypotheses of single theorems are where the code needs them, and for
each a configuration shows what happens without:

* `NoUnlockedWriters`: nobody suspends, resumes, terminates or injects endpoints.
  Those calls read and write the instance without its lock: `terminated.cfg`,
  `inject.cfg`.
* `Faultless` (`MaxFaults = 0`): a consumer that dies with an event in hand loses it;
  a pass that fails between announcing and storing may announce again.
* `Lenient`: the store accepts a second `terminate_subscription`. PostgreSQL does
  not: `broadcast.cfg` with `StrictTerminate = TRUE`.
* `SoundFamilies`: a parent's definition refers to steps it has, no child has two
  parents or is started by a request. Operators may interfere, faults may happen
  (`ChildrenAwaited` itself speaks of the time before the first).
* `Joinable`: a step with children is a container and has no condition that can
  turn false. `conditional.cfg` shows the container that is skipped with its
  children running.
* `Locked = TRUE`: callers hold the instance lock. `stores.cfg` with
  `Locked = FALSE` shows the torn read.
* `LeaseSuffices`: `MayOutlive = FALSE` (a lease is refreshed as long as the pass
  lasts) and a lease longer than the refreshes that can be lost in a row;
  `providers.cfg` with `MayOutlive = TRUE` shows Valkey without.

### What the proof attempts found

* `NotStuck` and `EventuallyEnds` are about definitions with at least one step and
  with compensations that exist (`Sound`): an instance of an empty definition
  never completes, and a compensation of an unknown step ends every pass with an
  error.
* A pointer may wait twice: a step that is run again after its event can ask for
  another one, so a wait is not tied to one subscription for good.
* A pass that ends with an error after it has started a sub-workflow leaves that
  child without a parent that waits for it; `ChildrenAwaited` needs sound
  definitions for this reason.
* In an earlier form of `Steps` a second failing call erased the memory of
  the first, so that a directory which an aborted mount had left counted as one
  that should have been removed. One fault, as in the run, does not show this.

### Model-checked only

* Liveness (`EventuallyEnds`, `InstancesEnd`, `CallsReturn`, `LockComesFree`,
  `ItemsTaken`, `RunsEnd`, `StreamsDeliver`): fairness is out of the prover's reach.
* `CyclesFound`, `TrueForGood`, `AcceptedEvaluates` and `AllInOrder` of `Authoring`:
  they are about what `dfs`, `evaluate_inner`, `parse_type` and `compile_steps`
  compute. These operators are recursive, and what a recursive definition
  computes for every input needs an induction that the provers cannot
  instantiate.
* That `AuthoringSpec` implies `LoaderSpec`: it can be read off `AuthoringNext`, and
  TLC confirms it on the files with includes; a theorem would be in a module
  that reaches the recursive operators.

## 5. Plan

Done: the engine, the providers, the stores with their contract, the artifact
store, the step executors, the loader, the compiler and the builder, the server;
theorems for all of them but compiler and builder, which cover every invariant
and action property of the runs except the four above. What is left:

* **Abstract engine.** A specification in which a pass is atomic, and `Engine`
  without unlocked writers shown to implement it: `NoUpdateLost` and
  `FinishedStaysDone` are its main lemmas.

Not modelled, and why:

* `wfectl`, the Deno bindings (`wfe-deno`), OpenSearch and log search, lifecycle
  publishers: clients or observers, each call of theirs is one call of a modelled
  component or is ignored by the engine.
* The rustdoc transformer, manifests, command lines, archives, protocol messages,
  configuration files: deterministic conversions without state.
* What the ops of a Deno script (`executors/deno/ops`) do, its permissions and its
  module loader: of a script `ProcessSteps` has that it runs, awaits an op, goes
  on when the op answers, and ends. The V8 engine itself is external.
* `purge_workflows` (a stub), `run_workflow_sync` (polls), queries by time that the
  host never calls (`get_runnable_instances`, `get_runnable_events`).
* `persist_errors`: appends to tables that nobody reads.
* Versions of definitions and deregistration, which the host never uses.
