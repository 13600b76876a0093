-------------------------- MODULE ContainerdSteps ---------------------------
(***************************************************************************)
(* Steps and services that run as containers of a containerd daemon        *)
(* (external).  Container ids of steps are fresh; those of services are    *)
(* made of the names of service and workflow, <<r, 0>> here.  The daemon   *)
(* refuses to delete a task that runs and to create one that exists, and   *)
(* forgets a container when asked.  cluster.svcs holds the runners whose   *)
(* services have a task.                                                   *)
(***************************************************************************)
EXTENDS StepRuns

D == "containerd"
CtrAt(r, pc) == At(r, D, pc)
CtrRest == UNCHANGED <<kind, conf, cluster>>
IoDir(r) == <<r, run[r].try, "io">>

\* mount_artifacts: every artifact becomes a layer in the daemon's content
\* store, which collects it one day; nothing is unpacked here.
CtrMount(r) == Mounts(r, D, {}) \/ MountsNot(r, D, {})

\* Nothing exists yet; an image that is not there is not pulled.
CtrConnect(r) == Calls(r, D, "ready", "version", "none")
CtrVersion(r) == Calls(r, D, "version", "image", "none")
CtrImage(r) == Calls(r, D, "image", "container", "none")

\* From here on an error returns at once and leaves what exists (hit "setup").
CtrCreate(r) ==
  /\ CtrAt(r, "container")
  /\ \/ objs' = objs \cup {Id(r)} /\ Goto(r, "chain") /\ UNCHANGED faults
     \/ Failing(r, "setup") /\ UNCHANGED objs
  /\ UNCHANGED <<procs, dirs>> /\ CtrRest

\* A snapshot on top of the image's layers, named by their chain id, and one
\* diff per mounted artifact.
CtrChain(r) == Calls(r, D, "chain", "snapshot", "setup")
CtrSnapshot(r) == Calls(r, D, "snapshot", IF run[r].mounted THEN "apply" ELSE "io", "setup")
CtrApply(r) == Calls(r, D, "apply", "io", "setup")

CtrIoDir(r) ==
  /\ CtrAt(r, "io")
  /\ dirs' = dirs \cup {IoDir(r)}
  /\ \/ Goto(r, "task") /\ UNCHANGED faults
     \/ Failing(r, "setup")
  /\ UNCHANGED <<procs, objs>> /\ CtrRest

CtrStart(r) ==
  /\ CtrAt(r, "task")
  /\ \/ Spawn(Id(r)) /\ Goto(r, "wait") /\ UNCHANGED faults
     \/ Failing(r, "setup") /\ UNCHANGED procs
  /\ UNCHANGED <<dirs, objs>> /\ CtrRest

\* cleanup: delete the task, whatever comes of it, and the container; then the
\* directory.
Cleaned(r) == objs' = objs \ {Id(r)} /\ dirs' = dirs \ {IoDir(r)}

\* Slip: the exit status is read after the task was deleted with it.
CtrWaitLate(r) ==
  /\ CtrAt(r, "wait") /\ Ended(Id(r)) /\ Cleaned(r) /\ Finish(r, "ok")
  /\ UNCHANGED <<procs, faults>> /\ CtrRest

CtrWait(r) ==
  /\ CtrAt(r, "wait") /\ Ended(Id(r)) /\ Cleaned(r) /\ Finish(r, Verdict(Id(r)))
  /\ UNCHANGED <<procs, faults>> /\ CtrRest

\* The call that waits fails, or the container cannot be deleted (a warning).
CtrWaitFails(r) == CtrAt(r, "wait") /\ Cleaned(r) /\ Failing(r, "none") /\ UNCHANGED procs /\ CtrRest
CtrCleanupFails(r) ==
  /\ CtrAt(r, "wait") /\ Ended(Id(r)) /\ faults < MaxFaults /\ faults' = faults + 1
  /\ dirs' = dirs \ {IoDir(r)}
  /\ run' = [run EXCEPT ![r].pc = "unmount", ![r].result = Verdict(Id(r)), ![r].hit = "cleanup"]
  /\ UNCHANGED <<procs, objs>> /\ CtrRest

\* On a timeout nothing stops the process.
CtrTimeout(r) ==
  /\ CtrAt(r, "wait") /\ Has("timeout") /\ Cleaned(r)
  /\ run' = [run EXCEPT ![r].pc = "unmount", ![r].result = "failed", ![r].timedout = TRUE]
  /\ UNCHANGED <<procs, faults>> /\ CtrRest

SvcRest == UNCHANGED <<kind, conf, procs, dirs>>

\* provision: run_service creates the container, which must not exist, then its
\* task, which must not exist either; the ids are remembered, in this process,
\* when all services run.
CtrProvision(r) ==
  /\ CtrAt(r, "begin") /\ Serviced(r) /\ <<r, 0>> \notin objs /\ r \notin cluster.svcs
  /\ objs' = objs \cup {<<r, 0>>} /\ cluster' = [cluster EXCEPT !.svcs = @ \cup {r}]
  /\ Goto(r, "idle")
  /\ UNCHANGED faults /\ SvcRest
CtrTaken(r) ==
  /\ CtrAt(r, "begin") /\ Serviced(r) /\ (<<r, 0>> \in objs \/ r \in cluster.svcs)
  /\ objs' = objs \cup {<<r, 0>>}
  /\ Unprovisioned(r)
  /\ UNCHANGED <<cluster, faults>> /\ SvcRest
CtrProvisionFails(r) ==
  /\ CtrAt(r, "begin") /\ Serviced(r) /\ faults < MaxFaults /\ faults' = faults + 1
  /\ \/ UNCHANGED <<objs, cluster>>
     \/ objs' = objs \cup {<<r, 0>>} /\ \E made \in SUBSET {r} : cluster' = [cluster EXCEPT !.svcs = @ \cup made]
  /\ Unprovisioned(r)
  /\ SvcRest

\* Slip: the ids were forgotten when the pass began.
CtrTeardownForgotten(r) == CtrAt(r, "teardown") /\ Goto(r, "done") /\ UNCHANGED <<procs, dirs, objs, faults>> /\ CtrRest

\* teardown: cleanup_service for the ids this process remembers.  No signal is
\* sent: only a service that has exited by itself loses its task.
CtrTeardown(r) ==
  /\ CtrAt(r, "teardown")
  /\ objs' = objs \ {<<r, 0>>}
  /\ \E exited \in SUBSET {r} : cluster' = [cluster EXCEPT !.svcs = @ \ exited]
  /\ Goto(r, "done")
  /\ UNCHANGED faults /\ SvcRest

CtrStep(r) ==
  \/ CtrMount(r) \/ CtrConnect(r) \/ CtrVersion(r) \/ CtrImage(r) \/ CtrCreate(r) \/ CtrChain(r) \/ CtrSnapshot(r)
  \/ CtrApply(r) \/ CtrIoDir(r) \/ CtrStart(r) \/ CtrWait(r) \/ CtrTimeout(r)
  \/ CtrProvision(r) \/ CtrTaken(r) \/ CtrTeardown(r)
CtrNext == \E r \in Runners : CtrStep(r) \/ CtrWaitFails(r) \/ CtrCleanupFails(r) \/ CtrProvisionFails(r)
=============================================================================
