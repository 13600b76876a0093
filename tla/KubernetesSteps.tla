-------------------------- MODULE KubernetesSteps ---------------------------
(***************************************************************************)
(* Steps that run as Kubernetes jobs, and services that run as pods.  The  *)
(* jobs of a family share the namespace of its root, services live in the  *)
(* namespace of their own workflow.  Names of jobs come from the names of  *)
(* the steps alone: Has("same") says that the steps of a family share one.   *)
(* A job is known by the id of the try that created it.                    *)
(***************************************************************************)
EXTENDS StepRuns

K == "kubernetes"
StepNs == Root
Active(n) == cluster.ns[n] = "active"

\* sanitize_name of the step's name.
JobName(p) == IF Has("same") THEN Root ELSE p[1]
JobNamed(r) == {j \in cluster.jobs : JobName(j) = JobName(Id(r))}

\* Pods outlive their job: deletion is propagated in the background.
Pod(p) == procs[p].up \notin {"no", "gone"}

K8sAt(r, pc) == At(r, K, pc)
K8sRest == UNCHANGED <<kind, conf, objs>>

\* The directory is remembered when everything is unpacked.
K8sMount(r) == Mounts(r, K, InDir(r)) \/ MountsNot(r, K, InDir(r))

(***************************************************************************)
(* Namespaces and the shared volume                                        *)
(***************************************************************************)
\* ensure_namespace: get; one that is being deleted exists too.
NamespaceGet(r, pc, n, next, create) ==
  /\ K8sAt(r, pc)
  /\ Goto(r, IF cluster.ns[n] = "absent" THEN create ELSE next)
  /\ UNCHANGED <<procs, dirs, cluster, faults>> /\ K8sRest

\* ... then create, which fails when somebody else was faster.
NamespaceCreate(r, pc, n, next) ==
  /\ K8sAt(r, pc) /\ cluster.ns[n] = "absent"
  /\ cluster' = [cluster EXCEPT !.ns[n] = "active"]
  /\ Goto(r, next)
  /\ UNCHANGED <<procs, dirs, faults>> /\ K8sRest

NamespaceTaken(r, pc, n, lost) ==
  /\ K8sAt(r, pc) /\ cluster.ns[n] # "absent"
  /\ run' = [run EXCEPT ![r].pc = lost, ![r].result = "failed"]
  /\ UNCHANGED <<procs, dirs, cluster, faults>> /\ K8sRest

\* The client connects on first use.
K8sClient(r) == Calls(r, K, "ready", "namespace", "none")

K8sNamespace(r) ==
  \/ NamespaceGet(r, "namespace", StepNs, "volume", "create_ns")
  \/ NamespaceCreate(r, "create_ns", StepNs, "volume")
  \/ NamespaceTaken(r, "create_ns", StepNs, "unmount")

\* ensure_shared_volume_pvc, when the definition declares a volume, as here: one claim per namespace, get and create(409) are
\* both fine.  The claim's data lives as long as the claim.
K8sVolume(r) ==
  /\ K8sAt(r, "volume")
  /\ IF cluster.vol = 0 /\ ~Active(StepNs)
     THEN Finish(r, "failed") /\ UNCHANGED cluster
     ELSE LET v == IF cluster.vol = 0 THEN cluster.vols + 1 ELSE cluster.vol IN
          /\ cluster' = [cluster EXCEPT !.vol = v, !.vols = IF v > @ THEN v ELSE @]
          /\ run' = [run EXCEPT ![r].pc = "job", ![r].vol = v]
  /\ UNCHANGED <<procs, dirs, faults>> /\ K8sRest

\* The claim is not bound within 120 s.
K8sUnbound(r) == K8sAt(r, "volume") /\ Failing(r, "setup") /\ UNCHANGED <<procs, dirs, cluster>> /\ K8sRest

(***************************************************************************)
(* The job                                                                 *)
(***************************************************************************)
\* A conflict fails the step at once: the job belongs to somebody else and is
\* left alone.
K8sCreateJob(r) ==
  /\ K8sAt(r, "job")
  /\ IF Active(StepNs) /\ JobNamed(r) = {}
     THEN /\ cluster' = [cluster EXCEPT !.jobs = @ \cup {Id(r)}]
          /\ Goto(r, IF run[r].mounted THEN "copy_in" ELSE "find")
     ELSE Finish(r, "failed") /\ UNCHANGED cluster
  /\ UNCHANGED <<procs, dirs, faults>> /\ K8sRest

\* The manifest: one container, no restart, no second try (backoff_limit 0).
PodCreated(p) ==
  /\ kind = K /\ p \in cluster.jobs /\ Active(StepNs) /\ procs[p].up = "no"
  /\ procs' = [procs EXCEPT ![p].up = "pending"]
  /\ UNCHANGED <<run, dirs, cluster, faults>> /\ K8sRest

PodStarts(p) ==
  /\ kind = K /\ procs[p].up = "pending" /\ p \notin cluster.doomed
  /\ Spawn(p)
  /\ UNCHANGED <<run, dirs, cluster, faults>> /\ K8sRest

\* The grace period is over, or the namespace is emptied.
PodGone(p) ==
  /\ kind = K /\ p \in cluster.doomed /\ Pod(p)
  /\ procs' = [procs EXCEPT ![p].up = "gone"]
  /\ UNCHANGED <<run, dirs, cluster, faults>> /\ K8sRest

\* wait_for_job_pod: the first pod that carries the job's name as a label.
Labelled(r) == {p \in Ids : Pod(p) /\ JobName(p) = JobName(Id(r))}

\* Inputs are copied once the container runs; when no pod shows up within 60 s
\* or the pods cannot be listed, that error is dropped and the step goes on
\* without the copy.
K8sCopyIn(r) ==
  /\ K8sAt(r, "copy_in")
  /\ \/ \E p \in Labelled(r) : procs[p].up \in {"running", "ended"}
     \/ Labelled(r) = {} /\ Id(r) \notin cluster.jobs
  /\ Goto(r, "find")
  /\ UNCHANGED <<procs, dirs, cluster, faults>> /\ K8sRest

K8sCopyInFails(r) ==
  /\ K8sAt(r, "copy_in") /\ faults < MaxFaults /\ faults' = faults + 1
  /\ \/ Labelled(r) # {} /\ run' = [run EXCEPT ![r].pc = "delete", ![r].result = "failed"]
     \/ Goto(r, "find")
  /\ UNCHANGED <<procs, dirs, cluster>> /\ K8sRest

K8sFindPod(r) ==
  /\ K8sAt(r, "find")
  /\ \E p \in Labelled(r) : run' = [run EXCEPT ![r].pc = "start", ![r].pod = p]
  /\ UNCHANGED <<procs, dirs, cluster, faults>> /\ K8sRest

\* Slip: only a container that runs counts as started.
K8sPodRunningOnly(r) ==
  /\ K8sAt(r, "start") /\ procs[run[r].pod].up = "running"
  /\ Goto(r, "watch")
  /\ UNCHANGED <<procs, dirs, cluster, faults>> /\ K8sRest

\* wait_for_pod_running: a pod that is gone is polled until the tries are up.
K8sPodRunning(r) ==
  /\ K8sAt(r, "start") /\ procs[run[r].pod].up \in {"running", "ended"}
  /\ Goto(r, "watch")
  /\ UNCHANGED <<procs, dirs, cluster, faults>> /\ K8sRest

\* A poll runs out of tries (no pod in 60 s, not running in 120 s), or a call
\* to the API server fails.
K8sGivesUp(r) ==
  /\ \E pc \in {"find", "start"} : K8sAt(r, pc)
  /\ faults < MaxFaults /\ faults' = faults + 1
  /\ run' = [run EXCEPT ![r].pc = "delete", ![r].result = "failed"]
  /\ UNCHANGED <<procs, dirs, cluster>> /\ K8sRest

K8sPodLost(r) ==
  /\ \/ K8sAt(r, "find") /\ Labelled(r) = {} /\ Id(r) \notin cluster.jobs
     \/ K8sAt(r, "start") /\ procs[run[r].pod].up = "gone"
  /\ run' = [run EXCEPT ![r].pc = "delete", ![r].result = "failed"]
  /\ UNCHANGED <<procs, dirs, cluster, faults>> /\ K8sRest

(***************************************************************************)
(* wait_for_job_completion_with_outputs, joined with stream_logs           *)
(***************************************************************************)
Watches(r) == \E pc \in {"watch", "unlogged"} : K8sAt(r, pc)

\* The output is taken as soon as its directory is there, once; the directory
\* it is copied to on the host stays.
K8sCopyOut(r) ==
  /\ Watches(r) /\ run[r].result = "none" /\ Has("outputs") /\ run[r].out = "none"
  /\ procs[run[r].pod].up = "running" /\ procs[run[r].pod].out # "none"
  /\ run' = [run EXCEPT ![r].out = procs[run[r].pod].out]
  /\ dirs' = dirs \cup {<<r, run[r].try, "out">>}
  /\ UNCHANGED <<procs, cluster, faults>> /\ K8sRest

\* stream_logs ends with the container of the pod that was found; the loop ends
\* with the job that has the name, or with the error that it is gone.
Streamed(r) == Ended(run[r].pod) \/ run[r].pc = "unlogged"
JobEnded(r) == \A j \in JobNamed(r) : Ended(j)

\* A stream that breaks off is taken for all the output there is, and the job
\* alone is waited for.
K8sStreamBreaks(r) ==
  /\ K8sAt(r, "watch") /\ faults < MaxFaults /\ faults' = faults + 1
  /\ Goto(r, "unlogged")
  /\ UNCHANGED <<procs, dirs, cluster>> /\ K8sRest

\* The loop gives up (its tries are up, a call fails); tokio::join! waits for
\* the stream all the same.
K8sWatchFails(r) ==
  /\ Watches(r) /\ run[r].result = "none" /\ faults < MaxFaults /\ faults' = faults + 1
  /\ run' = [run EXCEPT ![r].result = "failed"]
  /\ UNCHANGED <<procs, dirs, cluster>> /\ K8sRest

\* The exit code is the pod's, -1 when it is gone.
K8sComplete(r) ==
  /\ Watches(r) /\ Streamed(r) /\ (JobEnded(r) \/ run[r].result = "failed")
  /\ run' = [run EXCEPT ![r].pc = "delete",
                        ![r].result = IF @ = "failed" \/ JobNamed(r) = {} \/ ~Pod(run[r].pod)
                                      THEN "failed" ELSE Verdict(run[r].pod)]
  /\ UNCHANGED <<procs, dirs, cluster, faults>> /\ K8sRest

\* Slip: the future is dropped and the job left to its ttl.
K8sTimeoutDrops(r) ==
  /\ \E pc \in {"find", "start", "watch", "unlogged"} : K8sAt(r, pc)
  /\ Has("timeout")
  /\ run' = [run EXCEPT ![r].pc = "unmount", ![r].result = "failed", ![r].timedout = TRUE]
  /\ UNCHANGED <<procs, dirs, cluster, faults>> /\ K8sRest

K8sTimeout(r) ==
  /\ \E pc \in {"find", "start", "watch", "unlogged"} : K8sAt(r, pc)
  /\ Has("timeout")
  /\ run' = [run EXCEPT ![r].pc = "delete", ![r].result = "failed", ![r].timedout = TRUE]
  /\ UNCHANGED <<procs, dirs, cluster, faults>> /\ K8sRest

\* delete_job, by name, and its pod in the background; 404 is fine and an error
\* is ignored.
K8sDelete(r) ==
  /\ K8sAt(r, "delete")
  /\ cluster' = [cluster EXCEPT !.jobs = @ \ JobNamed(r), !.doomed = @ \cup JobNamed(r)]
  /\ Goto(r, "unmount")
  /\ UNCHANGED <<procs, dirs, faults>> /\ K8sRest

K8sDeleteFails(r) ==
  /\ K8sAt(r, "delete") /\ faults < MaxFaults /\ faults' = faults + 1
  /\ run' = [run EXCEPT ![r].pc = "unmount", ![r].hit = "cleanup"]
  /\ UNCHANGED <<procs, dirs, cluster>> /\ K8sRest

(***************************************************************************)
(* Services                                                                *)
(***************************************************************************)
K8sProvisionNs(r) ==
  \/ Serviced(r) /\ NamespaceGet(r, "begin", NsOf(r), "service", "service_ns")
  \/ NamespaceCreate(r, "service_ns", NsOf(r), "service")
  \/ NamespaceTaken(r, "service_ns", NsOf(r), "done")

\* A pod and a name for it.
ServiceCreated(r) == cluster' = [cluster EXCEPT !.svcs = @ \cup {r}]

\* One per declared service; creating one that is there fails,
\* and then the pass is skipped without tearing anything down.
K8sProvision(r) ==
  /\ K8sAt(r, "service")
  /\ IF Active(NsOf(r)) /\ r \notin cluster.svcs
     THEN ServiceCreated(r) /\ Goto(r, "idle")
     ELSE Unprovisioned(r) /\ UNCHANGED cluster
  /\ UNCHANGED <<procs, dirs, faults>> /\ K8sRest

\* The pod is not ready in time.
K8sNotReady(r) ==
  /\ K8sAt(r, "service") /\ Active(NsOf(r)) /\ r \notin cluster.svcs
  /\ faults < MaxFaults /\ faults' = faults + 1
  /\ ServiceCreated(r)
  /\ Unprovisioned(r)
  /\ UNCHANGED <<procs, dirs>> /\ K8sRest

\* teardown deletes the whole namespace, after every pass.
K8sTeardown(r) ==
  /\ K8sAt(r, "teardown")
  /\ cluster' = [cluster EXCEPT !.ns[NsOf(r)] = IF @ = "absent" THEN @ ELSE "terminating"]
  /\ Goto(r, "done")
  /\ UNCHANGED <<procs, dirs, faults>> /\ K8sRest

\* ... and the cluster empties it.
NamespaceGone(n) ==
  /\ kind = K /\ cluster.ns[n] = "terminating"
  /\ cluster' = [cluster EXCEPT !.ns[n] = "absent", !.svcs = @ \ {n},
                                !.vol = IF n = StepNs THEN 0 ELSE @,
                                !.jobs = IF n = StepNs THEN {} ELSE @,
                                !.doomed = IF n = StepNs THEN @ \cup cluster.jobs ELSE @]
  /\ UNCHANGED <<run, procs, dirs, faults>> /\ K8sRest

\* cleanup_stale_namespaces, by an operator, of what is older than any workflow.
CleanupStale(n) ==
  /\ kind = K /\ Active(n)
  /\ \A r \in Runners : run[r].pc = "done" /\ (run[r].result = "none" \/ run[r].try = Tries)
  /\ cluster' = [cluster EXCEPT !.ns[n] = "terminating"]
  /\ UNCHANGED <<run, procs, dirs, faults>> /\ K8sRest

K8sStep(r) ==
  \/ K8sMount(r) \/ K8sClient(r) \/ K8sNamespace(r) \/ K8sVolume(r) \/ K8sCreateJob(r) \/ K8sCopyIn(r) \/ K8sFindPod(r) \/ K8sPodRunning(r)
  \/ K8sPodLost(r) \/ K8sComplete(r) \/ K8sTimeout(r) \/ K8sDelete(r)
  \/ K8sProvisionNs(r) \/ K8sProvision(r) \/ K8sTeardown(r)
K8sFault(r) == K8sUnbound(r) \/ K8sCopyInFails(r) \/ K8sGivesUp(r) \/ K8sStreamBreaks(r) \/ K8sWatchFails(r) \/ K8sDeleteFails(r) \/ K8sNotReady(r)
ClusterStep == (\E p \in Ids : PodCreated(p) \/ PodStarts(p) \/ PodGone(p)) \/ (\E n \in Namespaces : NamespaceGone(n))
K8sNext ==
  \/ \E r \in Runners : K8sStep(r) \/ K8sFault(r) \/ K8sCopyOut(r)
  \/ ClusterStep \/ \E n \in Namespaces : CleanupStale(n)
=============================================================================
