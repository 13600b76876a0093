------------------------------- MODULE Steps --------------------------------
(***************************************************************************)
(* Every kind of step body under the executor: what is left behind, what a *)
(* verdict means, and that runs end.                                       *)
(***************************************************************************)
EXTENDS KubernetesSteps, ContainerdSteps, ProcessSteps

Next == ExecutorNext \/ ProcessNext \/ K8sNext \/ CtrNext \/ LocalNext
Spec == Init /\ [][Next]_vars

\* A process without a timeout is one that ends by itself, if it gets to run.
\* The executor and its bodies go on when they can, timers fire, and the cluster
\* does its part.  Nothing makes an op of a script answer.
PatientEnds(p) == ~Has("timeout") /\ ProcessEnds(p)
RunnerStep(r) == NoMount(r) \/ Unmount(r) \/ K8sStep(r) \/ CtrStep(r) \/ LocalStep(r)
Fairness ==
  /\ \A r \in Runners : WF_vars(RunnerStep(r))
  /\ SF_vars(\E p \in Ids : PatientEnds(p))
  /\ WF_vars(ClusterStep)
FairSpec == Spec /\ Fairness

Pcs == {"begin", "service_ns", "service", "idle", "ready", "unmount", "teardown", "done"}
       \cup {"namespace", "create_ns", "volume", "job", "copy_in", "find", "start", "watch", "unlogged", "delete"}
       \cup {"version", "image", "container", "chain", "snapshot", "apply", "io", "task"}
       \cup {"tool", "solve", "wait"}
Written == {"none", "half", "whole"}
Run == [pc : Pcs, try : 1 .. MaxTries, mounted : BOOLEAN, hit : {"none", "mount", "setup", "cleanup", "service", "clone"},
        pod : Ids \cup {NoId}, out : Written, vol : Nat, timedout : BOOLEAN, result : {"none", "ok", "failed"}]
TypeOK ==
  /\ kind \in Kinds /\ conf \subseteq Features(kind)
  /\ run \in [Runners -> Run]
  /\ \A r \in Runners : run[r].pc \in {"start", "watch", "unlogged"} => run[r].pod \in Ids
  /\ procs \in [Ids -> [up : {"no", "pending", "running", "awaiting", "orphaned", "ended", "gone"},
                        code : {"none", "zero", "nonzero"}, out : Written]]
  /\ dirs \subseteq Runners \X (1 .. MaxTries) \X {"in", "base", "io", "out"} /\ objs \subseteq Runners \X (0 .. MaxTries)
  /\ cluster \in [ns : [Namespaces -> {"absent", "active", "terminating"}], vol : Nat, vols : Nat,
                  jobs : SUBSET Ids, svcs : SUBSET Runners, doomed : SUBSET Ids]
  /\ faults \in 0 .. MaxFaults

\* A step that succeeded ran its command to the end and the command exited
\* with 0.  A Kubernetes step is judged by the pod that it found: whose that is,
\* OwnPod asks.
SuccessIsReal ==
  \A r \in Runners : run[r].result = "ok" /\ run[r].pod \in {NoId, Id(r)}
                       => procs[Id(r)].code = "zero" \/ (kind = "git" /\ Has("inputs"))

\* When a run is over, on whatever path, its job, its container and its
\* directories are gone, unless their removal failed or the body gave up while
\* it was setting things up.  Two kinds of directory nobody removes: the one a
\* relative mount point lies in, and the local copy of a Kubernetes output.
Kept(use) == (use = "base" /\ Has("relative")) \/ (use = "out" /\ Has("outputs"))
Tidy ==
  \A r \in Runners : run[r].pc \in {"teardown", "done"} /\ run[r].hit = "none" =>
    /\ Id(r) \notin cluster.jobs
    /\ kind = D => Id(r) \notin objs
    /\ \A use \in {"in", "base", "io", "out"} : <<r, run[r].try, use>> \in dirs => Kept(use)

\* A run that timed out is over only when what it waited for is stopped: sh, for
\* a streamed shell command (what sh started is orphaned and goes on), the
\* script of Deno, the pod of Kubernetes, which has its grace period.
Stops(k) == k \in {"kubernetes", "deno"} \/ (k = "shell" /\ Has("sink"))
TimeoutStops ==
  \A r \in Runners : Stops(kind) /\ run[r].pc \in {"teardown", "done"} /\ run[r].timedout /\ run[r].hit = "none" =>
    \/ procs[Id(r)].up \in {"no", "ended", "gone"} \/ Id(r) \in cluster.doomed
    \/ kind = "shell" /\ procs[Id(r)].up = "orphaned"

\* When a pass that had its services is over, Kubernetes is deleting their
\* namespace, and the record of a containerd service is deleted, so that the
\* next pass can create it.
ServicesTornDown ==
  \A r \in Runners : run[r].pc = "done" /\ run[r].hit # "service" =>
    /\ kind = K /\ r \in cluster.svcs => cluster.ns[NsOf(r)] = "terminating"
    /\ <<r, 0>> \notin objs

\* A task of a containerd service ends with the pass that started it.
ServicesStop == \A r \in Runners : kind = D /\ run[r].pc = "done" /\ faults = 0 => r \notin cluster.svcs

\* A run with a relative mount point leaves no directory.
NothingLeft == \A r \in Runners : run[r].pc = "done" /\ faults = 0 => <<r, run[r].try, "base">> \notin dirs

\* Every run ends: no poll, join or wait of a body lasts for ever, except that
\* of Deno for a script whose op never answers, whatever its timeout.
Awaits(r) == procs[Id(r)].up = "awaiting"
RunsEnd == \A r \in Runners : run[r].pc # "done" ~> (run[r].pc = "done" \/ []Awaits(r))

\* The steps of a family see one volume as long as it runs.
VolumePersists == [][\A r \in Runners : run[r].vol # 0 => run'[r].vol = run[r].vol]_vars

\* The pod a step reads belongs to the job it created.
OwnPod == \A r \in Runners : run[r].pod # NoId => run[r].pod = Id(r)

\* What a step hands on as its output is all of it.
OutputsWhole == \A r \in Runners : run[r].result = "ok" => run[r].out # "half"
=============================================================================
