------------------------------ MODULE StepRuns ------------------------------
(***************************************************************************)
(* How the executor runs a step body, whatever its kind: a pass provisions *)
(* the services of the workflow, mounts the artifacts, runs the body,      *)
(* unmounts and tears the services down; a step that failed is run again   *)
(* by a later pass.  KubernetesSteps, ContainerdSteps and ProcessSteps add *)
(* the bodies.                                                             *)
(*                                                                         *)
(* A runner is the task that passes over one workflow.  All runners belong *)
(* to one family: Root runs the top-level workflow, the others run its     *)
(* sub-workflows.  An id <<r, t>> is the t-th try of the step of r: its    *)
(* process, its job and its directories carry it.                          *)
(***************************************************************************)
EXTENDS Naturals, FiniteSets

CONSTANTS
  Kinds,     \* the kinds of step bodies to look at
  Runners, Root,
  MaxTries,  \* bound on the tries of a step that runs alone
  MaxFeatures, \* bound on what a definition asks for
  MaxFaults  \* bound on failing calls

ASSUME KindsAssumption ==
  Kinds \subseteq {"kubernetes", "containerd", "shell", "cargo", "rustup", "deno", "buildkit", "git"}
ASSUME RunnersAssumption == Root \in Runners /\ {MaxFeatures, MaxFaults} \subseteq Nat /\ MaxTries \in Nat \ {0}

VARIABLES
  kind,
  conf,     \* the features the definition uses
  run,      \* the runners
  procs,    \* processes: up, exit code and what they have written of the output
  dirs,     \* temporary directories <<r, t, use>>
  objs,     \* containers and clones <<r, t>>
  cluster,  \* Kubernetes: namespaces, volume, jobs, doomed pods; services: their pods or tasks
  faults

vars == <<kind, conf, run, procs, dirs, objs, cluster, faults>>

Ids == Runners \X (1 .. MaxTries)
NoId == <<Root, 0>>
Namespaces == Runners
NsOf(r) == r
Id(r) == <<r, run[r].try>>

\* What a definition can ask of a kind: artifacts in and out, a relative mount
\* point for them, a timeout, services, a log sink, sub-workflows that run at the same time (only Kubernetes
\* steps meet each other's objects), and one step name for all of them.
Features(k) ==
  {"timeout"} \cup (IF k \in {"kubernetes", "containerd"} THEN {"inputs", "services"} ELSE {})
              \cup (IF k = "kubernetes" THEN {"outputs", "family", "same"} ELSE {})
              \cup (IF k = "shell" THEN {"inputs", "relative", "sink"} ELSE {})
              \cup (IF k = "buildkit" THEN {"inputs", "relative"} ELSE {})
              \cup (IF k = "git" THEN {"inputs"} ELSE {})
Has(f) == f \in conf

\* A pass begins with the services, when there are any.
\* In a family the top-level workflow declares them.
Serviced(r) == Has("services") /\ r = Root
Entry(r) == IF Serviced(r) THEN "begin" ELSE "idle"

Init ==
  /\ kind \in Kinds
  /\ conf \in SUBSET Features(kind) /\ Cardinality(conf) <= MaxFeatures
  /\ Has("same") => Has("family")
  /\ Has("relative") => Has("inputs")
  /\ Has("outputs") => conf = {"outputs"}
  /\ run = [r \in Runners |->
              [pc |-> IF r # Root /\ ~Has("family") THEN "done" ELSE Entry(r), try |-> 1, mounted |-> FALSE,
               hit |-> "none", pod |-> NoId, out |-> "none", vol |-> 0,
               timedout |-> FALSE, result |-> "none"]]
  /\ procs = [p \in Ids |-> [up |-> "no", code |-> "none", out |-> "none"]]
  /\ dirs = {} /\ objs = {}
  /\ cluster = [ns |-> [n \in Namespaces |-> "absent"], vol |-> 0, vols |-> 0, jobs |-> {}, svcs |-> {}, doomed |-> {}]
  /\ faults = 0

At(r, k, pc) == kind = k /\ run[r].pc = pc
Goto(r, pc) == run' = [run EXCEPT ![r].pc = pc]
Finish(r, res) == run' = [run EXCEPT ![r].pc = "unmount", ![r].result = res]

\* A call of the body fails; hit names what it leaves undone, if anything.
Failing(r, hit) ==
  /\ faults < MaxFaults /\ faults' = faults + 1
  /\ run' = [run EXCEPT ![r].pc = "unmount", ![r].result = "failed", ![r].hit = IF hit = "none" THEN @ ELSE hit]

\* The services could not be provisioned: the pass is skipped, and what was
\* created for it stays.
Unprovisioned(r) == run' = [run EXCEPT ![r].pc = "done", ![r].result = "failed", ![r].hit = "service"]

\* A call that changes nothing here: it succeeds or fails.
Calls(r, k, pc, next, hit) ==
  /\ At(r, k, pc)
  /\ \/ Goto(r, next) /\ UNCHANGED faults
     \/ Failing(r, hit)
  /\ UNCHANGED <<kind, conf, procs, dirs, objs, cluster>>

Spawn(p) == procs' = [procs EXCEPT ![p].up = "running"]
Ended(p) == procs[p].up \in {"ended", "gone"}

\* The exit code decides, for every kind of body; a process that was killed
\* has none, which counts as -1.
Verdict(p) == IF procs[p].code = "zero" THEN "ok" ELSE "failed"

(***************************************************************************)
(* The executor around the body                                            *)
(***************************************************************************)
\* mount_artifacts: a body of kind k unpacks what the step takes in, into new,
\* or the step takes nothing in.
Mounts(r, k, new) ==
  /\ At(r, k, "idle")
  /\ IF Has("inputs")
     THEN run' = [run EXCEPT ![r].pc = "ready", ![r].mounted = TRUE] /\ dirs' = dirs \cup new
     ELSE Goto(r, "ready") /\ UNCHANGED dirs
  /\ UNCHANGED <<kind, conf, procs, objs, cluster, faults>>

\* An artifact that cannot be resolved or unpacked is logged and the body
\* runs without it; what was unpacked so far is not remembered.
MountsNot(r, k, new) ==
  /\ At(r, k, "idle") /\ Has("inputs")
  /\ faults < MaxFaults /\ faults' = faults + 1
  /\ run' = [run EXCEPT ![r].pc = "ready", ![r].hit = "mount"]
  /\ dirs' \in {dirs, dirs \cup new}
  /\ UNCHANGED <<kind, conf, procs, objs, cluster>>

\* The default of StepBody, for the kinds without artifacts.
NoMount(r) ==
  /\ run[r].pc = "idle" /\ kind \in {"cargo", "rustup", "deno", "git"}
  /\ run' = [run EXCEPT ![r].pc = "ready", ![r].mounted = Has("inputs")]
  /\ UNCHANGED <<kind, conf, procs, dirs, objs, cluster, faults>>

InDir(r) == {<<r, run[r].try, "in">>}

\* A relative mount point lies in a new directory of its own.
MountDirs(r) == InDir(r) \cup (IF Has("relative") THEN {<<r, run[r].try, "base">>} ELSE {})

\* The executor calls unmount_artifacts whatever the body returned; the mount
\* point is removed and not the directory it lies in.
Unmount(r) ==
  /\ run[r].pc = "unmount"
  /\ run' = [run EXCEPT ![r].pc = IF Serviced(r) THEN "teardown" ELSE "done", ![r].mounted = FALSE]
  /\ dirs' = dirs \ (IF run[r].mounted THEN InDir(r) ELSE {})
  /\ UNCHANGED <<kind, conf, procs, objs, cluster, faults>>

Tries == IF Has("family") THEN 1 ELSE MaxTries

\* A later pass runs the failed step again, with a new body, or the next step.
Again(r) ==
  /\ run[r].pc = "done" /\ run[r].result # "none" /\ run[r].try < Tries
  /\ run' = [run EXCEPT ![r] = [pc |-> Entry(r), try |-> run[r].try + 1, mounted |-> FALSE, hit |-> "none",
                                pod |-> NoId, out |-> "none", vol |-> @.vol, timedout |-> FALSE, result |-> "none"]]
  /\ UNCHANGED <<kind, conf, procs, dirs, objs, cluster, faults>>

(***************************************************************************)
(* Processes                                                               *)
(***************************************************************************)
ProcessEnds(p) ==
  /\ procs[p].up = "running"
  /\ \E c \in {"zero", "nonzero"} : procs' = [procs EXCEPT ![p].up = "ended", ![p].code = c]
  /\ UNCHANGED <<kind, conf, run, dirs, objs, cluster, faults>>

\* The command makes its output directory and fills it.
ProcessWrites(p) ==
  /\ procs[p].up = "running" /\ Has("outputs") /\ procs[p].out # "whole"
  /\ procs' = [procs EXCEPT ![p].out = IF @ = "none" THEN "half" ELSE "whole"]
  /\ UNCHANGED <<kind, conf, run, dirs, objs, cluster, faults>>

ExecutorNext == \E r \in Runners : NoMount(r) \/ Unmount(r) \/ Again(r)
ProcessNext == \E p \in Ids : ProcessEnds(p) \/ ProcessWrites(p)
=============================================================================
