---------------------------- MODULE ProcessSteps ----------------------------
(***************************************************************************)
(* Steps that run a program on the host (shell, cargo, rustup), a script   *)
(* in an embedded engine (deno), a build of a daemon (buildkit) or a clone *)
(* (git).  procs holds the program, the script, the build.                 *)
(***************************************************************************)
EXTENDS StepRuns

LocalRest == UNCHANGED <<kind, conf, cluster>>
Waiting(r, k) == At(r, k, "wait") /\ UNCHANGED <<dirs, objs, faults>> /\ LocalRest

\* A step of kind k starts its process, or the spawn (connection, runtime)
\* fails.
Starts(r, k, pc) ==
  /\ At(r, k, pc)
  /\ \/ Spawn(Id(r)) /\ Goto(r, "wait") /\ UNCHANGED faults
     \/ Failing(r, "none") /\ UNCHANGED procs
  /\ UNCHANGED <<dirs, objs>> /\ LocalRest

Returns(r, k) == Waiting(r, k) /\ Ended(Id(r)) /\ Finish(r, Verdict(Id(r))) /\ UNCHANGED procs

TimedOut(r) == Has("timeout") /\ run' = [run EXCEPT ![r].pc = "unmount", ![r].result = "failed", ![r].timedout = TRUE]
Killed(p, into) == procs' = [procs EXCEPT ![p].up = IF @ = "running" THEN into ELSE @]

(***************************************************************************)
(* shell: with a log sink the output is read line by line and a timeout    *)
(* kills the child, which is sh; what sh has started goes on without it    *)
(* (orphaned).  Without a sink the future is dropped and all of it runs on.*)
(***************************************************************************)
ShellMount(r) == Mounts(r, "shell", MountDirs(r)) \/ MountsNot(r, "shell", MountDirs(r))
ShellCommand(r) == Starts(r, "shell", "ready")
ShellReturns(r) == Returns(r, "shell")
\* Slip: the child is dropped, which does not kill it.
ShellTimeoutDrops(r) == Waiting(r, "shell") /\ Has("sink") /\ TimedOut(r) /\ UNCHANGED procs
ShellTimeout(r) ==
  Waiting(r, "shell") /\ Has("sink") /\ TimedOut(r) /\ \E left \in {"gone", "orphaned"} : Killed(Id(r), left)
ShellBufferedTimeout(r) == Waiting(r, "shell") /\ ~Has("sink") /\ TimedOut(r) /\ UNCHANGED procs

(***************************************************************************)
(* cargo and rustup                                                        *)
(***************************************************************************)
\* ensure_tool_available: probe, else install (outside the timeout).
CargoTool(r) == Calls(r, "cargo", "ready", "tool", "none")
CargoCommand(r) == Starts(r, "cargo", "tool")
\* doc-mdx turns the JSON it finds into pages afterwards, which can fail.
CargoReturns(r) == Returns(r, "cargo")
CargoPagesFail(r) ==
  /\ At(r, "cargo", "wait") /\ procs[Id(r)].code = "zero" /\ Failing(r, "none")
  /\ UNCHANGED <<procs, dirs, objs>> /\ LocalRest
CargoTimeout(r) == Waiting(r, "cargo") /\ TimedOut(r) /\ UNCHANGED procs
RustupCommand(r) == Starts(r, "rustup", "ready")
RustupReturns(r) == Returns(r, "rustup")
RustupTimeout(r) == Waiting(r, "rustup") /\ TimedOut(r) /\ UNCHANGED procs

(***************************************************************************)
(* deno: the engine runs on a thread of its own, and the step waits for    *)
(* it.  A second thread terminates the execution of JavaScript after the   *)
(* timeout: a script that runs is ended, one that awaits an op (a request, *)
(* which has no timeout, or an import) is ended when the op answers.       *)
(***************************************************************************)
DenoStart(r) == Starts(r, "deno", "ready")
DenoReturns(r) == Returns(r, "deno")
DenoTimeout(r) ==
  /\ Waiting(r, "deno") /\ Has("timeout") /\ ~run[r].timedout /\ ~Ended(Id(r))
  /\ run' = [run EXCEPT ![r].timedout = TRUE]
  /\ Killed(Id(r), "gone")

ScriptAwaits(p) ==
  /\ kind = "deno" /\ procs[p].up = "running"
  /\ procs' = [procs EXCEPT ![p].up = "awaiting"]
  /\ UNCHANGED <<run, dirs, objs, faults>> /\ LocalRest
OpAnswers(p) ==
  /\ kind = "deno" /\ procs[p].up = "awaiting"
  /\ procs' = [procs EXCEPT ![p].up = IF run[p[1]].timedout THEN "gone" ELSE "running"]
  /\ UNCHANGED <<run, dirs, objs, faults>> /\ LocalRest

(***************************************************************************)
(* buildkit: one solve call, whose answer is the verdict                   *)
(***************************************************************************)
\* An artifact can take the place of the build context until it is unmounted.
BuildkitMount(r) == Mounts(r, "buildkit", MountDirs(r)) \/ MountsNot(r, "buildkit", MountDirs(r))
BuildkitConnect(r) == Calls(r, "buildkit", "ready", "solve", "none")
BuildkitSolve(r) == Starts(r, "buildkit", "solve")
BuildkitReturns(r) == Returns(r, "buildkit")
BuildkitTimeout(r) == Waiting(r, "buildkit") /\ TimedOut(r) /\ UNCHANGED procs

(***************************************************************************)
(* git: clone into the configured path, pack it, store it                  *)
(***************************************************************************)
\* With an artifact as input nothing is cloned.  prepare_clone refuses a path
\* that is not empty.
GitOverride(r) ==
  /\ At(r, "git", "ready") /\ run[r].mounted
  /\ \/ Finish(r, "ok") /\ UNCHANGED faults
     \/ Failing(r, "none")
  /\ UNCHANGED <<procs, dirs, objs>> /\ LocalRest
GitClone(r) ==
  /\ At(r, "git", "ready") /\ ~run[r].mounted
  /\ IF \E t \in 1 .. MaxTries : <<r, t>> \in objs
     THEN Finish(r, "failed") /\ UNCHANGED <<procs, objs, faults>>
     ELSE \/ Failing(r, "none") /\ UNCHANGED <<procs, objs>>
          \/ /\ objs' = objs \cup {Id(r)} /\ Goto(r, "wait")
             /\ procs' = [procs EXCEPT ![Id(r)].up = "ended", ![Id(r)].code = "zero"]
             /\ UNCHANGED faults
  /\ UNCHANGED dirs /\ LocalRest
GitStore(r) ==
  /\ At(r, "git", "wait")
  /\ \/ Finish(r, "ok") /\ UNCHANGED faults
     \/ Failing(r, "clone")
  /\ UNCHANGED <<procs, dirs, objs>> /\ LocalRest

LocalStep(r) ==
  \/ ShellMount(r) \/ ShellCommand(r) \/ ShellReturns(r) \/ ShellTimeout(r) \/ ShellBufferedTimeout(r)
  \/ CargoTool(r) \/ CargoCommand(r) \/ CargoReturns(r) \/ CargoTimeout(r)
  \/ RustupCommand(r) \/ RustupReturns(r) \/ RustupTimeout(r)
  \/ DenoStart(r) \/ DenoReturns(r) \/ DenoTimeout(r)
  \/ BuildkitMount(r) \/ BuildkitConnect(r) \/ BuildkitSolve(r) \/ BuildkitReturns(r) \/ BuildkitTimeout(r)
  \/ GitOverride(r) \/ GitClone(r) \/ GitStore(r)
ScriptNext == \E p \in Ids : ScriptAwaits(p) \/ OpAnswers(p)
LocalNext == (\E r \in Runners : LocalStep(r) \/ CargoPagesFail(r)) \/ ScriptNext
=============================================================================
