---------------------------- MODULE StepsProofs -----------------------------
(***************************************************************************)
(* Proofs about Steps: whatever the kind of a step, however many workflows *)
(* of a family run at once and whichever calls fail, what a success means, *)
(* what a run leaves behind, what a timeout stops and what a teardown      *)
(* removes.                                                                *)
(***************************************************************************)
EXTENDS Steps, TLAPS

-----------------------------------------------------------------------------
(* What the actions of the local kinds have in common.                     *)

LocalKinds == {"shell", "cargo", "rustup", "deno", "buildkit", "git"}

\* A timeout that only drops the future, and one that kills.
DropsLocal(r, k) == Waiting(r, k) /\ TimedOut(r) /\ UNCHANGED procs
KillsLocal(r, k) == Waiting(r, k) /\ TimedOut(r) /\ \E left \in {"gone", "orphaned"} : Killed(Id(r), left)

LocalShape(r) ==
  \/ \E k \in {"shell", "buildkit"} : Mounts(r, k, MountDirs(r)) \/ MountsNot(r, k, MountDirs(r))
  \/ \E next \in {"tool", "solve"}, k \in {"cargo", "buildkit"} : Calls(r, k, "ready", next, "none")
  \/ \E k \in LocalKinds \ {"git"}, pc \in {"ready", "tool", "solve"} : Starts(r, k, pc)
  \/ \E k \in LocalKinds : Returns(r, k)
  \/ \E k \in {"shell", "cargo", "rustup", "buildkit"} : DropsLocal(r, k) /\ ~Stops(kind)
  \/ KillsLocal(r, "shell") \/ DenoTimeout(r)
  \/ CargoPagesFail(r) \/ GitOverride(r) \/ GitClone(r) \/ GitStore(r)

\* Every step of a local kind is one of a few shapes.
LEMMA LocalShapes ==
  ASSUME NEW r \in Runners, LocalStep(r) \/ CargoPagesFail(r)
  PROVE  LocalShape(r)
<1>1. CASE ShellMount(r) \/ BuildkitMount(r)
  BY <1>1 DEF ShellMount, BuildkitMount, LocalShape
<1>2. CASE CargoTool(r) \/ BuildkitConnect(r)
  BY <1>2 DEF CargoTool, BuildkitConnect, LocalShape
<1>3. CASE ShellCommand(r) \/ CargoCommand(r) \/ RustupCommand(r) \/ DenoStart(r) \/ BuildkitSolve(r)
  BY <1>3 DEF ShellCommand, CargoCommand, RustupCommand, DenoStart, BuildkitSolve, LocalShape, LocalKinds
<1>4. CASE ShellReturns(r) \/ CargoReturns(r) \/ RustupReturns(r) \/ DenoReturns(r) \/ BuildkitReturns(r)
  BY <1>4 DEF ShellReturns, CargoReturns, RustupReturns, DenoReturns, BuildkitReturns, LocalShape, LocalKinds
<1>5. CASE ShellBufferedTimeout(r) \/ CargoTimeout(r) \/ RustupTimeout(r) \/ BuildkitTimeout(r)
  <2>1. \E k \in {"shell", "cargo", "rustup", "buildkit"} : DropsLocal(r, k)
    BY <1>5 DEF ShellBufferedTimeout, CargoTimeout, RustupTimeout, BuildkitTimeout, DropsLocal
  <2>2. ~Stops(kind)
    BY <1>5 DEF ShellBufferedTimeout, CargoTimeout, RustupTimeout, BuildkitTimeout, Waiting, At, Stops
  <2>. QED  BY <2>1, <2>2 DEF LocalShape
<1>6. CASE ShellTimeout(r) \/ DenoTimeout(r)
  BY <1>6 DEF ShellTimeout, KillsLocal, LocalShape
<1>7. CASE CargoPagesFail(r) \/ GitOverride(r) \/ GitClone(r) \/ GitStore(r)
  BY <1>7 DEF LocalShape
<1>. QED  BY <1>1, <1>2, <1>3, <1>4, <1>5, <1>6, <1>7 DEF LocalStep

-----------------------------------------------------------------------------
(* Types.                                                                  *)

LEMMA Typed ==
  ASSUME TypeOK, NEW r \in Runners
  PROVE  /\ Id(r) \in Ids /\ run[r].try \in 1 .. MaxTries /\ NoId \notin Ids
         /\ InDir(r) \subseteq MountDirs(r)
         /\ MountDirs(r) \subseteq Runners \X (1 .. MaxTries) \X {"in", "base", "io", "out"}
         /\ MaxFaults \in Nat
<1>1. run[r].try \in 1 .. MaxTries
  BY DEF TypeOK, Run
<1>2. Id(r) \in Ids
  BY <1>1 DEF Id, Ids
<1>3. NoId \notin Ids
  BY DEF NoId, Ids
<1>4. \A use \in {"in", "base"} : <<r, run[r].try, use>> \in Runners \X (1 .. MaxTries) \X {"in", "base", "io", "out"}
  BY <1>1
<1>. QED  BY <1>1, <1>2, <1>3, <1>4, RunnersAssumption DEF InDir, MountDirs

\* A runner goes on with something that is a run.
LEMMA RunUpdated ==
  ASSUME TypeOK, NEW r \in Runners, NEW new,
         new \in Run, new.pc \in {"start", "watch", "unlogged"} => new.pod \in Ids,
         run' = [run EXCEPT ![r] = new]
  PROVE  /\ run' \in [Runners -> Run]
         /\ \A s \in Runners : run'[s].pc \in {"start", "watch", "unlogged"} => run'[s].pod \in Ids
<1>1. run' \in [Runners -> Run]
  BY DEF TypeOK
<1>2. \A s \in Runners : run'[s] = IF s = r THEN new ELSE run[s]
  BY DEF TypeOK
<1>. QED  BY <1>1, <1>2 DEF TypeOK

LEMMA TypeInit ==
  ASSUME Init
  PROVE  TypeOK
<1>1. \A r \in Runners : Entry(r) \in Pcs /\ Entry(r) \notin {"start", "watch", "unlogged"}
  BY DEF Entry, Pcs
<1>2. run \in [Runners -> Run]
  BY <1>1, RunnersAssumption DEF Init, Pcs, Written, Run
<1>3. \A r \in Runners : run[r].pc \notin {"start", "watch", "unlogged"}
  BY <1>1 DEF Init
<1>. QED  BY <1>2, <1>3, RunnersAssumption DEF Init, TypeOK, Written

\* The actions of the executor.
LEMMA ExecutorTypes ==
  ASSUME TypeOK, NEW r \in Runners, NoMount(r) \/ Unmount(r) \/ Again(r)
  PROVE  TypeOK'
<1>0. run[r] \in Run /\ run \in [Runners -> Run]
  BY DEF TypeOK
<1>1. CASE NoMount(r)
  <2>. DEFINE new == [run[r] EXCEPT !.pc = "ready", !.mounted = Has("inputs")]
  <2>1. run' = [run EXCEPT ![r] = new]
    BY <1>0, <1>1 DEF NoMount
  <2>0. Has("inputs") \in BOOLEAN
    BY DEF Has
  <2>3. "ready" \in Pcs
    BY DEF Pcs
  <2>2. new \in Run /\ new.pc = "ready"
    BY <1>0, <2>0, <2>3 DEF Run
  <2>. HIDE DEF new
  <2>. QED  BY <1>1, <2>1, <2>2, RunUpdated DEF NoMount, TypeOK
<1>2. CASE Unmount(r)
  <2>. DEFINE to == IF Serviced(r) THEN "teardown" ELSE "done"
              new == [run[r] EXCEPT !.pc = to, !.mounted = FALSE]
  <2>0. to \in Pcs /\ to \notin {"start", "watch", "unlogged"}
    BY DEF Pcs
  <2>1. run' = [run EXCEPT ![r] = new]
    BY <1>0, <1>2 DEF Unmount
  <2>. HIDE DEF to
  <2>2. new \in Run /\ new.pc = to
    BY <1>0, <2>0 DEF Run
  <2>. HIDE DEF new
  <2>. QED  BY <1>2, <2>0, <2>1, <2>2, RunUpdated DEF Unmount, TypeOK
<1>3. CASE Again(r)
  <2>1. Entry(r) \in Pcs /\ Entry(r) \notin {"start", "watch", "unlogged"}
    BY DEF Entry, Pcs
  <2>2. run[r].try + 1 \in 1 .. MaxTries
    BY <1>3, Typed, RunnersAssumption DEF Again, Tries
  <2>. QED  BY <1>3, <2>1, <2>2 DEF Again, TypeOK, Ids, NoId, Written, Run
<1>. QED  BY <1>1, <1>2, <1>3

\* A runner goes on, finishes or fails.
LEMMA GotoTypes ==
  ASSUME TypeOK, NEW r \in Runners, NEW pc \in Pcs, Goto(r, pc), pc \in {"start", "watch", "unlogged"} => run[r].pod \in Ids
  PROVE  /\ run' \in [Runners -> Run]
         /\ \A s \in Runners : run'[s].pc \in {"start", "watch", "unlogged"} => run'[s].pod \in Ids
<1>1. run[r] \in Run /\ run \in [Runners -> Run]
  BY DEF TypeOK
<1>. DEFINE new == [run[r] EXCEPT !.pc = pc]
<1>2. new \in Run /\ new.pc = pc /\ new.pod = run[r].pod /\ run' = [run EXCEPT ![r] = new]
  BY <1>1 DEF Run, Goto
<1>. HIDE DEF new
<1>. QED  BY <1>2, RunUpdated

LEMMA FailTypes ==
  ASSUME TypeOK, NEW r \in Runners, NEW hit \in {"none", "setup", "clone"}, Failing(r, hit)
  PROVE  /\ run' \in [Runners -> Run] /\ faults' \in 0 .. MaxFaults
         /\ \A s \in Runners : run'[s].pc \in {"start", "watch", "unlogged"} => run'[s].pod \in Ids
<1>1. run[r] \in Run /\ run \in [Runners -> Run] /\ faults \in 0 .. MaxFaults
  BY DEF TypeOK
<1>. DEFINE new == [run[r] EXCEPT !.pc = "unmount", !.result = "failed", !.hit = IF hit = "none" THEN @ ELSE hit]
<1>0. "unmount" \in Pcs
  BY DEF Pcs
<1>2. new \in Run /\ new.pc = "unmount"
  <2>1. CASE hit = "none"
    BY <1>0, <1>1, <2>1 DEF Run
  <2>2. CASE hit # "none"
    BY <1>0, <1>1, <2>2 DEF Run
  <2>. QED  BY <2>1, <2>2
<1>4. run' = [run EXCEPT ![r] = new]
  BY <1>1 DEF Failing
<1>. HIDE DEF new
<1>3. faults' \in 0 .. MaxFaults
  BY <1>1, RunnersAssumption DEF Failing
<1>. QED  BY <1>2, <1>3, <1>4, RunUpdated

LEMMA FinishTypes ==
  ASSUME TypeOK, NEW r \in Runners, NEW res \in {"ok", "failed"}, Finish(r, res)
  PROVE  /\ run' \in [Runners -> Run]
         /\ \A s \in Runners : run'[s].pc \in {"start", "watch", "unlogged"} => run'[s].pod \in Ids
<1>1. run[r] \in Run /\ run \in [Runners -> Run]
  BY DEF TypeOK
<1>. DEFINE new == [run[r] EXCEPT !.pc = "unmount", !.result = res]
<1>0. "unmount" \in Pcs
  BY DEF Pcs
<1>2. new \in Run /\ new.pc = "unmount"
  BY <1>0, <1>1 DEF Run
<1>3. run' = [run EXCEPT ![r] = new]
  BY <1>1 DEF Finish
<1>. HIDE DEF new
<1>. QED  BY <1>2, <1>3, RunUpdated

\* Artifacts are mounted, or not.
LEMMA MountTypes ==
  ASSUME TypeOK, NEW r \in Runners, NEW k, NEW new \in SUBSET MountDirs(r), Mounts(r, k, new) \/ MountsNot(r, k, new)
  PROVE  TypeOK'
<1>0. /\ run[r] \in Run /\ run \in [Runners -> Run] /\ faults \in 0 .. MaxFaults
      /\ Id(r) \in Ids /\ run[r].try \in 1 .. MaxTries /\ MaxTries \in Nat /\ MaxFaults \in Nat
      /\ MountDirs(r) \subseteq Runners \X (1 .. MaxTries) \X {"in", "base", "io", "out"}
  BY Typed, RunnersAssumption DEF TypeOK
<1>1. dirs \subseteq Runners \X (1 .. MaxTries) \X {"in", "base", "io", "out"} /\ new \subseteq MountDirs(r)
  BY DEF TypeOK
<1>2. dirs' \subseteq Runners \X (1 .. MaxTries) \X {"in", "base", "io", "out"}
  BY <1>0, <1>1 DEF Mounts, MountsNot
<1>3. ASSUME NEW next \in Run, next.pc = "ready", run' = [run EXCEPT ![r] = next]
      PROVE  /\ run' \in [Runners -> Run]
             /\ \A s \in Runners : run'[s].pc \in {"start", "watch", "unlogged"} => run'[s].pod \in Ids
  BY <1>3, RunUpdated
<1>r. "ready" \in Pcs
  BY DEF Pcs
<1>4. CASE Mounts(r, k, new)
  <2>1. CASE Has("inputs")
    <3>. DEFINE next == [run[r] EXCEPT !.pc = "ready", !.mounted = TRUE]
    <3>1. next \in Run /\ next.pc = "ready"
      BY <1>0, <1>r DEF Run
    <3>2. run' = [run EXCEPT ![r] = next]
      BY <1>0, <1>4, <2>1 DEF Mounts
    <3>. HIDE DEF next
    <3>. QED  BY <1>2, <1>3, <1>4, <3>1, <3>2 DEF Mounts, TypeOK
  <2>2. CASE ~Has("inputs")
    <3>1. Goto(r, "ready")
      BY <1>4, <2>2 DEF Mounts
    <3>. QED  BY <1>2, <1>4, <1>r, <3>1, GotoTypes DEF Mounts, TypeOK
  <2>. QED  BY <2>1, <2>2
<1>5. CASE MountsNot(r, k, new)
  <2>. DEFINE next == [run[r] EXCEPT !.pc = "ready", !.hit = "mount"]
  <2>1. next \in Run /\ next.pc = "ready"
    BY <1>0, <1>r DEF Run
  <2>2. run' = [run EXCEPT ![r] = next]
    BY <1>0, <1>5 DEF MountsNot
  <2>3. faults' \in 0 .. MaxFaults
    BY <1>0, <1>5 DEF MountsNot
  <2>. HIDE DEF next
  <2>. QED  BY <1>2, <1>3, <1>5, <2>1, <2>2, <2>3 DEF MountsNot, TypeOK
<1>. QED  BY <1>4, <1>5

LEMMA CallTypes ==
  ASSUME TypeOK, NEW r \in Runners, NEW k, NEW pc, NEW next \in Pcs \ {"start", "watch", "unlogged"}, NEW hit \in {"none", "setup", "clone"},
         Calls(r, k, pc, next, hit)
  PROVE  TypeOK'
<1>1. CASE Goto(r, next) /\ UNCHANGED faults
  BY <1>1, GotoTypes DEF Calls, TypeOK
<1>2. CASE Failing(r, hit)
  BY <1>2, FailTypes DEF Calls, TypeOK
<1>. QED  BY <1>1, <1>2 DEF Calls

\* A process starts.
LEMMA SpawnTypes ==
  ASSUME TypeOK, NEW p \in Ids, Spawn(p)
  PROVE  procs' \in [Ids -> [up : {"no", "pending", "running", "awaiting", "orphaned", "ended", "gone"},
                             code : {"none", "zero", "nonzero"}, out : Written]]
BY DEF TypeOK, Spawn

LEMMA LocalTypes ==
  ASSUME TypeOK, NEW r \in Runners, LocalStep(r) \/ CargoPagesFail(r)
  PROVE  TypeOK'
<1>0. /\ run[r] \in Run /\ run \in [Runners -> Run] /\ faults \in 0 .. MaxFaults
      /\ Id(r) \in Ids /\ run[r].try \in 1 .. MaxTries /\ MaxTries \in Nat /\ MaxFaults \in Nat
      /\ MountDirs(r) \subseteq Runners \X (1 .. MaxTries) \X {"in", "base", "io", "out"}
  BY Typed, RunnersAssumption DEF TypeOK
<1>1. ASSUME NEW k \in {"shell", "buildkit"}, Mounts(r, k, MountDirs(r)) \/ MountsNot(r, k, MountDirs(r))  PROVE TypeOK'
  BY <1>1, MountTypes
<1>2. ASSUME NEW next \in {"tool", "solve"}, NEW k \in {"cargo", "buildkit"}, Calls(r, k, "ready", next, "none")  PROVE TypeOK'
  BY <1>2, CallTypes DEF Pcs
<1>3. ASSUME NEW k \in LocalKinds, NEW pc \in {"ready", "tool", "solve"}, Starts(r, k, pc)  PROVE TypeOK'
  <2>1. CASE Spawn(Id(r)) /\ Goto(r, "wait") /\ UNCHANGED faults
    <3>1. "wait" \in Pcs
      BY DEF Pcs
    <3>. QED  BY <1>0, <1>3, <2>1, <3>1, SpawnTypes, GotoTypes DEF Starts, LocalRest, TypeOK
  <2>2. CASE Failing(r, "none") /\ UNCHANGED procs
    BY <1>3, <2>2, FailTypes DEF Starts, LocalRest, TypeOK
  <2>. QED  BY <1>3, <2>1, <2>2 DEF Starts
<1>4. ASSUME NEW k \in LocalKinds, Returns(r, k)  PROVE TypeOK'
  BY <1>4, FinishTypes DEF Returns, Waiting, LocalRest, Verdict, TypeOK
<1>5. ASSUME NEW k, Waiting(r, k), TimedOut(r),
             UNCHANGED procs \/ \E left \in {"gone", "orphaned"} : Killed(Id(r), left)
      PROVE  TypeOK'
  <2>. DEFINE new == [run[r] EXCEPT !.pc = "unmount", !.result = "failed", !.timedout = TRUE]
  <2>0. "unmount" \in Pcs
    BY DEF Pcs
  <2>1. new \in Run /\ new.pc = "unmount"
    BY <1>0, <2>0 DEF Run
  <2>3. run' = [run EXCEPT ![r] = new]
    BY <1>0, <1>5 DEF TimedOut
  <2>2. procs' \in [Ids -> [up : {"no", "pending", "running", "awaiting", "orphaned", "ended", "gone"},
                            code : {"none", "zero", "nonzero"}, out : Written]]
    BY <1>0, <1>5 DEF Killed, TypeOK
  <2>. HIDE DEF new
  <2>. QED  BY <1>5, <2>1, <2>2, <2>3, RunUpdated DEF Waiting, LocalRest, TypeOK
<1>10. CASE DenoTimeout(r)
  <2>. DEFINE new == [run[r] EXCEPT !.timedout = TRUE]
  <2>1. new \in Run /\ new.pc = "wait"
    BY <1>0, <1>10 DEF Run, DenoTimeout, Waiting, At
  <2>3. run' = [run EXCEPT ![r] = new]
    BY <1>0, <1>10 DEF DenoTimeout
  <2>2. procs' \in [Ids -> [up : {"no", "pending", "running", "awaiting", "orphaned", "ended", "gone"},
                            code : {"none", "zero", "nonzero"}, out : Written]]
    BY <1>0, <1>10 DEF DenoTimeout, Killed, TypeOK
  <2>. HIDE DEF new
  <2>. QED  BY <1>10, <2>1, <2>2, <2>3, RunUpdated DEF DenoTimeout, Waiting, LocalRest, TypeOK
<1>6. CASE CargoPagesFail(r)
  BY <1>6, FailTypes DEF CargoPagesFail, LocalRest, TypeOK
<1>7. CASE GitOverride(r)
  BY <1>7, FailTypes, FinishTypes DEF GitOverride, LocalRest, TypeOK
<1>8. CASE GitStore(r)
  BY <1>8, FailTypes, FinishTypes DEF GitStore, LocalRest, TypeOK
<1>9. CASE GitClone(r)
  <2>1. CASE Finish(r, "failed") /\ UNCHANGED <<procs, objs, faults>>
    BY <1>9, <2>1, FinishTypes DEF GitClone, LocalRest, TypeOK
  <2>2. CASE Failing(r, "none") /\ UNCHANGED <<procs, objs>>
    BY <1>9, <2>2, FailTypes DEF GitClone, LocalRest, TypeOK
  <2>3. CASE /\ objs' = objs \cup {Id(r)} /\ Goto(r, "wait")
             /\ procs' = [procs EXCEPT ![Id(r)].up = "ended", ![Id(r)].code = "zero"]
             /\ UNCHANGED faults
    <3>1. "wait" \in Pcs /\ Id(r) \in Runners \X (0 .. MaxTries)
      BY <1>0 DEF Pcs, Id
    <3>2. procs' \in [Ids -> [up : {"no", "pending", "running", "awaiting", "orphaned", "ended", "gone"},
                              code : {"none", "zero", "nonzero"}, out : Written]]
      <4>. DEFINE new == [procs[Id(r)] EXCEPT !.up = "ended", !.code = "zero"]
      <4>1. new \in [up : {"no", "pending", "running", "awaiting", "orphaned", "ended", "gone"}, code : {"none", "zero", "nonzero"}, out : Written]
        <5>1. procs[Id(r)] \in [up : {"no", "pending", "running", "awaiting", "orphaned", "ended", "gone"}, code : {"none", "zero", "nonzero"}, out : Written]
          BY <1>0 DEF TypeOK
        <5>. QED  BY <5>1
      <4>2. procs' = [procs EXCEPT ![Id(r)] = new]
        BY <2>3
      <4>. HIDE DEF new
      <4>. QED  BY <1>0, <4>1, <4>2 DEF TypeOK
    <3>. QED  BY <1>9, <2>3, <3>1, <3>2, GotoTypes DEF GitClone, LocalRest, TypeOK
  <2>. QED  BY <1>9, <2>1, <2>2, <2>3 DEF GitClone
<1>. QED  BY <1>1, <1>2, <1>3, <1>4, <1>5, <1>6, <1>7, <1>8, <1>9, <1>10, LocalShapes DEF LocalShape, DropsLocal, KillsLocal

Cluster == [ns : [Namespaces -> {"absent", "active", "terminating"}], vol : Nat, vols : Nat,
            jobs : SUBSET Ids, svcs : SUBSET Runners, doomed : SUBSET Ids]

\* containerd.
LEMMA CtrTypes ==
  ASSUME TypeOK, NEW r \in Runners, CtrStep(r) \/ CtrWaitFails(r) \/ CtrCleanupFails(r) \/ CtrProvisionFails(r)
  PROVE  TypeOK'
<1>0. /\ run[r] \in Run /\ run \in [Runners -> Run] /\ faults \in 0 .. MaxFaults
      /\ Id(r) \in Ids /\ run[r].try \in 1 .. MaxTries /\ MaxTries \in Nat /\ MaxFaults \in Nat /\ cluster \in Cluster
  BY Typed, RunnersAssumption DEF TypeOK, Cluster
<1>1. /\ IoDir(r) \in Runners \X (1 .. MaxTries) \X {"in", "base", "io", "out"}
      /\ Id(r) \in Runners \X (0 .. MaxTries) /\ <<r, 0>> \in Runners \X (0 .. MaxTries)
  BY <1>0 DEF IoDir, Id
<1>2. {"idle", "ready", "version", "image", "container", "chain", "snapshot", "apply", "io", "task", "wait", "done", "unmount"}
        \subseteq Pcs
  BY DEF Pcs
<1>3. CASE CtrMount(r)
  <2>1. {} \in SUBSET MountDirs(r)
    OBVIOUS
  <2>. QED  BY <1>3, <2>1, MountTypes DEF CtrMount
<1>4. CASE CtrConnect(r) \/ CtrVersion(r) \/ CtrImage(r)
  BY <1>2, <1>4, CallTypes DEF CtrConnect, CtrVersion, CtrImage
<1>5. CASE CtrChain(r) \/ CtrApply(r)
  BY <1>2, <1>5, CallTypes DEF CtrChain, CtrApply
<1>6. CASE CtrSnapshot(r)
  <2>1. (IF run[r].mounted THEN "apply" ELSE "io") \in Pcs \ {"start", "watch", "unlogged"}
    BY <1>2
  <2>. QED  BY <1>6, <2>1, CallTypes DEF CtrSnapshot
<1>7. CASE CtrCreate(r)
  <2>1. objs' \subseteq Runners \X (0 .. MaxTries)
    BY <1>1, <1>7 DEF CtrCreate, TypeOK
  <2>2. CASE Goto(r, "chain") /\ UNCHANGED faults
    BY <1>2, <1>7, <2>1, <2>2, GotoTypes DEF CtrCreate, CtrRest, TypeOK
  <2>3. CASE Failing(r, "setup")
    BY <1>7, <2>1, <2>3, FailTypes DEF CtrCreate, CtrRest, TypeOK
  <2>. QED  BY <1>7, <2>2, <2>3 DEF CtrCreate
<1>8. CASE CtrIoDir(r)
  <2>1. dirs' \subseteq Runners \X (1 .. MaxTries) \X {"in", "base", "io", "out"}
    BY <1>1, <1>8 DEF CtrIoDir, TypeOK
  <2>2. CASE Goto(r, "task") /\ UNCHANGED faults
    BY <1>2, <1>8, <2>1, <2>2, GotoTypes DEF CtrIoDir, CtrRest, TypeOK
  <2>3. CASE Failing(r, "setup")
    BY <1>8, <2>1, <2>3, FailTypes DEF CtrIoDir, CtrRest, TypeOK
  <2>. QED  BY <1>8, <2>2, <2>3 DEF CtrIoDir
<1>9. CASE CtrStart(r)
  <2>1. CASE Spawn(Id(r)) /\ Goto(r, "wait") /\ UNCHANGED faults
    BY <1>0, <1>2, <1>9, <2>1, SpawnTypes, GotoTypes DEF CtrStart, CtrRest, TypeOK
  <2>2. CASE Failing(r, "setup") /\ UNCHANGED procs
    BY <1>9, <2>2, FailTypes DEF CtrStart, CtrRest, TypeOK
  <2>. QED  BY <1>9, <2>1, <2>2 DEF CtrStart
<1>10. CASE CtrWait(r)
  BY <1>10, FinishTypes DEF CtrWait, Cleaned, CtrRest, Verdict, TypeOK
<1>11. CASE CtrWaitFails(r)
  BY <1>11, FailTypes DEF CtrWaitFails, Cleaned, CtrRest, TypeOK
<1>12. CASE CtrCleanupFails(r)
  <2>. DEFINE new == [run[r] EXCEPT !.pc = "unmount", !.result = Verdict(Id(r)), !.hit = "cleanup"]
  <2>1. new \in Run /\ new.pc = "unmount" /\ run' = [run EXCEPT ![r] = new]
    BY <1>0, <1>2, <1>12 DEF CtrCleanupFails, Run, Verdict
  <2>2. faults' \in 0 .. MaxFaults
    BY <1>0, <1>12 DEF CtrCleanupFails
  <2>. HIDE DEF new
  <2>. QED  BY <1>12, <2>1, <2>2, RunUpdated DEF CtrCleanupFails, CtrRest, TypeOK
<1>13. CASE CtrTimeout(r)
  <2>. DEFINE new == [run[r] EXCEPT !.pc = "unmount", !.result = "failed", !.timedout = TRUE]
  <2>1. new \in Run /\ new.pc = "unmount" /\ run' = [run EXCEPT ![r] = new]
    BY <1>0, <1>2, <1>13 DEF CtrTimeout, Run
  <2>. HIDE DEF new
  <2>. QED  BY <1>13, <2>1, RunUpdated DEF CtrTimeout, Cleaned, CtrRest, TypeOK
<1>14. CASE CtrProvision(r)
  <2>1. objs' \subseteq Runners \X (0 .. MaxTries) /\ cluster' \in Cluster
    BY <1>0, <1>1, <1>14 DEF CtrProvision, TypeOK, Cluster
  <2>. QED  BY <1>2, <1>14, <2>1, GotoTypes DEF CtrProvision, SvcRest, TypeOK, Cluster
<1>15. CASE CtrTeardown(r)
  <2>1. objs' \subseteq Runners \X (0 .. MaxTries) /\ cluster' \in Cluster
    BY <1>0, <1>15 DEF CtrTeardown, TypeOK, Cluster
  <2>. QED  BY <1>2, <1>15, <2>1, GotoTypes DEF CtrTeardown, SvcRest, TypeOK, Cluster
<1>16. CASE CtrTaken(r) \/ CtrProvisionFails(r)
  <2>1. objs' \subseteq Runners \X (0 .. MaxTries) /\ cluster' \in Cluster /\ faults' \in 0 .. MaxFaults
    BY <1>0, <1>1, <1>16 DEF CtrTaken, CtrProvisionFails, TypeOK, Cluster
  <2>. DEFINE new == [run[r] EXCEPT !.pc = "done", !.result = "failed", !.hit = "service"]
  <2>2. new \in Run /\ new.pc = "done" /\ run' = [run EXCEPT ![r] = new]
    BY <1>0, <1>2, <1>16 DEF CtrTaken, CtrProvisionFails, Unprovisioned, Run
  <2>. HIDE DEF new
  <2>. QED  BY <1>16, <2>1, <2>2, RunUpdated DEF CtrTaken, CtrProvisionFails, SvcRest, TypeOK, Cluster
<1>. QED
  BY <1>3, <1>4, <1>5, <1>6, <1>7, <1>8, <1>9, <1>10, <1>11, <1>12, <1>13, <1>14, <1>15, <1>16 DEF CtrStep

\* Kubernetes.
LEMMA EndTypes ==
  ASSUME TypeOK, NEW r \in Runners, NEW pc \in Pcs \ {"start", "watch", "unlogged"}, NEW res \in {"ok", "failed"},
         run' = [run EXCEPT ![r].pc = pc, ![r].result = res]
  PROVE  /\ run' \in [Runners -> Run]
         /\ \A s \in Runners : run'[s].pc \in {"start", "watch", "unlogged"} => run'[s].pod \in Ids
<1>1. run[r] \in Run /\ run \in [Runners -> Run]
  BY DEF TypeOK
<1>. DEFINE new == [run[r] EXCEPT !.pc = pc, !.result = res]
<1>2. new \in Run /\ new.pc = pc /\ run' = [run EXCEPT ![r] = new]
  BY <1>1 DEF Run
<1>. HIDE DEF new
<1>. QED  BY <1>2, RunUpdated

LEMMA NamespaceTypes ==
  ASSUME TypeOK, NEW r \in Runners, NEW n \in Namespaces, NEW pc,
         NEW next \in Pcs \ {"start", "watch", "unlogged"}, NEW other \in Pcs \ {"start", "watch", "unlogged"},
         \/ NamespaceGet(r, pc, n, next, other) \/ NamespaceCreate(r, pc, n, next) \/ NamespaceTaken(r, pc, n, other)
  PROVE  TypeOK'
<1>1. CASE NamespaceGet(r, pc, n, next, other)
  <2>1. PICK to \in {next, other} : Goto(r, to)
    BY <1>1 DEF NamespaceGet
  <2>. QED  BY <1>1, <2>1, GotoTypes DEF NamespaceGet, K8sRest, TypeOK
<1>2. CASE NamespaceCreate(r, pc, n, next)
  <2>1. cluster' \in Cluster
    BY <1>2 DEF NamespaceCreate, TypeOK, Cluster
  <2>. QED  BY <1>2, <2>1, GotoTypes DEF NamespaceCreate, K8sRest, TypeOK, Cluster
<1>3. CASE NamespaceTaken(r, pc, n, other)
  BY <1>3, EndTypes DEF NamespaceTaken, K8sRest, TypeOK
<1>. QED  BY <1>1, <1>2, <1>3

LEMMA K8sTypes ==
  ASSUME TypeOK, NEW r \in Runners, K8sStep(r) \/ K8sCopyOut(r)
  PROVE  TypeOK'
<1>0. /\ run[r] \in Run /\ run \in [Runners -> Run] /\ faults \in 0 .. MaxFaults
      /\ Id(r) \in Ids /\ run[r].try \in 1 .. MaxTries /\ MaxTries \in Nat /\ MaxFaults \in Nat
      /\ cluster \in Cluster /\ Root \in Namespaces /\ r \in Namespaces
  BY Typed, RunnersAssumption DEF TypeOK, Cluster, Namespaces
<1>1. {"begin", "service_ns", "service", "idle", "ready", "namespace", "create_ns", "volume", "job", "copy_in", "find",
       "start", "watch", "unlogged", "delete", "unmount", "teardown", "done"} \subseteq Pcs
  BY DEF Pcs
<1>2. JobNamed(r) \subseteq cluster.jobs /\ cluster.jobs \subseteq Ids
  BY <1>0 DEF JobNamed, Cluster
<1>3. CASE K8sMount(r)
  <2>1. InDir(r) \in SUBSET MountDirs(r)
    BY DEF MountDirs
  <2>. QED  BY <1>3, <2>1, MountTypes DEF K8sMount
<1>4. CASE K8sClient(r)
  BY <1>1, <1>4, CallTypes DEF K8sClient
<1>5. CASE K8sNamespace(r)
  <2>1. {"volume", "create_ns", "unmount"} \subseteq Pcs \ {"start", "watch", "unlogged"}
    BY <1>1
  <2>2. CASE NamespaceGet(r, "namespace", StepNs, "volume", "create_ns")
    BY <1>0, <2>1, <2>2, NamespaceTypes DEF StepNs
  <2>3. CASE NamespaceCreate(r, "create_ns", StepNs, "volume") \/ NamespaceTaken(r, "create_ns", StepNs, "unmount")
    BY <1>0, <2>1, <2>3, NamespaceTypes DEF StepNs
  <2>. QED  BY <1>5, <2>2, <2>3 DEF K8sNamespace
<1>6. CASE K8sVolume(r)
  <2>1. CASE Finish(r, "failed") /\ UNCHANGED cluster
    BY <1>6, <2>1, FinishTypes DEF K8sVolume, K8sRest, TypeOK
  <2>2. CASE ~(cluster.vol = 0 /\ ~Active(StepNs))
    <3>. DEFINE v == IF cluster.vol = 0 THEN cluster.vols + 1 ELSE cluster.vol
                new == [run[r] EXCEPT !.pc = "job", !.vol = v]
    <3>1. v \in Nat /\ cluster.vols \in Nat
      BY <1>0 DEF Cluster
    <3>2. cluster' = [cluster EXCEPT !.vol = v, !.vols = IF v > @ THEN v ELSE @]
      BY <1>6, <2>2 DEF K8sVolume
    <3>3. run' = [run EXCEPT ![r] = new]
      BY <1>0, <1>6, <2>2 DEF K8sVolume
    <3>. HIDE DEF v
    <3>4. cluster' \in Cluster
      BY <1>0, <3>1, <3>2 DEF Cluster
    <3>5. new \in Run /\ new.pc = "job"
      BY <1>0, <1>1, <3>1 DEF Run
    <3>. HIDE DEF new
    <3>. QED  BY <1>6, <3>3, <3>4, <3>5, RunUpdated DEF K8sVolume, K8sRest, TypeOK, Cluster
  <2>. QED  BY <1>6, <2>1, <2>2 DEF K8sVolume
<1>7. CASE K8sCreateJob(r)
  <2>1. cluster' \in Cluster
    BY <1>0, <1>7 DEF K8sCreateJob, Cluster
  <2>2. CASE \E pc \in {"copy_in", "find"} : Goto(r, pc)
    BY <1>1, <1>7, <2>1, <2>2, GotoTypes DEF K8sCreateJob, K8sRest, TypeOK, Cluster
  <2>3. CASE Finish(r, "failed")
    BY <1>7, <2>1, <2>3, FinishTypes DEF K8sCreateJob, K8sRest, TypeOK, Cluster
  <2>. QED  BY <1>7, <2>2, <2>3 DEF K8sCreateJob
<1>8. CASE K8sCopyIn(r)
  BY <1>1, <1>8, GotoTypes DEF K8sCopyIn, K8sRest, TypeOK
<1>9. CASE K8sFindPod(r)
  <2>1. PICK p \in Ids : run' = [run EXCEPT ![r].pc = "start", ![r].pod = p]
    BY <1>9 DEF K8sFindPod, Labelled
  <2>. DEFINE new == [run[r] EXCEPT !.pc = "start", !.pod = p]
  <2>2. new \in Run /\ new.pod \in Ids /\ run' = [run EXCEPT ![r] = new]
    BY <1>0, <1>1, <2>1 DEF Run
  <2>. HIDE DEF new
  <2>. QED  BY <1>9, <2>2, RunUpdated DEF K8sFindPod, K8sRest, TypeOK
<1>10. CASE K8sPodRunning(r)
  <2>1. run[r].pod \in Ids
    BY <1>10 DEF K8sPodRunning, K8sAt, At, TypeOK
  <2>. QED  BY <1>1, <1>10, <2>1, GotoTypes DEF K8sPodRunning, K8sRest, TypeOK
<1>11. CASE K8sPodLost(r)
  BY <1>1, <1>11, EndTypes DEF K8sPodLost, K8sRest, TypeOK
<1>12. CASE K8sComplete(r)
  <2>1. PICK res \in {"ok", "failed"} : run' = [run EXCEPT ![r].pc = "delete", ![r].result = res]
    BY <1>12 DEF K8sComplete, Verdict
  <2>. QED  BY <1>1, <1>12, <2>1, EndTypes DEF K8sComplete, K8sRest, TypeOK
<1>13. CASE K8sTimeout(r)
  <2>. DEFINE new == [run[r] EXCEPT !.pc = "delete", !.result = "failed", !.timedout = TRUE]
  <2>1. new \in Run /\ new.pc = "delete" /\ run' = [run EXCEPT ![r] = new]
    BY <1>0, <1>1, <1>13 DEF K8sTimeout, Run
  <2>. HIDE DEF new
  <2>. QED  BY <1>13, <2>1, RunUpdated DEF K8sTimeout, K8sRest, TypeOK
<1>14. CASE K8sDelete(r)
  <2>1. cluster' \in Cluster
    BY <1>0, <1>2, <1>14 DEF K8sDelete, Cluster
  <2>. QED  BY <1>1, <1>14, <2>1, GotoTypes DEF K8sDelete, K8sRest, TypeOK, Cluster
<1>15. CASE K8sProvisionNs(r)
  <2>1. {"service", "service_ns", "done"} \subseteq Pcs \ {"start", "watch", "unlogged"}
    BY <1>1
  <2>2. CASE NamespaceGet(r, "begin", NsOf(r), "service", "service_ns")
    BY <1>0, <2>1, <2>2, NamespaceTypes DEF NsOf
  <2>3. CASE NamespaceCreate(r, "service_ns", NsOf(r), "service") \/ NamespaceTaken(r, "service_ns", NsOf(r), "done")
    BY <1>0, <2>1, <2>3, NamespaceTypes DEF NsOf
  <2>. QED  BY <1>15, <2>2, <2>3 DEF K8sProvisionNs
<1>16. CASE K8sProvision(r)
  <2>1. cluster' \in Cluster
    BY <1>0, <1>16 DEF K8sProvision, ServiceCreated, Cluster
  <2>2. CASE Goto(r, "idle")
    BY <1>1, <1>16, <2>1, <2>2, GotoTypes DEF K8sProvision, K8sRest, TypeOK, Cluster
  <2>3. CASE Unprovisioned(r)
    <3>. DEFINE new == [run[r] EXCEPT !.pc = "done", !.result = "failed", !.hit = "service"]
    <3>1. new \in Run /\ new.pc = "done" /\ run' = [run EXCEPT ![r] = new]
      BY <1>0, <1>1, <2>3 DEF Unprovisioned, Run
    <3>. HIDE DEF new
    <3>. QED  BY <1>16, <2>1, <3>1, RunUpdated DEF K8sProvision, K8sRest, TypeOK, Cluster
  <2>. QED  BY <1>16, <2>2, <2>3 DEF K8sProvision
<1>17. CASE K8sTeardown(r)
  <2>1. cluster' \in Cluster
    BY <1>0, <1>17 DEF K8sTeardown, Cluster, NsOf
  <2>. QED  BY <1>1, <1>17, <2>1, GotoTypes DEF K8sTeardown, K8sRest, TypeOK, Cluster
<1>18. CASE K8sCopyOut(r)
  <2>. DEFINE new == [run[r] EXCEPT !.out = procs[run[r].pod].out]
  <2>1. run[r].pc \in {"watch", "unlogged"} /\ run[r].pod \in Ids
    BY <1>18 DEF K8sCopyOut, Watches, K8sAt, At, TypeOK
  <2>2. procs[run[r].pod].out \in Written
    BY <2>1 DEF TypeOK
  <2>3. new \in Run /\ new.pod \in Ids /\ run' = [run EXCEPT ![r] = new]
    BY <1>0, <1>18, <2>1, <2>2 DEF K8sCopyOut, Run
  <2>4. <<r, run[r].try, "out">> \in Runners \X (1 .. MaxTries) \X {"in", "base", "io", "out"}
    BY <1>0
  <2>5. dirs' \subseteq Runners \X (1 .. MaxTries) \X {"in", "base", "io", "out"}
    BY <1>18, <2>4 DEF K8sCopyOut, TypeOK
  <2>. HIDE DEF new
  <2>. QED  BY <1>18, <2>3, <2>5, RunUpdated DEF K8sCopyOut, K8sRest, TypeOK
<1>. QED
  BY <1>3, <1>4, <1>5, <1>6, <1>7, <1>8, <1>9, <1>10, <1>11, <1>12, <1>13, <1>14, <1>15, <1>16, <1>17, <1>18 DEF K8sStep

LEMMA K8sFaultTypes ==
  ASSUME TypeOK, NEW r \in Runners, K8sFault(r)
  PROVE  TypeOK'
<1>0. /\ run[r] \in Run /\ run \in [Runners -> Run] /\ faults \in 0 .. MaxFaults
      /\ MaxFaults \in Nat /\ cluster \in Cluster
  BY Typed, RunnersAssumption DEF TypeOK, Cluster
<1>1. {"find", "watch", "unlogged", "delete", "unmount", "done"} \subseteq Pcs
  BY DEF Pcs
<1>2. faults' \in 0 .. MaxFaults
  BY <1>0 DEF K8sFault, K8sUnbound, Failing, K8sCopyInFails, K8sGivesUp, K8sStreamBreaks, K8sWatchFails,
              K8sDeleteFails, K8sNotReady
<1>3. CASE K8sUnbound(r)
  BY <1>3, FailTypes DEF K8sUnbound, K8sRest, TypeOK
<1>4. CASE K8sCopyInFails(r)
  <2>1. CASE Goto(r, "find")
    BY <1>1, <1>2, <1>4, <2>1, GotoTypes DEF K8sCopyInFails, K8sRest, TypeOK
  <2>2. CASE run' = [run EXCEPT ![r].pc = "delete", ![r].result = "failed"]
    BY <1>1, <1>2, <1>4, <2>2, EndTypes DEF K8sCopyInFails, K8sRest, TypeOK
  <2>. QED  BY <1>4, <2>1, <2>2 DEF K8sCopyInFails
<1>5. CASE K8sGivesUp(r)
  BY <1>1, <1>2, <1>5, EndTypes DEF K8sGivesUp, K8sRest, TypeOK
<1>6. CASE K8sDeleteFails(r)
  <2>. DEFINE new == [run[r] EXCEPT !.pc = "unmount", !.hit = "cleanup"]
  <2>1. new \in Run /\ new.pc = "unmount" /\ run' = [run EXCEPT ![r] = new]
    BY <1>0, <1>1, <1>6 DEF K8sDeleteFails, Run
  <2>. HIDE DEF new
  <2>. QED  BY <1>2, <1>6, <2>1, RunUpdated DEF K8sDeleteFails, K8sRest, TypeOK
<1>7. CASE K8sNotReady(r)
  <2>. DEFINE new == [run[r] EXCEPT !.pc = "done", !.result = "failed", !.hit = "service"]
  <2>1. new \in Run /\ new.pc = "done" /\ run' = [run EXCEPT ![r] = new]
    BY <1>0, <1>1, <1>7 DEF K8sNotReady, Unprovisioned, Run
  <2>2. cluster' \in Cluster
    BY <1>0, <1>7 DEF K8sNotReady, ServiceCreated, Cluster
  <2>. HIDE DEF new
  <2>. QED  BY <1>2, <1>7, <2>1, <2>2, RunUpdated DEF K8sNotReady, K8sRest, TypeOK, Cluster
<1>8. CASE K8sStreamBreaks(r)
  <2>1. run[r].pod \in Ids
    BY <1>8 DEF K8sStreamBreaks, K8sAt, At, TypeOK
  <2>. QED  BY <1>1, <1>2, <1>8, <2>1, GotoTypes DEF K8sStreamBreaks, K8sRest, TypeOK
<1>9. CASE K8sWatchFails(r)
  <2>. DEFINE new == [run[r] EXCEPT !.result = "failed"]
  <2>1. run[r].pod \in Ids
    BY <1>9 DEF K8sWatchFails, Watches, K8sAt, At, TypeOK
  <2>2. new \in Run /\ new.pod \in Ids /\ run' = [run EXCEPT ![r] = new]
    BY <1>0, <1>9, <2>1 DEF K8sWatchFails, Run
  <2>. HIDE DEF new
  <2>. QED  BY <1>2, <1>9, <2>2, RunUpdated DEF K8sWatchFails, K8sRest, TypeOK
<1>. QED  BY <1>3, <1>4, <1>5, <1>6, <1>7, <1>8, <1>9 DEF K8sFault

\* Processes and the cluster.
LEMMA WorldTypes ==
  ASSUME TypeOK, ProcessNext \/ ScriptNext \/ ClusterStep \/ \E n \in Namespaces : CleanupStale(n)
  PROVE  TypeOK'
<1>0. cluster \in Cluster
  BY DEF TypeOK, Cluster
<1>1. ASSUME NEW p \in Ids, ProcessEnds(p) \/ ProcessWrites(p)  PROVE TypeOK'
  <2>1. procs' \in [Ids -> [up : {"no", "pending", "running", "awaiting", "orphaned", "ended", "gone"},
                            code : {"none", "zero", "nonzero"}, out : Written]]
    BY <1>1 DEF ProcessEnds, ProcessWrites, TypeOK, Written
  <2>. QED  BY <1>1, <2>1 DEF ProcessEnds, ProcessWrites, TypeOK
<1>2. ASSUME NEW p \in Ids, PodCreated(p) \/ PodStarts(p) \/ PodGone(p)  PROVE TypeOK'
  <2>1. procs' \in [Ids -> [up : {"no", "pending", "running", "awaiting", "orphaned", "ended", "gone"},
                            code : {"none", "zero", "nonzero"}, out : Written]]
    BY <1>2 DEF PodCreated, PodStarts, PodGone, Spawn, TypeOK
  <2>. QED  BY <1>2, <2>1 DEF PodCreated, PodStarts, PodGone, K8sRest, TypeOK
<1>3. ASSUME NEW n \in Namespaces, NamespaceGone(n)  PROVE TypeOK'
  <2>1. cluster' \in Cluster
    BY <1>0, <1>3 DEF NamespaceGone, Cluster
  <2>. QED  BY <1>3, <2>1 DEF NamespaceGone, K8sRest, TypeOK, Cluster
<1>4. ASSUME NEW n \in Namespaces, CleanupStale(n)  PROVE TypeOK'
  <2>1. cluster' \in Cluster
    BY <1>0, <1>4 DEF CleanupStale, Cluster
  <2>. QED  BY <1>4, <2>1 DEF CleanupStale, K8sRest, TypeOK, Cluster
<1>5. ASSUME NEW p \in Ids, ScriptAwaits(p) \/ OpAnswers(p)  PROVE TypeOK'
  <2>1. procs' \in [Ids -> [up : {"no", "pending", "running", "awaiting", "orphaned", "ended", "gone"},
                            code : {"none", "zero", "nonzero"}, out : Written]]
    BY <1>5 DEF ScriptAwaits, OpAnswers, TypeOK
  <2>. QED  BY <1>5, <2>1 DEF ScriptAwaits, OpAnswers, LocalRest, TypeOK
<1>. QED  BY <1>1, <1>2, <1>3, <1>4, <1>5 DEF ProcessNext, ScriptNext, ClusterStep

LEMMA TypeStep ==
  ASSUME TypeOK, [Next]_vars
  PROVE  TypeOK'
<1>1. CASE UNCHANGED vars
  BY <1>1 DEF vars, TypeOK, Ids, NoId, Namespaces, Run
<1>2. CASE ExecutorNext
  BY <1>2, ExecutorTypes DEF ExecutorNext
<1>3. CASE K8sNext
  BY <1>3, K8sTypes, K8sFaultTypes, WorldTypes DEF K8sNext
<1>4. CASE ProcessNext
  BY <1>4, WorldTypes
<1>5. CASE CtrNext
  BY <1>5, CtrTypes DEF CtrNext
<1>6. CASE LocalNext
  BY <1>6, LocalTypes, WorldTypes DEF LocalNext
<1>. QED  BY <1>1, <1>2, <1>3, <1>4, <1>5, <1>6 DEF Next

\* The state of every kind of step, of processes, cluster and daemon is well
\* formed, for any number of workflows, tries and faults; a Kubernetes step that
\* waits for a pod has found one.
THEOREM StepsTypeCorrect == Spec => []TypeOK
<1>1. Init => TypeOK
  BY TypeInit
<1>2. TypeOK /\ [Next]_vars => TypeOK'
  BY TypeStep
<1>. QED  BY <1>1, <1>2, PTL DEF Spec

-----------------------------------------------------------------------------
(* The invariant, per runner.                                              *)

Over == {"unmount", "teardown", "done"}
After == Over \cup {"delete"}
WithJob == {"copy_in", "find", "start", "watch", "unlogged", "delete"}
WithContainer == {"chain", "snapshot", "apply", "io", "task", "wait"}
Provisioning == {"begin", "service_ns", "service"}

\* An exit code is that of a process that ended, so it is never overwritten.
CodeInv == \A p \in Ids : procs[p].code # "none" => procs[p].up \in {"ended", "gone"}

\* A try that has not begun has left nothing, and a local body has no process
\* before it waits for one.
Untouched(p) ==
  /\ procs[p].up = "no" /\ p \notin cluster.jobs /\ p \notin objs
  /\ \A use \in {"in", "io"} : <<p[1], p[2], use>> \notin dirs
TryInv(r) ==
  /\ \A t \in 1 .. MaxTries : t > run[r].try => Untouched(<<r, t>>)
  /\ kind # K /\ run[r].pc \notin Over \cup {"wait"} => procs[Id(r)].up = "no"
  /\ kind # K /\ run[r].pc = "wait" => /\ procs[Id(r)].up \in {"running", "awaiting", "ended", "gone"}
                                       /\ procs[Id(r)].up = "awaiting" => kind = "deno"

\* A result is final, only a Kubernetes body can know earlier that it failed;
\* for git the process that ended is the clone.
VerdictInv(r) ==
  /\ run[r].result # "none" => run[r].pc \in After \/ (kind = K /\ run[r].result = "failed" /\ run[r].pc \in WithJob)
  /\ run[r].result = "ok" /\ run[r].pod \in {NoId, Id(r)}
       => procs[Id(r)].code = "zero" \/ (kind = "git" /\ Has("inputs"))
  /\ kind = "git" => /\ run[r].mounted => Has("inputs")
                     /\ run[r].pc = "wait" => procs[Id(r)].code = "zero"

\* What a try has set up is known to its body until it is removed, or a call
\* that failed is to blame.
LeftInv(r) ==
  /\ Id(r) \in cluster.jobs => run[r].pc \in WithJob \/ run[r].hit # "none"
  /\ kind = D /\ Id(r) \in objs => run[r].pc \in WithContainer \/ run[r].hit # "none"
  /\ <<r, run[r].try, "in">> \in dirs => run[r].mounted \/ run[r].hit # "none"
  /\ <<r, run[r].try, "io">> \in dirs => (kind = D /\ run[r].pc \in {"task", "wait"}) \/ run[r].hit # "none"
  /\ run[r].mounted => run[r].pc \notin Provisioning \cup {"idle", "teardown", "done"}

\* A job that its body has not deleted yet is there or was deleted by others;
\* when the body has deleted it its pod is doomed.
StopInv(r) ==
  /\ kind = K /\ run[r].pc \in WithJob => Id(r) \in cluster.jobs \cup cluster.doomed
  /\ run[r].timedout => run[r].pc \in After \/ (kind = "deno" /\ run[r].pc = "wait")
  /\ run[r].timedout /\ kind = K /\ run[r].pc \in Over /\ run[r].hit = "none" => Id(r) \in cluster.doomed
  /\ run[r].timedout /\ Stops(kind) /\ kind # K =>
       \/ procs[Id(r)].up \in {"ended", "gone"}
       \/ kind = "shell" /\ procs[Id(r)].up = "orphaned"
       \/ kind = "deno" /\ run[r].pc = "wait" /\ procs[Id(r)].up = "awaiting"

\* Services are those of a workflow that declares them, and are there after a
\* pass only when that pass could not be provisioned.
ServiceInv(r) ==
  /\ run[r].pc \in Provisioning \cup {"teardown"} => Serviced(r)
  /\ kind = K /\ r \in cluster.svcs => Serviced(r) /\ cluster.ns[r] # "absent" /\ run[r].pc # "service_ns"
  /\ kind = K /\ r \in cluster.svcs /\ run[r].pc = "done" => cluster.ns[r] = "terminating" \/ run[r].hit = "service"
  /\ <<r, 0>> \in objs => kind = D /\ Serviced(r) /\ (run[r].pc = "done" => run[r].hit = "service")

RunInv(r) == TryInv(r) /\ VerdictInv(r) /\ LeftInv(r) /\ StopInv(r) /\ ServiceInv(r)

\* The directories that are kept are those of a definition that asks for them.
KeptInv == \A d \in dirs : d[3] \in {"base", "out"} => Kept(d[3])
StepsInv == CodeInv /\ KeptInv /\ \A r \in Runners : RunInv(r)

-----------------------------------------------------------------------------
(* What a runner does concerns its own try.                                *)

Frame(r) ==
  /\ kind' = kind /\ conf' = conf /\ (faults' = 0 => faults = 0)
  /\ \A s \in Runners \ {r} : run'[s] = run[s]
  /\ \A p \in Ids : p # Id(r) => procs'[p] = procs[p]
  /\ \A p : p[1] # r /\ p \in objs' => p \in objs
  /\ \A d : d[1] # r /\ d \in dirs' => d \in dirs
  /\ cluster'.jobs \subseteq cluster.jobs \cup {Id(r)}
  /\ cluster.doomed \subseteq cluster'.doomed /\ cluster.jobs \subseteq cluster'.jobs \cup cluster'.doomed
  /\ \A s \in Runners \ {r} : /\ s \in cluster'.svcs => s \in cluster.svcs
                              /\ cluster'.ns[s] = cluster.ns[s] \/ cluster.ns[s] = "absent"

\* The others' invariants are not disturbed.
LEMMA OthersKeep ==
  ASSUME TypeOK, NEW r \in Runners, Frame(r), NEW s \in Runners \ {r}, RunInv(s)
  PROVE  RunInv(s)'
<1>1. /\ run'[s] = run[s] /\ Id(s)' = Id(s) /\ kind' = kind /\ conf' = conf
      /\ \A t \in 1 .. MaxTries : procs'[<<s, t>>] = procs[<<s, t>>]
      /\ Id(s) \in Ids /\ run[s].try \in 1 .. MaxTries
  BY Typed DEF Frame, Id, Ids
<1>2. procs'[Id(s)] = procs[Id(s)]
  BY <1>1 DEF Id
<1>3. \A t : /\ <<s, t>> \in objs' => <<s, t>> \in objs
             /\ \A use : <<s, t, use>> \in dirs' => <<s, t, use>> \in dirs
             /\ <<s, t>> \in cluster'.jobs => <<s, t>> \in cluster.jobs
  <2>. SUFFICES ASSUME NEW t
                PROVE  /\ <<s, t>> \in objs' => <<s, t>> \in objs
                       /\ \A use : <<s, t, use>> \in dirs' => <<s, t, use>> \in dirs
                       /\ <<s, t>> \in cluster'.jobs => <<s, t>> \in cluster.jobs
    OBVIOUS
  <2>1. <<s, t>>[1] = s /\ (\A use : <<s, t, use>>[1] = s) /\ <<s, t>> # Id(r) /\ s # r
    BY DEF Id
  <2>. QED  BY <2>1 DEF Frame
<1>4. TryInv(s)'
  <2>1. \A t \in 1 .. MaxTries : Untouched(<<s, t>>) => Untouched(<<s, t>>)'
    BY <1>1, <1>3 DEF Untouched
  <2>. QED  BY <1>1, <1>2, <2>1 DEF RunInv, TryInv
<1>5. VerdictInv(s)'
  BY <1>1, <1>2 DEF RunInv, VerdictInv, Has
<1>6. LeftInv(s)'
  BY <1>1, <1>3 DEF RunInv, LeftInv, Id
<1>7. StopInv(s)'
  <2>1. cluster.doomed \subseteq cluster'.doomed /\ cluster.jobs \subseteq cluster'.jobs \cup cluster'.doomed
    BY DEF Frame
  <2>. QED  BY <1>1, <1>2, <2>1 DEF RunInv, StopInv, Stops, Has
<1>8. ServiceInv(s)'
  BY <1>1, <1>3 DEF RunInv, ServiceInv, Frame, Serviced, Has
<1>. QED  BY <1>4, <1>5, <1>6, <1>7, <1>8 DEF RunInv


\* Who changes nothing but its own run, process, objects and directories.
LEMMA FrameSimple ==
  ASSUME TypeOK, NEW r \in Runners, \A s \in Runners \ {r} : run'[s] = run[s],
         UNCHANGED <<kind, conf, cluster>>, faults' \in {faults, faults + 1},
         \A p \in Ids : p # Id(r) => procs'[p] = procs[p],
         \A p : p[1] # r /\ p \in objs' => p \in objs,
         \A d : d[1] # r /\ d \in dirs' => d \in dirs
  PROVE  Frame(r)
<1>1. faults' = 0 => faults = 0
  BY DEF TypeOK
<1>. QED  BY <1>1 DEF Frame

LEMMA ExecutorFrames ==
  ASSUME TypeOK, NEW r \in Runners, NoMount(r) \/ Unmount(r) \/ Again(r)
  PROVE  Frame(r)
<1>1. run \in [Runners -> Run]
  BY DEF TypeOK
<1>2. \A s \in Runners \ {r} : run'[s] = run[s]
  BY <1>1 DEF NoMount, Unmount, Again
<1>3. UNCHANGED <<kind, conf, procs, objs, cluster, faults>> /\ dirs' \subseteq dirs
  BY DEF NoMount, Unmount, Again
<1>. QED  BY <1>2, <1>3, FrameSimple

\* The shared actions.
LEMMA SharedFrames ==
  ASSUME TypeOK, NEW r \in Runners, NEW k, NEW pc, NEW next, NEW hit, NEW new \in SUBSET MountDirs(r),
         \/ Mounts(r, k, new) \/ MountsNot(r, k, new) \/ Calls(r, k, pc, next, hit)
  PROVE  Frame(r)
<1>1. run \in [Runners -> Run]
  BY DEF TypeOK
<1>2. \A s \in Runners \ {r} : run'[s] = run[s]
  BY <1>1 DEF Mounts, MountsNot, Calls, Goto, Failing
<1>3. UNCHANGED <<kind, conf, procs, objs, cluster>> /\ faults' \in {faults, faults + 1}
  BY DEF Mounts, MountsNot, Calls, Failing
<1>4. dirs' \subseteq dirs \cup {<<r, run[r].try, "in">>, <<r, run[r].try, "base">>}
  BY DEF Mounts, MountsNot, Calls, InDir, MountDirs
<1>5. \A d : d[1] # r /\ d \in dirs' => d \in dirs
  BY <1>4
<1>. QED  BY <1>2, <1>3, <1>5, FrameSimple

LEMMA LocalFrames ==
  ASSUME TypeOK, NEW r \in Runners, LocalStep(r) \/ CargoPagesFail(r)
  PROVE  Frame(r)
<1>0. run \in [Runners -> Run] /\ DOMAIN procs = Ids
  BY DEF TypeOK
<1>1. ASSUME NEW k, Mounts(r, k, MountDirs(r)) \/ MountsNot(r, k, MountDirs(r)) \/ \E pc, next, hit : Calls(r, k, pc, next, hit)
      PROVE  Frame(r)
  BY <1>1, SharedFrames
<1>2. ASSUME NEW k, NEW pc, \/ Starts(r, k, pc) \/ Returns(r, k)
                            \/ Waiting(r, k) /\ TimedOut(r) /\ (UNCHANGED procs \/ \E left : Killed(Id(r), left))
      PROVE  Frame(r)
  <2>1. \A s \in Runners \ {r} : run'[s] = run[s]
    BY <1>0, <1>2 DEF Starts, Returns, Waiting, TimedOut, Goto, Failing, Finish
  <2>2. UNCHANGED <<kind, conf, dirs, objs, cluster>> /\ faults' \in {faults, faults + 1}
    BY <1>2 DEF Starts, Returns, Waiting, LocalRest, Failing
  <2>3. \A p \in Ids : p # Id(r) => procs'[p] = procs[p]
    BY <1>0, <1>2 DEF Starts, Returns, Spawn, Killed
  <2>. QED  BY <2>1, <2>2, <2>3, FrameSimple
<1>3. CASE CargoPagesFail(r) \/ GitOverride(r) \/ GitStore(r)
  <2>1. \A s \in Runners \ {r} : run'[s] = run[s]
    BY <1>0, <1>3 DEF CargoPagesFail, GitOverride, GitStore, Failing, Finish
  <2>2. UNCHANGED <<kind, conf, dirs, objs, cluster, procs>> /\ faults' \in {faults, faults + 1}
    BY <1>3 DEF CargoPagesFail, GitOverride, GitStore, LocalRest, Failing
  <2>. QED  BY <2>1, <2>2, FrameSimple
<1>4. CASE GitClone(r)
  <2>1. \A s \in Runners \ {r} : run'[s] = run[s]
    BY <1>0, <1>4 DEF GitClone, Failing, Finish, Goto
  <2>2. UNCHANGED <<kind, conf, dirs, cluster>> /\ faults' \in {faults, faults + 1} /\ objs' \subseteq objs \cup {<<r, run[r].try>>}
    BY <1>4 DEF GitClone, LocalRest, Failing, Id
  <2>3. \A p \in Ids : p # Id(r) => procs'[p] = procs[p]
    BY <1>0, <1>4 DEF GitClone
  <2>4. \A p : p[1] # r /\ p \in objs' => p \in objs
    BY <2>2
  <2>. QED  BY <2>1, <2>2, <2>3, <2>4, FrameSimple
<1>5. CASE DenoTimeout(r)
  <2>1. \A s \in Runners \ {r} : run'[s] = run[s]
    BY <1>0, <1>5 DEF DenoTimeout
  <2>2. UNCHANGED <<kind, conf, dirs, objs, cluster, faults>>
    BY <1>5 DEF DenoTimeout, Waiting, LocalRest
  <2>3. \A p \in Ids : p # Id(r) => procs'[p] = procs[p]
    BY <1>0, <1>5 DEF DenoTimeout, Killed
  <2>. QED  BY <2>1, <2>2, <2>3, FrameSimple
<1>. QED  BY <1>1, <1>2, <1>3, <1>4, <1>5, LocalShapes DEF LocalShape, DropsLocal, KillsLocal

LEMMA CtrFrames ==
  ASSUME TypeOK, NEW r \in Runners, CtrStep(r) \/ CtrWaitFails(r) \/ CtrCleanupFails(r) \/ CtrProvisionFails(r)
  PROVE  Frame(r)
<1>0. run \in [Runners -> Run] /\ DOMAIN procs = Ids /\ cluster \in Cluster /\ faults \in Nat
  BY RunnersAssumption DEF TypeOK, Cluster
<1>1. CASE \/ CtrMount(r) \/ CtrConnect(r) \/ CtrVersion(r) \/ CtrImage(r) \/ CtrChain(r) \/ CtrSnapshot(r) \/ CtrApply(r)
  <2>1. {} \in SUBSET MountDirs(r)
    OBVIOUS
  <2>. QED  BY <1>1, <2>1, SharedFrames DEF CtrMount, CtrConnect, CtrVersion, CtrImage, CtrChain, CtrSnapshot, CtrApply
<1>2. CASE CtrCreate(r) \/ CtrIoDir(r) \/ CtrStart(r)
  <2>1. \A s \in Runners \ {r} : run'[s] = run[s]
    BY <1>0, <1>2 DEF CtrCreate, CtrIoDir, CtrStart, Failing, Goto
  <2>2. /\ UNCHANGED <<kind, conf, cluster>> /\ faults' \in {faults, faults + 1}
        /\ objs' \subseteq objs \cup {<<r, run[r].try>>} /\ dirs' \subseteq dirs \cup {<<r, run[r].try, "io">>}
    BY <1>2 DEF CtrCreate, CtrIoDir, CtrStart, CtrRest, Failing, Id, IoDir
  <2>3. \A p \in Ids : p # Id(r) => procs'[p] = procs[p]
    BY <1>0, <1>2 DEF CtrCreate, CtrIoDir, CtrStart, Spawn
  <2>4. /\ \A p : p[1] # r /\ p \in objs' => p \in objs
        /\ \A d : d[1] # r /\ d \in dirs' => d \in dirs
    BY <2>2
  <2>. QED  BY <2>1, <2>2, <2>3, <2>4, FrameSimple
<1>3. CASE CtrWait(r) \/ CtrWaitFails(r) \/ CtrCleanupFails(r) \/ CtrTimeout(r)
  <2>1. \A s \in Runners \ {r} : run'[s] = run[s]
    BY <1>0, <1>3 DEF CtrWait, CtrWaitFails, CtrCleanupFails, CtrTimeout, Failing, Finish
  <2>2. UNCHANGED <<kind, conf, cluster, procs>> /\ faults' \in {faults, faults + 1} /\ objs' \subseteq objs /\ dirs' \subseteq dirs
    BY <1>3 DEF CtrWait, CtrWaitFails, CtrCleanupFails, CtrTimeout, Cleaned, CtrRest, Failing
  <2>. QED  BY <2>1, <2>2, FrameSimple
<1>4. CASE CtrProvision(r) \/ CtrTaken(r) \/ CtrProvisionFails(r) \/ CtrTeardown(r)
  <2>1. \A s \in Runners \ {r} : run'[s] = run[s]
    BY <1>0, <1>4 DEF CtrProvision, CtrTaken, CtrProvisionFails, CtrTeardown, Unprovisioned, Goto
  <2>2. UNCHANGED <<kind, conf, procs, dirs>> /\ faults' \in {faults, faults + 1} /\ objs' \subseteq objs \cup {<<r, 0>>}
    BY <1>4 DEF CtrProvision, CtrTaken, CtrProvisionFails, CtrTeardown, SvcRest
  <2>3. \A p : p[1] # r /\ p \in objs' => p \in objs
    BY <2>2
  <2>4. \E svcs : cluster' = [cluster EXCEPT !.svcs = svcs] /\ svcs \subseteq cluster.svcs \cup {r}
    <3>1. CASE UNCHANGED cluster
      <4>1. cluster' = [cluster EXCEPT !.svcs = cluster.svcs]
        BY <1>0, <3>1 DEF Cluster
      <4>. QED  BY <4>1
    <3>2. CASE ~UNCHANGED cluster
      BY <1>4, <3>2 DEF CtrProvision, CtrTaken, CtrProvisionFails, CtrTeardown
    <3>. QED  BY <3>1, <3>2
  <2>5. /\ cluster'.jobs = cluster.jobs /\ cluster'.doomed = cluster.doomed /\ cluster'.ns = cluster.ns
        /\ \A s \in Runners \ {r} : s \in cluster'.svcs => s \in cluster.svcs
    BY <1>0, <2>4 DEF Cluster
  <2>6. faults' = 0 => faults = 0
    BY <1>0, <2>2
  <2>. QED  BY <2>1, <2>2, <2>3, <2>5, <2>6 DEF Frame
<1>. QED  BY <1>1, <1>2, <1>3, <1>4 DEF CtrStep

LEMMA K8sFrames ==
  ASSUME TypeOK, NEW r \in Runners, K8sStep(r) \/ K8sFault(r) \/ K8sCopyOut(r)
  PROVE  Frame(r)
<1>0. run \in [Runners -> Run] /\ DOMAIN procs = Ids /\ cluster \in Cluster /\ faults \in Nat /\ Root \in Runners
  BY RunnersAssumption DEF TypeOK, Cluster
<1>1. CASE K8sMount(r) \/ K8sClient(r)
  <2>1. InDir(r) \in SUBSET MountDirs(r)
    BY DEF MountDirs
  <2>. QED  BY <1>1, <2>1, SharedFrames DEF K8sMount, K8sClient
<1>2. CASE \/ K8sCopyIn(r) \/ K8sFindPod(r) \/ K8sPodRunning(r) \/ K8sPodLost(r) \/ K8sComplete(r) \/ K8sTimeout(r)
           \/ K8sUnbound(r) \/ K8sCopyInFails(r) \/ K8sGivesUp(r) \/ K8sStreamBreaks(r) \/ K8sWatchFails(r) \/ K8sDeleteFails(r)
  <2>1. \A s \in Runners \ {r} : run'[s] = run[s]
    BY <1>0, <1>2 DEF K8sCopyIn, K8sFindPod, K8sPodRunning, K8sPodLost, K8sComplete, K8sTimeout,
                      K8sUnbound, K8sCopyInFails, K8sGivesUp, K8sStreamBreaks, K8sWatchFails, K8sDeleteFails, Failing, Goto
  <2>2. UNCHANGED <<kind, conf, cluster, procs, dirs, objs>> /\ faults' \in {faults, faults + 1}
    BY <1>2 DEF K8sCopyIn, K8sFindPod, K8sPodRunning, K8sPodLost, K8sComplete, K8sTimeout,
                K8sUnbound, K8sCopyInFails, K8sGivesUp, K8sStreamBreaks, K8sWatchFails, K8sDeleteFails, Failing, K8sRest
  <2>. QED  BY <2>1, <2>2, FrameSimple
<1>3. CASE K8sCopyOut(r)
  <2>1. \A s \in Runners \ {r} : run'[s] = run[s]
    BY <1>0, <1>3 DEF K8sCopyOut
  <2>2. UNCHANGED <<kind, conf, cluster, procs, objs, faults>> /\ dirs' \subseteq dirs \cup {<<r, run[r].try, "out">>}
    BY <1>3 DEF K8sCopyOut, K8sRest
  <2>3. \A d : d[1] # r /\ d \in dirs' => d \in dirs
    BY <2>2
  <2>. QED  BY <2>1, <2>2, <2>3, FrameSimple
<1>4. ASSUME \A s \in Runners \ {r} : run'[s] = run[s],
             UNCHANGED <<kind, conf, procs, dirs, objs>>, faults' \in {faults, faults + 1},
             cluster'.jobs \subseteq cluster.jobs \cup {Id(r)}, cluster.doomed \subseteq cluster'.doomed,
             cluster.jobs \subseteq cluster'.jobs \cup cluster'.doomed, cluster'.svcs \subseteq cluster.svcs \cup {r},
             \A s \in Runners \ {r} : cluster'.ns[s] = cluster.ns[s] \/ cluster.ns[s] = "absent"
      PROVE  Frame(r)
  <2>1. faults' = 0 => faults = 0
    BY <1>0, <1>4
  <2>. QED  BY <1>4, <2>1 DEF Frame
<1>5. ASSUME NEW n \in Runners, NEW pc, NEW next, NEW other, n = r \/ n = Root,
             \/ NamespaceGet(r, pc, n, next, other) \/ NamespaceCreate(r, pc, n, next) \/ NamespaceTaken(r, pc, n, other)
      PROVE  Frame(r)
  <2>1. \A s \in Runners \ {r} : run'[s] = run[s]
    BY <1>0, <1>5 DEF NamespaceGet, NamespaceCreate, NamespaceTaken, Goto
  <2>2. UNCHANGED <<kind, conf, procs, dirs, objs, faults>>
    BY <1>5 DEF NamespaceGet, NamespaceCreate, NamespaceTaken, K8sRest
  <2>3. cluster'.jobs = cluster.jobs /\ cluster'.doomed = cluster.doomed /\ cluster'.svcs = cluster.svcs
    BY <1>0, <1>5 DEF NamespaceGet, NamespaceCreate, NamespaceTaken, Cluster
  <2>4. \A s \in Runners : cluster'.ns[s] = cluster.ns[s] \/ cluster.ns[s] = "absent"
    BY <1>0, <1>5 DEF NamespaceGet, NamespaceCreate, NamespaceTaken, Cluster, Namespaces
  <2>. QED  BY <1>4, <2>1, <2>2, <2>3, <2>4
<1>6. CASE K8sNamespace(r) \/ K8sProvisionNs(r)
  BY <1>0, <1>5, <1>6 DEF K8sNamespace, K8sProvisionNs, StepNs, NsOf
<1>7. CASE K8sVolume(r) \/ K8sCreateJob(r) \/ K8sDelete(r)
  <2>1. \A s \in Runners \ {r} : run'[s] = run[s]
    BY <1>0, <1>7 DEF K8sVolume, K8sCreateJob, K8sDelete, Goto, Finish
  <2>2. UNCHANGED <<kind, conf, procs, dirs, objs, faults>>
    BY <1>7 DEF K8sVolume, K8sCreateJob, K8sDelete, K8sRest
  <2>3. cluster'.svcs = cluster.svcs /\ cluster'.ns = cluster.ns
    BY <1>0, <1>7 DEF K8sVolume, K8sCreateJob, K8sDelete, Cluster
  <2>4. /\ cluster'.jobs \subseteq cluster.jobs \cup {Id(r)} /\ cluster.doomed \subseteq cluster'.doomed
        /\ cluster.jobs \subseteq cluster'.jobs \cup cluster'.doomed
    <3>1. CASE K8sVolume(r)
      <4>1. cluster' = cluster \/ \E v, w : cluster' = [cluster EXCEPT !.vol = v, !.vols = w]
        BY <3>1 DEF K8sVolume
      <4>. QED  BY <1>0, <4>1 DEF Cluster
    <3>2. CASE K8sCreateJob(r)
      BY <1>0, <3>2 DEF K8sCreateJob, Cluster
    <3>3. CASE K8sDelete(r)
      BY <1>0, <3>3 DEF K8sDelete, Cluster
    <3>. QED  BY <1>7, <3>1, <3>2, <3>3
  <2>. QED  BY <1>4, <2>1, <2>2, <2>3, <2>4
<1>8. CASE K8sProvision(r) \/ K8sNotReady(r) \/ K8sTeardown(r)
  <2>1. \A s \in Runners \ {r} : run'[s] = run[s]
    BY <1>0, <1>8 DEF K8sProvision, K8sNotReady, K8sTeardown, Unprovisioned, Goto
  <2>2. UNCHANGED <<kind, conf, procs, dirs, objs>> /\ faults' \in {faults, faults + 1}
    BY <1>8 DEF K8sProvision, K8sNotReady, K8sTeardown, K8sRest
  <2>3. cluster'.svcs \subseteq cluster.svcs \cup {r} /\ cluster'.jobs = cluster.jobs /\ cluster'.doomed = cluster.doomed
    BY <1>0, <1>8 DEF K8sProvision, K8sNotReady, K8sTeardown, ServiceCreated, Cluster
  <2>4. \A s \in Runners \ {r} : cluster'.ns[s] = cluster.ns[s]
    BY <1>0, <1>8 DEF K8sProvision, K8sNotReady, K8sTeardown, ServiceCreated, Cluster, NsOf, Namespaces
  <2>. QED  BY <1>4, <2>1, <2>2, <2>3, <2>4
<1>. QED  BY <1>1, <1>2, <1>3, <1>6, <1>7, <1>8 DEF K8sStep, K8sFault

-----------------------------------------------------------------------------
(* Each action keeps the invariant of its runner.                          *)

\* The names of a try stay the same as long as the try does.
LEMMA SameTry ==
  ASSUME NEW r \in Runners, run'[r].try = run[r].try, kind' = kind, conf' = conf
  PROVE  Id(r)' = Id(r) /\ Stops(kind)' = Stops(kind) /\ Serviced(r)' = Serviced(r) /\ \A f : Has(f)' = Has(f)
BY DEF Id, Stops, Serviced, Has

\* Artifacts.
LEMMA MountKeeps ==
  ASSUME TypeOK, NEW r \in Runners, RunInv(r), NEW k, NEW new \in SUBSET MountDirs(r), Mounts(r, k, new) \/ MountsNot(r, k, new),
         k # "git"
  PROVE  RunInv(r)'
<1>0. /\ run[r] \in Run /\ run \in [Runners -> Run] /\ faults \in 0 .. MaxFaults /\ Id(r) \in Ids
      /\ run[r].try \in 1 .. MaxTries /\ kind = k
  BY Typed, RunnersAssumption DEF TypeOK, Mounts, MountsNot, At
<1>1. /\ run[r].pc = "idle" /\ run'[r].pc = "ready" /\ run'[r].try = run[r].try /\ run'[r].result = run[r].result
      /\ run'[r].timedout = run[r].timedout /\ run'[r].pod = run[r].pod
  BY <1>0 DEF Mounts, MountsNot, At, Goto, Run
<1>2. /\ dirs' \subseteq dirs \cup {<<r, run[r].try, "in">>, <<r, run[r].try, "base">>}
      /\ UNCHANGED <<kind, conf, procs, objs, cluster>> /\ (faults' = 0 => faults = 0)
      /\ <<r, run[r].try, "in">> \in dirs' => run'[r].mounted \/ run'[r].hit # "none"
      /\ run'[r].hit = run[r].hit \/ run'[r].hit # "none"
  BY <1>0, <1>1 DEF Mounts, MountsNot, InDir, MountDirs, Goto, Run, RunInv, LeftInv
<1>3. Id(r)' = Id(r) /\ Stops(kind)' = Stops(kind) /\ Serviced(r)' = Serviced(r)
  BY <1>1, <1>2, SameTry
<1>4. TryInv(r)'
  <2>1. \A t \in 1 .. MaxTries : t > run[r].try /\ Untouched(<<r, t>>) => Untouched(<<r, t>>)'
    BY <1>0, <1>2 DEF Untouched
  <2>. QED  BY <1>1, <1>2, <1>3, <2>1 DEF RunInv, TryInv, Over
<1>5. VerdictInv(r)'
  BY <1>0, <1>1, <1>2, <1>3 DEF RunInv, VerdictInv, After, Over, WithJob
<1>6. LeftInv(r)'
  BY <1>0, <1>1, <1>2, <1>3 DEF RunInv, LeftInv, WithJob, WithContainer, Provisioning
<1>7. StopInv(r)'
  BY <1>0, <1>1, <1>2, <1>3 DEF RunInv, StopInv, WithJob, After, Over
<1>8. ServiceInv(r)'
  BY <1>0, <1>1, <1>2, <1>3 DEF RunInv, ServiceInv, Provisioning
<1>. QED  BY <1>4, <1>5, <1>6, <1>7, <1>8 DEF RunInv

\* A body goes on between two points that set nothing up and take nothing down.
Plain == {"idle", "ready", "tool", "solve", "namespace", "create_ns", "volume", "job", "version", "image", "container"}
LEMMA GotoKeeps ==
  ASSUME TypeOK, NEW r \in Runners, RunInv(r), NEW pc, Goto(r, pc), UNCHANGED <<kind, conf, procs, dirs, objs, cluster>>,
         faults' = 0 => faults = 0,
         \/ run[r].pc \in Plain \ {"idle"} /\ pc \in Plain \ {"idle"}
         \/ kind = D /\ run[r].pc \in {"chain", "snapshot", "apply"} /\ pc \in {"snapshot", "apply", "io"}
         \/ kind = K /\ run[r].pc \in WithJob \ {"delete"} /\ pc \in WithJob \ {"delete"}
  PROVE  RunInv(r)'
<1>0. run[r] \in Run /\ run \in [Runners -> Run]
  BY DEF TypeOK
<1>1. /\ run'[r].pc = pc /\ run'[r].try = run[r].try /\ run'[r].result = run[r].result /\ run'[r].hit = run[r].hit
      /\ run'[r].timedout = run[r].timedout /\ run'[r].pod = run[r].pod /\ run'[r].mounted = run[r].mounted
  BY <1>0 DEF Goto, Run
<1>2. /\ Id(r)' = Id(r) /\ Stops(kind)' = Stops(kind) /\ Serviced(r)' = Serviced(r) /\ \A f : Has(f)' = Has(f)
  BY <1>1, SameTry
<1>3. \A p : Untouched(p) => Untouched(p)'
  BY DEF Untouched
<1>4. TryInv(r)'
  BY <1>1, <1>2, <1>3 DEF RunInv, TryInv, Over, Plain, WithJob, Provisioning, D
<1>5. VerdictInv(r)'
  BY <1>1, <1>2 DEF RunInv, VerdictInv, After, Over, Plain, WithJob, Provisioning, D, K
<1>6. LeftInv(r)'
  BY <1>1, <1>2 DEF RunInv, LeftInv, WithJob, WithContainer, Provisioning, Plain, D, K
<1>7. StopInv(r)'
  BY <1>1, <1>2 DEF RunInv, StopInv, WithJob, After, Over, Plain, Provisioning, D, K
<1>8. ServiceInv(r)'
  BY <1>1, <1>2 DEF RunInv, ServiceInv, Provisioning, Plain, WithJob
<1>. QED  BY <1>4, <1>5, <1>6, <1>7, <1>8 DEF RunInv

\* A body gives up or has its verdict, with nothing of its own left but its
\* directory, or a fault to blame.
LEMMA EndKeeps ==
  ASSUME TypeOK, NEW r \in Runners, RunInv(r), NEW new, run' = [run EXCEPT ![r] = new], new.pc = "unmount",
         new.try = run[r].try, new.mounted = run[r].mounted, new.pod = run[r].pod, new.timedout = run[r].timedout,
         new.hit = run[r].hit \/ new.hit # "none",
         UNCHANGED <<kind, conf, procs, cluster>>, objs' \subseteq objs, dirs' \subseteq dirs \cup {<<r, run[r].try, "io">>},
         faults' = 0 => faults = 0,
         new.result = "ok" => procs[Id(r)].code = "zero" \/ (kind = "git" /\ Has("inputs")),
         run[r].pc \notin After \cup WithJob \cup Provisioning \cup {"idle"},
         kind = "deno" /\ run[r].pc = "wait" => Ended(Id(r)),
         kind = D => \/ new.hit # "none"
                     \/ run[r].pc \in Plain /\ dirs' = dirs
                     \/ Id(r) \notin objs' /\ <<r, run[r].try, "io">> \notin dirs',
         kind # D => dirs' = dirs
  PROVE  RunInv(r)'
<1>0. run[r] \in Run /\ run \in [Runners -> Run] /\ run[r].try \in 1 .. MaxTries
  BY Typed DEF TypeOK
<1>1. /\ run'[r] = new /\ run'[r].pc = "unmount"
  BY <1>0
<1>2. /\ Id(r)' = Id(r) /\ Stops(kind)' = Stops(kind) /\ Serviced(r)' = Serviced(r) /\ \A f : Has(f)' = Has(f)
  BY <1>1, SameTry
<1>4. TryInv(r)'
  <2>1. \A t \in 1 .. MaxTries : t > run[r].try /\ Untouched(<<r, t>>) => Untouched(<<r, t>>)'
    BY <1>0 DEF Untouched
  <2>. QED  BY <1>1, <1>2, <2>1 DEF RunInv, TryInv, Over
<1>5. VerdictInv(r)'
  BY <1>1, <1>2 DEF RunInv, VerdictInv, After, Over
<1>6. LeftInv(r)'
  BY <1>1, <1>2 DEF RunInv, LeftInv, WithJob, WithContainer, Provisioning, Plain, Id
<1>7. StopInv(r)'
  BY <1>1, <1>2 DEF RunInv, StopInv, WithJob, After, Over, Ended, K
<1>8. ServiceInv(r)'
  BY <1>1, <1>2 DEF RunInv, ServiceInv, Provisioning, After, Over
<1>. QED  BY <1>4, <1>5, <1>6, <1>7, <1>8 DEF RunInv

LEMMA FailKeeps ==
  ASSUME TypeOK, NEW r \in Runners, RunInv(r), NEW hit, Failing(r, hit),
         UNCHANGED <<kind, conf, procs, cluster>>, objs' \subseteq objs, dirs' \subseteq dirs \cup {<<r, run[r].try, "io">>},
         run[r].pc \notin After \cup WithJob \cup Provisioning \cup {"idle"},
         kind = "deno" => run[r].pc # "wait",
         kind = D => \/ hit # "none"
                     \/ run[r].pc \in Plain /\ dirs' = dirs
                     \/ Id(r) \notin objs' /\ <<r, run[r].try, "io">> \notin dirs',
         kind # D => dirs' = dirs
  PROVE  RunInv(r)'
<1>0. run[r] \in Run /\ run \in [Runners -> Run] /\ faults \in Nat
  BY RunnersAssumption DEF TypeOK
<1>. DEFINE new == [run[r] EXCEPT !.pc = "unmount", !.result = "failed", !.hit = IF hit = "none" THEN @ ELSE hit]
<1>1. /\ run' = [run EXCEPT ![r] = new] /\ new.pc = "unmount" /\ new.result = "failed"
      /\ new.try = run[r].try /\ new.mounted = run[r].mounted /\ new.pod = run[r].pod /\ new.timedout = run[r].timedout
      /\ new.hit = run[r].hit \/ new.hit # "none"
      /\ hit # "none" => new.hit # "none"
  BY <1>0 DEF Failing, Run
<1>2. faults' = 0 => faults = 0
  BY <1>0 DEF Failing
<1>. HIDE DEF new
<1>3. kind = D => \/ new.hit # "none"
                  \/ run[r].pc \in Plain /\ dirs' = dirs
                  \/ Id(r) \notin objs' /\ <<r, run[r].try, "io">> \notin dirs'
  BY <1>1
<1>. QED  BY <1>1, <1>2, <1>3, EndKeeps

LEMMA FinishKeeps ==
  ASSUME TypeOK, NEW r \in Runners, RunInv(r), NEW res, Finish(r, res),
         UNCHANGED <<kind, conf, procs, cluster, faults>>, objs' \subseteq objs, dirs' \subseteq dirs,
         res = "ok" => procs[Id(r)].code = "zero" \/ (kind = "git" /\ Has("inputs")),
         run[r].pc \notin After \cup WithJob \cup Provisioning \cup {"idle"},
         kind = "deno" /\ run[r].pc = "wait" => Ended(Id(r)),
         kind = D => Id(r) \notin objs' /\ <<r, run[r].try, "io">> \notin dirs',
         kind # D => dirs' = dirs
  PROVE  RunInv(r)'
<1>0. run[r] \in Run /\ run \in [Runners -> Run]
  BY DEF TypeOK
<1>. DEFINE new == [run[r] EXCEPT !.pc = "unmount", !.result = res]
<1>1. /\ run' = [run EXCEPT ![r] = new] /\ new.pc = "unmount" /\ new.result = res /\ new.hit = run[r].hit
      /\ new.try = run[r].try /\ new.mounted = run[r].mounted /\ new.pod = run[r].pod /\ new.timedout = run[r].timedout
  BY <1>0 DEF Finish, Run
<1>. HIDE DEF new
<1>. QED  BY <1>1, EndKeeps

LEMMA CallKeeps ==
  ASSUME TypeOK, NEW r \in Runners, RunInv(r), NEW k, NEW pc, NEW next, NEW hit, Calls(r, k, pc, next, hit),
         \/ pc \in Plain \ {"idle"} /\ next \in Plain \ {"idle"}
         \/ k = D /\ pc \in {"chain", "snapshot", "apply"} /\ next \in {"snapshot", "apply", "io"} /\ hit # "none"
  PROVE  RunInv(r)'
<1>0. kind = k /\ run[r].pc = pc /\ UNCHANGED <<kind, conf, procs, dirs, objs, cluster>>
  BY DEF Calls, At
<1>1. CASE Goto(r, next) /\ UNCHANGED faults
  BY <1>0, <1>1, GotoKeeps
<1>2. CASE Failing(r, hit)
  <2>1. run[r].pc \notin After \cup WithJob \cup Provisioning \cup {"idle"}
    BY <1>0 DEF After, Over, WithJob, Provisioning, Plain
  <2>2. kind = D => hit # "none" \/ (run[r].pc \in Plain /\ dirs' = dirs)
    BY <1>0
  <2>3. run[r].pc # "wait"
    BY <1>0 DEF Plain
  <2>. QED  BY <1>0, <1>2, <2>1, <2>2, <2>3, FailKeeps
<1>. QED  BY <1>1, <1>2 DEF Calls

\* A process is started: it is the first one of this try.
LEMMA SpawnKeeps ==
  ASSUME TypeOK, NEW r \in Runners, RunInv(r), Spawn(Id(r)), Goto(r, "wait"),
         UNCHANGED <<kind, conf, dirs, objs, cluster, faults>>,
         kind \notin {K, "git"}, run[r].pc \in Plain \ {"idle"} \/ (kind = D /\ run[r].pc = "task")
  PROVE  RunInv(r)'
<1>0. /\ run[r] \in Run /\ run \in [Runners -> Run] /\ Id(r) \in Ids /\ DOMAIN procs = Ids
      /\ run[r].try \in 1 .. MaxTries
  BY Typed DEF TypeOK
<1>1. /\ run'[r].pc = "wait" /\ run'[r].try = run[r].try /\ run'[r].result = run[r].result /\ run'[r].hit = run[r].hit
      /\ run'[r].timedout = run[r].timedout /\ run'[r].pod = run[r].pod /\ run'[r].mounted = run[r].mounted
  BY <1>0 DEF Goto, Run
<1>2. /\ Id(r)' = Id(r) /\ Stops(kind)' = Stops(kind) /\ Serviced(r)' = Serviced(r) /\ \A f : Has(f)' = Has(f)
  BY <1>1, SameTry
<1>3. procs'[Id(r)].up = "running" /\ procs'[Id(r)].code = procs[Id(r)].code /\ \A p \in Ids \ {Id(r)} : procs'[p] = procs[p]
  BY <1>0 DEF Spawn, TypeOK
<1>4. TryInv(r)'
  <2>1. \A t \in 1 .. MaxTries : t > run[r].try /\ Untouched(<<r, t>>) => Untouched(<<r, t>>)'
    <3>. SUFFICES ASSUME NEW t \in 1 .. MaxTries, t > run[r].try, Untouched(<<r, t>>)  PROVE Untouched(<<r, t>>)'
      OBVIOUS
    <3>1. <<r, t>> \in Ids /\ <<r, t>> # Id(r)
      BY <1>0 DEF Ids, Id
    <3>. QED  BY <1>3, <3>1 DEF Untouched
  <2>. QED  BY <1>1, <1>2, <1>3, <2>1 DEF RunInv, TryInv, Over
<1>5. VerdictInv(r)'
  BY <1>1, <1>2, <1>3 DEF RunInv, VerdictInv, After, Over, Plain
<1>6. LeftInv(r)'
  BY <1>1, <1>2 DEF RunInv, LeftInv, WithJob, WithContainer, Provisioning, Plain
<1>7. StopInv(r)'
  BY <1>1, <1>2 DEF RunInv, StopInv, WithJob, After, Over, Plain
<1>8. ServiceInv(r)'
  BY <1>1, <1>2 DEF RunInv, ServiceInv, Provisioning, Plain
<1>. QED  BY <1>4, <1>5, <1>6, <1>7, <1>8 DEF RunInv

\* A timeout at the wait: the kinds that claim to stop the process do.
LEMMA TimeoutKeeps ==
  ASSUME TypeOK, NEW r \in Runners, RunInv(r), run[r].pc = "wait", kind \notin {K, "git", "deno"},
         run' = [run EXCEPT ![r].pc = "unmount", ![r].result = "failed", ![r].timedout = TRUE],
         UNCHANGED <<kind, conf, cluster, faults>>, objs' \subseteq objs, dirs' \subseteq dirs,
         kind = D => Id(r) \notin objs' /\ <<r, run[r].try, "io">> \notin dirs',
         \/ ~Stops(kind) /\ procs' = procs
         \/ kind = "shell" /\ \E left \in {"gone", "orphaned"} : Killed(Id(r), left)
  PROVE  RunInv(r)'
<1>0. /\ run[r] \in Run /\ run \in [Runners -> Run] /\ Id(r) \in Ids /\ DOMAIN procs = Ids
      /\ run[r].try \in 1 .. MaxTries
  BY Typed DEF TypeOK
<1>1. /\ run'[r].pc = "unmount" /\ run'[r].try = run[r].try /\ run'[r].result = "failed" /\ run'[r].hit = run[r].hit
      /\ run'[r].timedout = TRUE /\ run'[r].pod = run[r].pod /\ run'[r].mounted = run[r].mounted
  BY <1>0 DEF Run
<1>2. /\ Id(r)' = Id(r) /\ Stops(kind)' = Stops(kind) /\ Serviced(r)' = Serviced(r) /\ \A f : Has(f)' = Has(f)
  BY <1>1, SameTry
<1>3. /\ \A p \in Ids \ {Id(r)} : procs'[p] = procs[p]
      /\ Stops(kind) => kind = "shell" /\ procs'[Id(r)].up \in {"orphaned", "ended", "gone"}
  <2>1. kind = "shell" => procs[Id(r)].up \in {"running", "ended", "gone"}
    BY DEF RunInv, TryInv, Over, K
  <2>. QED  BY <1>0, <2>1 DEF Killed, TypeOK
<1>4. TryInv(r)'
  <2>1. \A t \in 1 .. MaxTries : t > run[r].try /\ Untouched(<<r, t>>) => Untouched(<<r, t>>)'
    <3>. SUFFICES ASSUME NEW t \in 1 .. MaxTries, t > run[r].try, Untouched(<<r, t>>)  PROVE Untouched(<<r, t>>)'
      OBVIOUS
    <3>1. <<r, t>> \in Ids /\ <<r, t>> # Id(r)
      BY <1>0 DEF Ids, Id
    <3>. QED  BY <1>3, <3>1 DEF Untouched
  <2>. QED  BY <1>1, <1>2, <1>3, <2>1 DEF RunInv, TryInv, Over
<1>5. VerdictInv(r)'
  BY <1>1, <1>2 DEF RunInv, VerdictInv, After, Over
<1>6. LeftInv(r)'
  BY <1>1, <1>2 DEF RunInv, LeftInv, WithJob, WithContainer, Provisioning
<1>7. StopInv(r)'
  BY <1>1, <1>2, <1>3 DEF RunInv, StopInv, WithJob, After, Over
<1>8. ServiceInv(r)'
  BY <1>1, <1>2 DEF RunInv, ServiceInv, Provisioning
<1>. QED  BY <1>4, <1>5, <1>6, <1>7, <1>8 DEF RunInv

LEMMA LocalKeeps ==
  ASSUME TypeOK, NEW r \in Runners, RunInv(r), LocalStep(r) \/ CargoPagesFail(r)
  PROVE  RunInv(r)'
<1>0. /\ K \notin LocalKinds /\ D \notin LocalKinds
      /\ \A pc \in {"ready", "tool", "solve"} : pc \in Plain \ {"idle"}
      /\ \A pc \in {"ready", "tool", "solve", "wait"} : pc \notin After \cup WithJob \cup Provisioning \cup {"idle"}
  BY DEF K, D, LocalKinds, Plain, After, Over, WithJob, Provisioning
<1>1. ASSUME NEW k \in {"shell", "buildkit"}, Mounts(r, k, MountDirs(r)) \/ MountsNot(r, k, MountDirs(r))  PROVE RunInv(r)'
  BY <1>1, MountKeeps
<1>2. ASSUME NEW next \in {"tool", "solve"}, NEW k \in {"cargo", "buildkit"}, Calls(r, k, "ready", next, "none")  PROVE RunInv(r)'
  BY <1>0, <1>2, CallKeeps
<1>3. ASSUME NEW k \in LocalKinds \ {"git"}, NEW pc \in {"ready", "tool", "solve"}, Starts(r, k, pc)  PROVE RunInv(r)'
  <2>1. kind = k /\ run[r].pc = pc /\ UNCHANGED <<kind, conf, dirs, objs, cluster>>
    BY <1>3 DEF Starts, At, LocalRest
  <2>2. CASE Spawn(Id(r)) /\ Goto(r, "wait") /\ UNCHANGED faults
    BY <1>0, <2>1, <2>2, SpawnKeeps
  <2>3. CASE Failing(r, "none") /\ UNCHANGED procs
    BY <1>0, <2>1, <2>3, FailKeeps
  <2>. QED  BY <1>3, <2>2, <2>3 DEF Starts
<1>4. ASSUME NEW k \in LocalKinds, Returns(r, k)  PROVE RunInv(r)'
  <2>1. kind = k /\ run[r].pc = "wait" /\ UNCHANGED <<kind, conf, procs, dirs, objs, cluster, faults>> /\ Finish(r, Verdict(Id(r)))
    BY <1>4 DEF Returns, Waiting, At, LocalRest
  <2>2. Verdict(Id(r)) = "ok" => procs[Id(r)].code = "zero"
    BY DEF Verdict
  <2>3. Ended(Id(r))
    BY <1>4 DEF Returns
  <2>. QED  BY <1>0, <2>1, <2>2, <2>3, FinishKeeps
<1>9. CASE DenoTimeout(r)
  <2>0. /\ run[r] \in Run /\ run \in [Runners -> Run] /\ Id(r) \in Ids /\ DOMAIN procs = Ids
        /\ run[r].try \in 1 .. MaxTries
    BY Typed DEF TypeOK
  <2>1. /\ kind = "deno" /\ kind # K /\ kind # D /\ run[r].pc = "wait" /\ UNCHANGED <<kind, conf, dirs, objs, cluster, faults>>
        /\ Killed(Id(r), "gone")
    BY <1>9 DEF DenoTimeout, Waiting, At, LocalRest, K, D
  <2>2. /\ run'[r].pc = "wait" /\ run'[r].try = run[r].try /\ run'[r].result = run[r].result /\ run'[r].hit = run[r].hit
        /\ run'[r].timedout = TRUE /\ run'[r].pod = run[r].pod /\ run'[r].mounted = run[r].mounted
    BY <1>9, <2>0, <2>1 DEF DenoTimeout, Run
  <2>3. /\ Id(r)' = Id(r) /\ Stops(kind)' = Stops(kind) /\ Serviced(r)' = Serviced(r) /\ \A f : Has(f)' = Has(f)
    BY <2>1, <2>2, SameTry
  <2>4. /\ \A p \in Ids \ {Id(r)} : procs'[p] = procs[p]
        /\ procs'[Id(r)].up \in {"awaiting", "ended", "gone"} /\ procs'[Id(r)].code = procs[Id(r)].code
    <3>1. procs[Id(r)].up \in {"running", "awaiting", "ended", "gone"}
      BY <2>1 DEF RunInv, TryInv, Over
    <3>. QED  BY <2>0, <2>1, <3>1 DEF Killed, TypeOK
  <2>5. TryInv(r)'
    <3>1. \A t \in 1 .. MaxTries : t > run[r].try /\ Untouched(<<r, t>>) => Untouched(<<r, t>>)'
      <4>. SUFFICES ASSUME NEW t \in 1 .. MaxTries, t > run[r].try, Untouched(<<r, t>>)  PROVE Untouched(<<r, t>>)'
        OBVIOUS
      <4>1. <<r, t>> \in Ids /\ <<r, t>> # Id(r)
        BY <2>0 DEF Ids, Id
      <4>. QED  BY <2>1, <2>4, <4>1 DEF Untouched
    <3>. QED  BY <2>1, <2>2, <2>3, <2>4, <3>1 DEF RunInv, TryInv, Over
  <2>6. VerdictInv(r)'
    BY <2>1, <2>2, <2>3, <2>4 DEF RunInv, VerdictInv
  <2>7. LeftInv(r)'
    BY <2>1, <2>2, <2>3 DEF RunInv, LeftInv
  <2>8. StopInv(r)'
    BY <2>1, <2>2, <2>3, <2>4 DEF RunInv, StopInv
  <2>9. ServiceInv(r)'
    BY <2>1, <2>2, <2>3 DEF RunInv, ServiceInv
  <2>. QED  BY <2>5, <2>6, <2>7, <2>8, <2>9 DEF RunInv
<1>5. ASSUME NEW k \in {"shell", "cargo", "rustup", "buildkit"}, Waiting(r, k), TimedOut(r),
             (~Stops(kind) /\ UNCHANGED procs) \/ (k = "shell" /\ \E left \in {"gone", "orphaned"} : Killed(Id(r), left))
      PROVE  RunInv(r)'
  <2>1. kind = k /\ run[r].pc = "wait" /\ UNCHANGED <<kind, conf, dirs, objs, cluster, faults>>
    BY <1>5 DEF Waiting, At, LocalRest
  <2>2. kind \notin {K, D, "git", "deno"}
    BY <2>1 DEF K, D
  <2>. QED  BY <1>5, <2>1, <2>2, TimeoutKeeps DEF TimedOut
<1>6. CASE CargoPagesFail(r)
  <2>1. kind = "cargo" /\ run[r].pc = "wait" /\ UNCHANGED <<kind, conf, procs, dirs, objs, cluster>> /\ Failing(r, "none")
    BY <1>6 DEF CargoPagesFail, At, LocalRest
  <2>2. kind # D
    BY <2>1 DEF D
  <2>. QED  BY <1>0, <2>1, <2>2, FailKeeps
<1>7. CASE GitOverride(r) \/ GitStore(r)
  <2>1. /\ kind = "git" /\ run[r].pc \in {"ready", "wait"} /\ UNCHANGED <<kind, conf, procs, dirs, objs, cluster>>
        /\ (Finish(r, "ok") /\ UNCHANGED faults) \/ \E hit : Failing(r, hit)
        /\ run[r].pc = "wait" \/ run[r].mounted
    BY <1>7 DEF GitOverride, GitStore, At, LocalRest
  <2>2. kind # D
    BY <2>1 DEF D
  <2>3. procs[Id(r)].code = "zero" \/ (kind = "git" /\ Has("inputs"))
    BY <2>1 DEF RunInv, VerdictInv
  <2>4. CASE Finish(r, "ok") /\ UNCHANGED faults
    BY <1>0, <2>1, <2>2, <2>3, <2>4, FinishKeeps
  <2>5. CASE \E hit : Failing(r, hit)
    BY <1>0, <2>1, <2>2, <2>5, FailKeeps
  <2>. QED  BY <2>1, <2>4, <2>5
<1>8. CASE GitClone(r)
  <2>1. kind = "git" /\ run[r].pc = "ready" /\ UNCHANGED <<kind, conf, dirs, cluster>>
    BY <1>8 DEF GitClone, At, LocalRest
  <2>2. kind # D /\ kind # K
    BY <2>1 DEF D, K
  <2>3. CASE Finish(r, "failed") /\ UNCHANGED <<procs, objs, faults>>
    BY <1>0, <2>1, <2>2, <2>3, FinishKeeps
  <2>4. CASE Failing(r, "none") /\ UNCHANGED <<procs, objs>>
    BY <1>0, <2>1, <2>2, <2>4, FailKeeps
  <2>5. CASE /\ objs' = objs \cup {Id(r)} /\ Goto(r, "wait")
             /\ procs' = [procs EXCEPT ![Id(r)].up = "ended", ![Id(r)].code = "zero"]
             /\ UNCHANGED faults
    <3>0. /\ run[r] \in Run /\ run \in [Runners -> Run] /\ Id(r) \in Ids /\ DOMAIN procs = Ids
          /\ run[r].try \in 1 .. MaxTries
      BY Typed DEF TypeOK
    <3>1. /\ run'[r].pc = "wait" /\ run'[r].try = run[r].try /\ run'[r].result = run[r].result /\ run'[r].hit = run[r].hit
          /\ run'[r].timedout = run[r].timedout /\ run'[r].pod = run[r].pod /\ run'[r].mounted = run[r].mounted
      BY <2>5, <3>0 DEF Goto, Run
    <3>2. /\ Id(r)' = Id(r) /\ Stops(kind)' = Stops(kind) /\ Serviced(r)' = Serviced(r) /\ \A f : Has(f)' = Has(f)
      BY <2>1, <3>1, SameTry
    <3>3. procs'[Id(r)].up = "ended" /\ procs'[Id(r)].code = "zero" /\ \A p \in Ids \ {Id(r)} : procs'[p] = procs[p]
      BY <2>5, <3>0 DEF TypeOK
    <3>4. \A t \in 1 .. MaxTries : t > run[r].try /\ Untouched(<<r, t>>) => Untouched(<<r, t>>)'
      <4>. SUFFICES ASSUME NEW t \in 1 .. MaxTries, t > run[r].try, Untouched(<<r, t>>)  PROVE Untouched(<<r, t>>)'
        OBVIOUS
      <4>1. <<r, t>> \in Ids /\ <<r, t>> # Id(r)
        BY <3>0 DEF Ids, Id
      <4>. QED  BY <2>1, <2>5, <3>3, <4>1 DEF Untouched
    <3>5. <<r, 0>> # Id(r)
      BY <3>0 DEF Id
    <3>6. TryInv(r)'
      BY <2>1, <3>1, <3>2, <3>3, <3>4 DEF RunInv, TryInv, Over
    <3>7. VerdictInv(r)'
      BY <2>1, <2>2, <3>1, <3>2, <3>3 DEF RunInv, VerdictInv, After, Over, WithJob
    <3>8. LeftInv(r)'
      BY <2>1, <2>2, <3>1, <3>2 DEF RunInv, LeftInv, WithJob, Provisioning
    <3>9. StopInv(r)'
      BY <2>1, <2>2, <3>1, <3>2, <3>3 DEF RunInv, StopInv, WithJob, After, Over
    <3>10. ServiceInv(r)'
      BY <2>1, <2>5, <3>1, <3>2, <3>5 DEF RunInv, ServiceInv, Provisioning
    <3>. QED  BY <3>6, <3>7, <3>8, <3>9, <3>10 DEF RunInv
  <2>. QED  BY <1>8, <2>3, <2>4, <2>5 DEF GitClone
<1>. QED  BY <1>1, <1>2, <1>3, <1>4, <1>5, <1>6, <1>7, <1>8, <1>9, LocalShapes DEF LocalShape, DropsLocal, KillsLocal

LEMMA ExecutorKeeps ==
  ASSUME TypeOK, NEW r \in Runners, RunInv(r), NoMount(r) \/ Unmount(r) \/ Again(r)
  PROVE  RunInv(r)'
<1>0. /\ run[r] \in Run /\ run \in [Runners -> Run] /\ Id(r) \in Ids /\ run[r].try \in 1 .. MaxTries
      /\ MaxTries \in Nat
  BY Typed, RunnersAssumption DEF TypeOK
<1>1. CASE NoMount(r)
  <2>1. /\ run[r].pc = "idle" /\ run'[r].pc = "ready" /\ run'[r].try = run[r].try /\ run'[r].result = run[r].result
        /\ run'[r].timedout = run[r].timedout /\ run'[r].pod = run[r].pod /\ run'[r].hit = run[r].hit
        /\ run'[r].mounted = Has("inputs")
        /\ UNCHANGED <<kind, conf, procs, objs, dirs, cluster, faults>> /\ kind \notin {K, D}
    BY <1>0, <1>1 DEF NoMount, Run, K, D
  <2>2. /\ Id(r)' = Id(r) /\ Stops(kind)' = Stops(kind) /\ Serviced(r)' = Serviced(r) /\ \A f : Has(f)' = Has(f)
    BY <2>1, SameTry
  <2>3. TryInv(r)'
    <3>1. \A p : Untouched(p) => Untouched(p)'
      BY <2>1 DEF Untouched
    <3>. QED  BY <2>1, <2>2, <3>1 DEF RunInv, TryInv, Over
  <2>4. VerdictInv(r)'
    BY <2>1, <2>2 DEF RunInv, VerdictInv, After, Over
  <2>5. LeftInv(r)'
    BY <2>1, <2>2 DEF RunInv, LeftInv, WithJob, WithContainer, Provisioning
  <2>6. StopInv(r)'
    BY <2>1, <2>2 DEF RunInv, StopInv, WithJob, After, Over
  <2>7. ServiceInv(r)'
    BY <2>1, <2>2 DEF RunInv, ServiceInv, Provisioning
  <2>. QED  BY <2>3, <2>4, <2>5, <2>6, <2>7 DEF RunInv
<1>2. CASE Unmount(r)
  <2>1. /\ run[r].pc = "unmount" /\ run'[r].pc = (IF Serviced(r) THEN "teardown" ELSE "done")
        /\ run'[r].try = run[r].try /\ run'[r].result = run[r].result
        /\ run'[r].timedout = run[r].timedout /\ run'[r].pod = run[r].pod /\ run'[r].hit = run[r].hit
        /\ run'[r].mounted = FALSE
        /\ UNCHANGED <<kind, conf, procs, objs, cluster, faults>>
    BY <1>0, <1>2 DEF Unmount, Run
  <2>2. dirs' \subseteq dirs /\ (run[r].mounted => <<r, run[r].try, "in">> \notin dirs')
    BY <1>2 DEF Unmount, InDir
  <2>3. /\ Id(r)' = Id(r) /\ Stops(kind)' = Stops(kind) /\ Serviced(r)' = Serviced(r) /\ \A f : Has(f)' = Has(f)
    BY <2>1, SameTry
  <2>4. TryInv(r)'
    <3>1. \A p : Untouched(p) => Untouched(p)'
      BY <2>1, <2>2 DEF Untouched
    <3>. QED  BY <2>1, <2>3, <3>1 DEF RunInv, TryInv, Over
  <2>5. VerdictInv(r)'
    BY <2>1, <2>3 DEF RunInv, VerdictInv, After, Over
  <2>6. LeftInv(r)'
    BY <2>1, <2>2, <2>3 DEF RunInv, LeftInv, WithJob, WithContainer, Provisioning
  <2>7. StopInv(r)'
    BY <2>1, <2>3 DEF RunInv, StopInv, WithJob, After, Over
  <2>8. ServiceInv(r)'
    BY <2>1, <2>3 DEF RunInv, ServiceInv, Provisioning
  <2>. QED  BY <2>4, <2>5, <2>6, <2>7, <2>8 DEF RunInv
<1>3. CASE Again(r)
  <2>0. run[r].try + 1 \in 1 .. MaxTries
    BY <1>0, <1>3 DEF Again, Tries
  <2>1. /\ run[r].pc = "done" /\ run'[r].pc = Entry(r) /\ run'[r].try = run[r].try + 1 /\ run'[r].result = "none"
        /\ run'[r].timedout = FALSE /\ run'[r].hit = "none" /\ run'[r].mounted = FALSE
        /\ UNCHANGED <<kind, conf, procs, objs, dirs, cluster, faults>>
    BY <1>0, <1>3 DEF Again
  <2>2. Entry(r) = (IF Serviced(r) THEN "begin" ELSE "idle") /\ Serviced(r)' = Serviced(r)
    BY <2>1 DEF Entry, Serviced, Has
  <2>3. Id(r)' = <<r, run[r].try + 1>> /\ Id(r)' \in Ids
    BY <2>0, <2>1 DEF Id, Ids
  <2>4. \A t \in 1 .. MaxTries : t > run[r].try => Untouched(<<r, t>>) /\ Untouched(<<r, t>>)'
    BY <2>1 DEF Untouched, RunInv, TryInv
  <2>5. Untouched(<<r, run[r].try + 1>>)
    BY <1>0, <2>0, <2>4
  <2>6. /\ procs[Id(r)'].up = "no" /\ Id(r)' \notin cluster.jobs /\ Id(r)' \notin objs
        /\ <<r, run[r].try + 1, "in">> \notin dirs /\ <<r, run[r].try + 1, "io">> \notin dirs
    BY <2>3, <2>5 DEF Untouched
  <2>7. TryInv(r)'
    <3>1. \A t \in 1 .. MaxTries : t > run'[r].try => Untouched(<<r, t>>)'
      BY <1>0, <2>1, <2>4
    <3>. QED  BY <2>1, <2>2, <2>6, <3>1 DEF TryInv, Over
  <2>8. VerdictInv(r)'
    BY <2>1, <2>2 DEF VerdictInv
  <2>9. LeftInv(r)'
    BY <2>1, <2>2, <2>6 DEF LeftInv
  <2>10. StopInv(r)'
    BY <2>1, <2>2 DEF StopInv, WithJob
  <2>11. ServiceInv(r)'
    BY <2>1, <2>2 DEF RunInv, ServiceInv, Provisioning
  <2>. QED  BY <2>7, <2>8, <2>9, <2>10, <2>11 DEF RunInv
<1>. QED  BY <1>1, <1>2, <1>3

LEMMA CtrKeeps ==
  ASSUME TypeOK, NEW r \in Runners, RunInv(r), CtrStep(r) \/ CtrWaitFails(r) \/ CtrCleanupFails(r) \/ CtrProvisionFails(r)
  PROVE  RunInv(r)'
<1>0. /\ run[r] \in Run /\ run \in [Runners -> Run] /\ Id(r) \in Ids /\ run[r].try \in 1 .. MaxTries
      /\ faults \in Nat /\ <<r, 0>> # Id(r) /\ D # K /\ D \notin {"git", "deno"} /\ cluster \in Cluster
  BY Typed, RunnersAssumption DEF TypeOK, Id, D, K, Cluster
<1>1. \A pc \in {"ready", "version", "image", "container"} : pc \in Plain \ {"idle"}
  BY DEF Plain
<1>2. \A pc \in {"container", "io", "task", "wait"} : pc \notin After \cup WithJob \cup Provisioning \cup {"idle"}
  BY DEF After, Over, WithJob, Provisioning
<1>3. CASE CtrMount(r)
  <2>1. {} \in SUBSET MountDirs(r)
    OBVIOUS
  <2>. QED  BY <1>0, <1>3, <2>1, MountKeeps DEF CtrMount
<1>4. CASE CtrConnect(r) \/ CtrVersion(r) \/ CtrImage(r)
  BY <1>1, <1>4, CallKeeps DEF CtrConnect, CtrVersion, CtrImage
<1>5. CASE CtrChain(r) \/ CtrSnapshot(r) \/ CtrApply(r)
  <2>1. (IF run[r].mounted THEN "apply" ELSE "io") \in {"snapshot", "apply", "io"}
    OBVIOUS
  <2>. QED  BY <1>5, <2>1, CallKeeps DEF CtrChain, CtrSnapshot, CtrApply
<1>6. CASE CtrCreate(r)
  <2>1. kind = D /\ run[r].pc = "container" /\ UNCHANGED <<kind, conf, procs, dirs, cluster>>
    BY <1>6 DEF CtrCreate, CtrAt, At, CtrRest
  <2>2. CASE Failing(r, "setup") /\ UNCHANGED objs
    BY <1>0, <1>2, <2>1, <2>2, FailKeeps
  <2>3. CASE objs' = objs \cup {Id(r)} /\ Goto(r, "chain") /\ UNCHANGED faults
    <3>1. /\ run'[r].pc = "chain" /\ run'[r].try = run[r].try /\ run'[r].result = run[r].result /\ run'[r].hit = run[r].hit
          /\ run'[r].timedout = run[r].timedout /\ run'[r].pod = run[r].pod /\ run'[r].mounted = run[r].mounted
      BY <1>0, <2>3 DEF Goto, Run
    <3>2. /\ Id(r)' = Id(r) /\ Stops(kind)' = Stops(kind) /\ Serviced(r)' = Serviced(r) /\ \A f : Has(f)' = Has(f)
      BY <2>1, <3>1, SameTry
    <3>3. TryInv(r)'
      <4>1. \A t \in 1 .. MaxTries : t > run[r].try /\ Untouched(<<r, t>>) => Untouched(<<r, t>>)'
        BY <1>0, <2>1, <2>3 DEF Untouched, Id
      <4>. QED  BY <2>1, <3>1, <3>2, <4>1 DEF RunInv, TryInv, Over
    <3>4. VerdictInv(r)'
      BY <1>0, <2>1, <3>1, <3>2 DEF RunInv, VerdictInv, After, Over
    <3>5. LeftInv(r)'
      BY <1>0, <2>1, <3>1, <3>2 DEF RunInv, LeftInv, WithJob, WithContainer, Provisioning
    <3>6. StopInv(r)'
      BY <1>0, <2>1, <3>1, <3>2 DEF RunInv, StopInv, After, Over
    <3>7. ServiceInv(r)'
      BY <1>0, <2>1, <2>3, <3>1, <3>2 DEF RunInv, ServiceInv, Provisioning
    <3>. QED  BY <3>3, <3>4, <3>5, <3>6, <3>7 DEF RunInv
  <2>. QED  BY <1>6, <2>2, <2>3 DEF CtrCreate
<1>7. CASE CtrIoDir(r)
  <2>1. kind = D /\ run[r].pc = "io" /\ UNCHANGED <<kind, conf, procs, objs, cluster>> /\ dirs' = dirs \cup {<<r, run[r].try, "io">>}
    BY <1>7 DEF CtrIoDir, CtrAt, At, CtrRest, IoDir
  <2>2. CASE Failing(r, "setup")
    BY <1>0, <1>2, <2>1, <2>2, FailKeeps
  <2>3. CASE Goto(r, "task") /\ UNCHANGED faults
    <3>1. /\ run'[r].pc = "task" /\ run'[r].try = run[r].try /\ run'[r].result = run[r].result /\ run'[r].hit = run[r].hit
          /\ run'[r].timedout = run[r].timedout /\ run'[r].pod = run[r].pod /\ run'[r].mounted = run[r].mounted
      BY <1>0, <2>3 DEF Goto, Run
    <3>2. /\ Id(r)' = Id(r) /\ Stops(kind)' = Stops(kind) /\ Serviced(r)' = Serviced(r) /\ \A f : Has(f)' = Has(f)
      BY <2>1, <3>1, SameTry
    <3>3. TryInv(r)'
      <4>1. \A t \in 1 .. MaxTries : t > run[r].try /\ Untouched(<<r, t>>) => Untouched(<<r, t>>)'
        BY <1>0, <2>1 DEF Untouched
      <4>. QED  BY <2>1, <3>1, <3>2, <4>1 DEF RunInv, TryInv, Over
    <3>4. VerdictInv(r)'
      BY <1>0, <2>1, <3>1, <3>2 DEF RunInv, VerdictInv, After, Over
    <3>5. LeftInv(r)'
      BY <1>0, <2>1, <3>1, <3>2 DEF RunInv, LeftInv, WithJob, WithContainer, Provisioning
    <3>6. StopInv(r)'
      BY <1>0, <2>1, <3>1, <3>2 DEF RunInv, StopInv, After, Over
    <3>7. ServiceInv(r)'
      BY <1>0, <2>1, <2>3, <3>1, <3>2 DEF RunInv, ServiceInv, Provisioning
    <3>. QED  BY <3>3, <3>4, <3>5, <3>6, <3>7 DEF RunInv
  <2>. QED  BY <1>7, <2>2, <2>3 DEF CtrIoDir
<1>8. CASE CtrStart(r)
  <2>1. kind = D /\ run[r].pc = "task" /\ UNCHANGED <<kind, conf, dirs, objs, cluster>>
    BY <1>8 DEF CtrStart, CtrAt, At, CtrRest
  <2>2. CASE Failing(r, "setup") /\ UNCHANGED procs
    BY <1>0, <1>2, <2>1, <2>2, FailKeeps
  <2>3. CASE Spawn(Id(r)) /\ Goto(r, "wait") /\ UNCHANGED faults
    BY <1>0, <2>1, <2>3, SpawnKeeps
  <2>. QED  BY <1>8, <2>2, <2>3 DEF CtrStart
<1>9. CASE CtrWait(r)
  <2>1. /\ kind = D /\ run[r].pc = "wait" /\ UNCHANGED <<kind, conf, procs, cluster, faults>> /\ Finish(r, Verdict(Id(r)))
        /\ objs' = objs \ {Id(r)} /\ dirs' = dirs \ {<<r, run[r].try, "io">>}
    BY <1>9 DEF CtrWait, CtrAt, At, CtrRest, Cleaned, IoDir
  <2>2. Verdict(Id(r)) = "ok" => procs[Id(r)].code = "zero"
    BY DEF Verdict
  <2>. QED  BY <1>0, <1>2, <2>1, <2>2, FinishKeeps
<1>10. CASE CtrWaitFails(r)
  <2>1. /\ kind = D /\ run[r].pc = "wait" /\ UNCHANGED <<kind, conf, procs, cluster>> /\ Failing(r, "none")
        /\ objs' = objs \ {Id(r)} /\ dirs' = dirs \ {<<r, run[r].try, "io">>}
    BY <1>10 DEF CtrWaitFails, CtrAt, At, CtrRest, Cleaned, IoDir
  <2>. QED  BY <1>0, <1>2, <2>1, FailKeeps
<1>11. CASE CtrCleanupFails(r)
  <2>. DEFINE new == [run[r] EXCEPT !.pc = "unmount", !.result = Verdict(Id(r)), !.hit = "cleanup"]
  <2>1. /\ kind = D /\ run[r].pc = "wait" /\ UNCHANGED <<kind, conf, procs, objs, cluster>> /\ faults' = faults + 1
        /\ dirs' = dirs \ {<<r, run[r].try, "io">>}
    BY <1>11 DEF CtrCleanupFails, CtrAt, At, CtrRest, IoDir
  <2>2. /\ run' = [run EXCEPT ![r] = new] /\ new.pc = "unmount" /\ new.result = Verdict(Id(r)) /\ new.hit = "cleanup"
        /\ new.try = run[r].try /\ new.mounted = run[r].mounted /\ new.pod = run[r].pod /\ new.timedout = run[r].timedout
    BY <1>0, <1>11 DEF CtrCleanupFails, Run
  <2>3. Verdict(Id(r)) = "ok" => procs[Id(r)].code = "zero"
    BY DEF Verdict
  <2>4. faults' # 0
    BY <1>0, <2>1
  <2>. HIDE DEF new
  <2>. QED  BY <1>0, <1>2, <2>1, <2>2, <2>3, <2>4, EndKeeps
<1>12. CASE CtrTimeout(r)
  <2>1. /\ kind = D /\ run[r].pc = "wait" /\ UNCHANGED <<kind, conf, procs, cluster, faults>>
        /\ objs' = objs \ {Id(r)} /\ dirs' = dirs \ {<<r, run[r].try, "io">>}
        /\ run' = [run EXCEPT ![r].pc = "unmount", ![r].result = "failed", ![r].timedout = TRUE]
    BY <1>12 DEF CtrTimeout, CtrAt, At, CtrRest, Cleaned, IoDir
  <2>2. ~Stops(kind)
    BY <2>1 DEF Stops, D
  <2>. QED  BY <1>0, <2>1, <2>2, TimeoutKeeps
<1>13. CASE CtrProvision(r) \/ CtrTaken(r) \/ CtrProvisionFails(r) \/ CtrTeardown(r)
  <2>1. /\ kind = D /\ UNCHANGED <<kind, conf, procs, dirs>> /\ objs' \subseteq objs \cup {<<r, 0>>}
        /\ cluster'.jobs = cluster.jobs /\ cluster'.doomed = cluster.doomed
    BY <1>0, <1>13 DEF CtrProvision, CtrTaken, CtrProvisionFails, CtrTeardown, CtrAt, At, SvcRest, Cluster
  <2>2. /\ run[r].pc \in {"begin", "teardown"} /\ run'[r].pc \in {"idle", "done"}
        /\ run'[r].try = run[r].try /\ run'[r].timedout = run[r].timedout /\ run'[r].mounted = run[r].mounted
        /\ run'[r].pod = run[r].pod /\ (run'[r].hit = run[r].hit \/ run'[r].hit # "none")
        /\ run'[r].result \in {run[r].result, "failed"} /\ (run[r].pc = "begin" /\ run'[r].pc = "idle" => run'[r].result = run[r].result)
        /\ run[r].pc = "teardown" => run'[r].pc = "done"
    BY <1>0, <1>13 DEF CtrProvision, CtrTaken, CtrProvisionFails, CtrTeardown, CtrAt, At, Goto, Unprovisioned, Run
  <2>3. run[r].pc \in Provisioning \cup {"teardown"} /\ (run'[r].pc = "done" /\ <<r, 0>> \in objs' => run'[r].hit = "service")
    <3>1. CASE CtrTeardown(r)
      BY <2>2, <3>1 DEF CtrTeardown, Provisioning
    <3>2. CASE CtrTaken(r) \/ CtrProvisionFails(r)
      BY <1>0, <2>2, <3>2 DEF CtrTaken, CtrProvisionFails, Unprovisioned, Provisioning, Run
    <3>3. CASE CtrProvision(r)
      <4>1. run'[r].pc = "idle"
        BY <1>0, <3>3 DEF CtrProvision, Goto, Run
      <4>. QED  BY <2>2, <4>1 DEF Provisioning
    <3>. QED  BY <1>13, <3>1, <3>2, <3>3
  <2>4. /\ Id(r)' = Id(r) /\ Stops(kind)' = Stops(kind) /\ Serviced(r)' = Serviced(r) /\ \A f : Has(f)' = Has(f)
    BY <2>1, <2>2, SameTry
  <2>5. TryInv(r)'
    <3>1. \A t \in 1 .. MaxTries : Untouched(<<r, t>>) => Untouched(<<r, t>>)'
      BY <2>1 DEF Untouched
    <3>. QED  BY <2>1, <2>2, <2>4, <3>1 DEF RunInv, TryInv, Over
  <2>6. VerdictInv(r)'
    BY <1>0, <2>1, <2>2, <2>4 DEF RunInv, VerdictInv, After, Over
  <2>7. LeftInv(r)'
    <3>1. Id(r) \in objs' => Id(r) \in objs
      BY <1>0, <2>1
    <3>. QED  BY <1>0, <2>1, <2>2, <2>4, <3>1 DEF RunInv, LeftInv, WithJob, WithContainer, Provisioning
  <2>8. StopInv(r)'
    BY <1>0, <2>1, <2>2, <2>4 DEF RunInv, StopInv, After, Over
  <2>9. ServiceInv(r)'
    BY <1>0, <2>1, <2>2, <2>3, <2>4 DEF RunInv, ServiceInv, Provisioning
  <2>. QED  BY <2>5, <2>6, <2>7, <2>8, <2>9 DEF RunInv
<1>. QED
  BY <1>3, <1>4, <1>5, <1>6, <1>7, <1>8, <1>9, <1>10, <1>11, <1>12, <1>13 DEF CtrStep

\* A step of a Kubernetes runner changes nothing else of its try than where it
\* is, its verdict and its job.
K8sMove(r) ==
  /\ kind = K /\ UNCHANGED <<kind, conf, procs, objs>> /\ dirs' \subseteq dirs \cup {<<r, run[r].try, "out">>}
  /\ run'[r].try = run[r].try /\ run'[r].mounted = run[r].mounted
  /\ run'[r].hit = run[r].hit \/ run'[r].hit # "none"
  /\ cluster'.jobs \subseteq cluster.jobs \cup {Id(r)}
  /\ run'[r].result # "none" => run'[r].pc \in After \/ (run'[r].result = "failed" /\ run'[r].pc \in WithJob)
  /\ run'[r].result = "ok" /\ run'[r].pod \in {NoId, Id(r)} => procs[Id(r)].code = "zero"
  /\ Id(r) \in cluster'.jobs => run'[r].pc \in WithJob \/ run'[r].hit # "none"
  /\ run'[r].pc \in WithJob => Id(r) \in cluster'.jobs \cup cluster'.doomed
  /\ run'[r].timedout => run'[r].pc \in After
  /\ run'[r].timedout /\ run'[r].pc \in Over /\ run'[r].hit = "none" => Id(r) \in cluster'.doomed
  /\ run[r].mounted => run'[r].pc \notin Provisioning \cup {"idle", "teardown", "done"}

LEMMA K8sMoves ==
  ASSUME TypeOK, NEW r \in Runners, RunInv(r), K8sMove(r), ServiceInv(r)'
  PROVE  RunInv(r)'
<1>0. /\ run[r] \in Run /\ run[r].try \in 1 .. MaxTries /\ K # D /\ K \notin {"git", "deno", "shell"}
  BY Typed DEF TypeOK, D, K
<1>1. /\ Id(r)' = Id(r) /\ Stops(kind)' = Stops(kind) /\ Serviced(r)' = Serviced(r) /\ \A f : Has(f)' = Has(f)
  BY SameTry DEF K8sMove
<1>2. TryInv(r)'
  <2>1. \A t \in 1 .. MaxTries : t > run[r].try /\ Untouched(<<r, t>>) => Untouched(<<r, t>>)'
    <3>. SUFFICES ASSUME NEW t \in 1 .. MaxTries, t > run[r].try, Untouched(<<r, t>>)  PROVE Untouched(<<r, t>>)'
      OBVIOUS
    <3>1. <<r, t>> # Id(r)
      BY <1>0 DEF Id
    <3>2. <<r, t>> \notin cluster'.jobs
      BY <3>1 DEF K8sMove, Untouched
    <3>3. \A use \in {"in", "io"} : <<r, t, use>> \notin dirs'
      BY DEF K8sMove, Untouched
    <3>. QED  BY <3>2, <3>3 DEF K8sMove, Untouched
  <2>. QED  BY <1>0, <1>1, <2>1 DEF K8sMove, RunInv, TryInv
<1>3. VerdictInv(r)'
  BY <1>0, <1>1 DEF K8sMove, VerdictInv, NoId
<1>4. LeftInv(r)'
  <2>1. \A use \in {"in", "io"} : <<r, run[r].try, use>> \in dirs' => <<r, run[r].try, use>> \in dirs
    BY DEF K8sMove
  <2>. QED  BY <1>0, <1>1, <2>1 DEF K8sMove, RunInv, LeftInv
<1>5. StopInv(r)'
  BY <1>0, <1>1 DEF K8sMove, StopInv
<1>. QED  BY <1>2, <1>3, <1>4, <1>5 DEF RunInv

\* Away from the services theirs is not touched.
LEMMA ServicesKeep ==
  ASSUME TypeOK, NEW r \in Runners, ServiceInv(r), UNCHANGED <<kind, conf, objs>>, faults' = 0 => faults = 0,
         cluster'.svcs = cluster.svcs, cluster'.ns[r] = cluster.ns[r] \/ cluster.ns[r] = "absent",
         run[r].pc \notin Provisioning \cup {"teardown", "done"},
         run'[r].pc \notin Provisioning \cup {"teardown", "done"}
  PROVE  ServiceInv(r)'
<1>1. Serviced(r)' = Serviced(r)
  BY DEF Serviced, Has
<1>. QED  BY <1>1 DEF ServiceInv, Provisioning

\* Setting up: namespace, volume and job.
LEMMA K8sSetupKeeps ==
  ASSUME TypeOK, NEW r \in Runners, RunInv(r),
         \/ K8sMount(r) \/ K8sClient(r) \/ K8sNamespace(r) \/ K8sVolume(r) \/ K8sUnbound(r) \/ K8sCreateJob(r)
  PROVE  RunInv(r)'
<1>0. /\ run[r] \in Run /\ run \in [Runners -> Run] /\ Id(r) \in Ids /\ cluster \in Cluster /\ faults \in Nat
      /\ K # "git" /\ K # D /\ StepNs \in Runners
  BY Typed, RunnersAssumption DEF TypeOK, Id, D, K, Cluster, StepNs
<1>1. \A pc \in {"ready", "namespace", "create_ns", "volume", "job"} :
        pc \in Plain \ {"idle"} /\ pc \notin After \cup WithJob \cup Provisioning \cup {"idle", "teardown", "done"}
  BY DEF Plain, After, Over, WithJob, Provisioning
<1>2. CASE K8sMount(r)
  <2>1. InDir(r) \in SUBSET MountDirs(r)
    BY DEF MountDirs
  <2>. QED  BY <1>0, <1>2, <2>1, MountKeeps DEF K8sMount
<1>3. CASE K8sClient(r)
  BY <1>1, <1>3, CallKeeps DEF K8sClient
<1>4. CASE K8sUnbound(r)
  <2>1. /\ kind = K /\ run[r].pc = "volume" /\ UNCHANGED <<kind, conf, procs, objs, dirs, cluster>> /\ Failing(r, "setup")
    BY <1>4 DEF K8sUnbound, K8sAt, At, K8sRest
  <2>. QED  BY <1>0, <1>1, <2>1, FailKeeps
<1>5. ASSUME NEW pc, run[r].pc \in {"namespace", "create_ns", "volume", "job"}, run'[r].pc = pc,
             \/ pc \in {"namespace", "create_ns", "volume", "job"} /\ run'[r].result = run[r].result
             \/ pc = "unmount" /\ run'[r].result = "failed",
             run'[r].try = run[r].try, run'[r].mounted = run[r].mounted, run'[r].hit = run[r].hit, run'[r].timedout = run[r].timedout,
             kind = K, UNCHANGED <<kind, conf, procs, objs, dirs, faults>>,
             cluster'.jobs = cluster.jobs, cluster'.doomed = cluster.doomed, cluster'.svcs = cluster.svcs,
             cluster'.ns[r] = cluster.ns[r] \/ cluster.ns[r] = "absent"
      PROVE  RunInv(r)'
  <2>1. run[r].result = "none" /\ ~run[r].timedout
    BY <1>1, <1>5 DEF RunInv, VerdictInv, StopInv
  <2>2. K8sMove(r)
    BY <1>0, <1>1, <1>5, <2>1 DEF K8sMove, RunInv, LeftInv, After, Over, WithJob, Provisioning
  <2>3. ServiceInv(r)'
    BY <1>1, <1>5, ServicesKeep DEF RunInv, Provisioning
  <2>. QED  BY <2>2, <2>3, K8sMoves
<1>6. CASE K8sNamespace(r)
  <2>1. /\ run[r].pc \in {"namespace", "create_ns"} /\ kind = K /\ UNCHANGED <<kind, conf, procs, objs, dirs, faults>>
    BY <1>6 DEF K8sNamespace, NamespaceGet, NamespaceCreate, NamespaceTaken, K8sAt, At, K8sRest
  <2>2. /\ run'[r].try = run[r].try /\ run'[r].mounted = run[r].mounted /\ run'[r].hit = run[r].hit /\ run'[r].timedout = run[r].timedout
        /\ \/ run'[r].pc \in {"volume", "create_ns"} /\ run'[r].result = run[r].result
           \/ run'[r].pc = "unmount" /\ run'[r].result = "failed"
    BY <1>0, <1>6 DEF K8sNamespace, NamespaceGet, NamespaceCreate, NamespaceTaken, Goto, Run
  <2>3. /\ cluster'.jobs = cluster.jobs /\ cluster'.doomed = cluster.doomed /\ cluster'.svcs = cluster.svcs
        /\ cluster'.ns[r] = cluster.ns[r] \/ cluster.ns[r] = "absent"
    BY <1>0, <1>6 DEF K8sNamespace, NamespaceGet, NamespaceCreate, NamespaceTaken, Cluster, Namespaces
  <2>. QED  BY <1>5, <2>1, <2>2, <2>3
<1>7. CASE K8sVolume(r)
  <2>1. /\ run[r].pc = "volume" /\ kind = K /\ UNCHANGED <<kind, conf, procs, objs, dirs, faults>>
    BY <1>7 DEF K8sVolume, K8sAt, At, K8sRest
  <2>2. \/ Finish(r, "failed")
        \/ \E v : run' = [run EXCEPT ![r].pc = "job", ![r].vol = v]
    BY <1>7 DEF K8sVolume
  <2>3. /\ run'[r].try = run[r].try /\ run'[r].mounted = run[r].mounted /\ run'[r].hit = run[r].hit /\ run'[r].timedout = run[r].timedout
        /\ \/ run'[r].pc = "job" /\ run'[r].result = run[r].result
           \/ run'[r].pc = "unmount" /\ run'[r].result = "failed"
    BY <1>0, <2>2 DEF Finish, Run
  <2>4. cluster' = cluster \/ \E v, w : cluster' = [cluster EXCEPT !.vol = v, !.vols = w]
    BY <1>7 DEF K8sVolume
  <2>5. /\ cluster'.jobs = cluster.jobs /\ cluster'.doomed = cluster.doomed /\ cluster'.svcs = cluster.svcs
        /\ cluster'.ns[r] = cluster.ns[r]
    BY <1>0, <2>4 DEF Cluster
  <2>. QED  BY <1>5, <2>1, <2>3, <2>5
<1>8. CASE K8sCreateJob(r)
  <2>1. /\ run[r].pc = "job" /\ kind = K /\ UNCHANGED <<kind, conf, procs, objs, dirs, faults>>
    BY <1>8 DEF K8sCreateJob, K8sAt, At, K8sRest
  <2>2. CASE Finish(r, "failed") /\ UNCHANGED cluster
    <3>1. /\ run'[r].try = run[r].try /\ run'[r].mounted = run[r].mounted /\ run'[r].hit = run[r].hit
          /\ run'[r].timedout = run[r].timedout /\ run'[r].pc = "unmount" /\ run'[r].result = "failed"
      BY <1>0, <2>2 DEF Finish, Run
    <3>. QED  BY <1>5, <2>1, <2>2, <3>1
  <2>3. CASE cluster' = [cluster EXCEPT !.jobs = @ \cup {Id(r)}] /\ Goto(r, IF run[r].mounted THEN "copy_in" ELSE "find")
    <3>1. /\ run'[r].try = run[r].try /\ run'[r].mounted = run[r].mounted /\ run'[r].hit = run[r].hit
          /\ run'[r].timedout = run[r].timedout /\ run'[r].pc \in {"copy_in", "find"} /\ run'[r].result = run[r].result
      BY <1>0, <2>3 DEF Goto, Run
    <3>2. /\ cluster'.jobs = cluster.jobs \cup {Id(r)} /\ cluster'.svcs = cluster.svcs /\ cluster'.ns = cluster.ns
      BY <1>0, <2>3 DEF Cluster
    <3>3. run[r].result = "none" /\ ~run[r].timedout
      BY <1>1, <2>1 DEF RunInv, VerdictInv, StopInv
    <3>4. K8sMove(r)
      BY <1>0, <2>1, <3>1, <3>2, <3>3 DEF K8sMove, After, Over, WithJob, Provisioning
    <3>5. ServiceInv(r)'
      BY <2>1, <3>1, <3>2, ServicesKeep DEF RunInv, Provisioning
    <3>. QED  BY <3>4, <3>5, K8sMoves
  <2>. QED  BY <1>8, <2>2, <2>3 DEF K8sCreateJob
<1>. QED  BY <1>2, <1>3, <1>4, <1>6, <1>7, <1>8

\* With a job: until it is deleted, others only delete it earlier.
LEMMA K8sJobKeeps ==
  ASSUME TypeOK, NEW r \in Runners, RunInv(r),
         \/ K8sCopyIn(r) \/ K8sCopyInFails(r) \/ K8sFindPod(r) \/ K8sPodRunning(r) \/ K8sGivesUp(r) \/ K8sPodLost(r)
         \/ K8sStreamBreaks(r) \/ K8sWatchFails(r) \/ K8sCopyOut(r) \/ K8sComplete(r) \/ K8sTimeout(r) \/ K8sDelete(r) \/ K8sDeleteFails(r)
  PROVE  RunInv(r)'
<1>0. /\ run[r] \in Run /\ run \in [Runners -> Run] /\ Id(r) \in Ids /\ cluster \in Cluster /\ faults \in Nat
  BY Typed DEF TypeOK, Id, Cluster
<1>1. ASSUME kind = K, run[r].pc \in WithJob \ {"delete"}, run'[r].pc \in WithJob,
             UNCHANGED <<kind, conf, procs, objs, cluster>>, dirs' \subseteq dirs \cup {<<r, run[r].try, "out">>},
             faults' \in {faults, faults + 1},
             run'[r].try = run[r].try, run'[r].mounted = run[r].mounted, run'[r].hit = run[r].hit,
             run'[r].timedout => run'[r].pc = "delete",
             \/ run'[r].result \in {"none", "failed"}
             \/ run'[r].pc = "delete" /\ run'[r].result = Verdict(run[r].pod) /\ run'[r].pod = run[r].pod /\ run[r].pod \in Ids
      PROVE  RunInv(r)'
  <2>1. run'[r].result # "none" => run'[r].pc \in After \/ (run'[r].result = "failed" /\ run'[r].pc \in WithJob)
    BY <1>1 DEF After
  <2>2. run'[r].result = "ok" /\ run'[r].pod \in {NoId, Id(r)} => procs[Id(r)].code = "zero"
    <3>1. NoId \notin Ids
      BY RunnersAssumption DEF NoId, Ids
    <3>. QED  BY <1>1, <3>1 DEF Verdict
  <2>3. K8sMove(r)
    BY <1>0, <1>1, <2>1, <2>2 DEF K8sMove, RunInv, StopInv, After, Over, WithJob, Provisioning
  <2>4. faults' = 0 => faults = 0
    BY <1>0, <1>1
  <2>5. ServiceInv(r)'
    BY <1>1, <2>4, ServicesKeep DEF RunInv, Provisioning, WithJob
  <2>. QED  BY <2>3, <2>5, K8sMoves
<1>2. run[r].pc \in WithJob \ {"delete"} /\ kind = K => run[r].result \in {"none", "failed"} /\ ~run[r].timedout
  BY DEF RunInv, VerdictInv, StopInv, After, Over, WithJob, K
<1>3. CASE K8sCopyIn(r) \/ K8sPodRunning(r) \/ K8sFindPod(r) \/ K8sCopyOut(r) \/ K8sStreamBreaks(r)
  <2>1. /\ kind = K /\ run[r].pc \in WithJob \ {"delete"}
        /\ UNCHANGED <<kind, conf, procs, objs, cluster>> /\ dirs' \subseteq dirs \cup {<<r, run[r].try, "out">>}
        /\ faults' \in {faults, faults + 1}
    BY <1>3 DEF K8sCopyIn, K8sPodRunning, K8sFindPod, K8sCopyOut, K8sStreamBreaks, Watches, K8sAt, At, K8sRest, WithJob
  <2>2. /\ run'[r].pc \in WithJob /\ run'[r].try = run[r].try /\ run'[r].mounted = run[r].mounted /\ run'[r].hit = run[r].hit
        /\ run'[r].timedout = run[r].timedout /\ run'[r].result = run[r].result
    BY <1>0, <1>3 DEF K8sCopyIn, K8sPodRunning, K8sFindPod, K8sCopyOut, K8sStreamBreaks, Watches, K8sAt, At, Goto, WithJob, Run
  <2>. QED  BY <1>1, <1>2, <2>1, <2>2
<1>4. CASE K8sCopyInFails(r) \/ K8sWatchFails(r)
  <2>1. /\ kind = K /\ run[r].pc \in WithJob \ {"delete"} /\ UNCHANGED <<kind, conf, procs, objs, dirs, cluster>>
        /\ faults' = faults + 1
    BY <1>4 DEF K8sCopyInFails, K8sWatchFails, Watches, K8sAt, At, K8sRest, WithJob
  <2>2. /\ run'[r].pc \in {"find", "delete", run[r].pc} /\ run'[r].try = run[r].try /\ run'[r].mounted = run[r].mounted
        /\ run'[r].hit = run[r].hit /\ run'[r].timedout = run[r].timedout
        /\ run'[r].result \in {run[r].result, "failed"}
    BY <1>0, <1>4 DEF K8sCopyInFails, K8sWatchFails, Goto, Run
  <2>4. run'[r].pc \in WithJob
    BY <2>1, <2>2 DEF WithJob
  <2>. QED  BY <1>1, <1>2, <2>1, <2>2, <2>4
<1>5. CASE K8sGivesUp(r) \/ K8sPodLost(r) \/ K8sTimeout(r)
  <2>1. /\ kind = K /\ run[r].pc \in WithJob \ {"delete"} /\ UNCHANGED <<kind, conf, procs, objs, dirs, cluster>>
        /\ faults' \in {faults, faults + 1}
    BY <1>5 DEF K8sGivesUp, K8sPodLost, K8sTimeout, K8sAt, At, K8sRest, WithJob
  <2>2. /\ run'[r].pc = "delete" /\ run'[r].try = run[r].try /\ run'[r].mounted = run[r].mounted
        /\ run'[r].hit = run[r].hit /\ run'[r].result = "failed"
    BY <1>0, <1>5 DEF K8sGivesUp, K8sPodLost, K8sTimeout, Run
  <2>3. run'[r].pc \in WithJob
    BY <2>2 DEF WithJob
  <2>. QED  BY <1>1, <2>1, <2>2, <2>3
<1>6. CASE K8sComplete(r)
  <2>1. /\ kind = K /\ run[r].pc \in {"watch", "unlogged"} /\ run[r].pc \in WithJob \ {"delete"}
        /\ UNCHANGED <<kind, conf, procs, objs, dirs, cluster, faults>>
    BY <1>6 DEF K8sComplete, Watches, K8sAt, At, K8sRest, WithJob
  <2>2. /\ run'[r].pc = "delete" /\ run'[r].try = run[r].try /\ run'[r].mounted = run[r].mounted
        /\ run'[r].hit = run[r].hit /\ run'[r].result \in {"failed", Verdict(run[r].pod)} /\ run'[r].pod = run[r].pod
    BY <1>0, <1>6 DEF K8sComplete, Run
  <2>3. run'[r].pc \in WithJob /\ run[r].pod \in Ids
    BY <2>1, <2>2 DEF WithJob, TypeOK
  <2>. QED  BY <1>1, <2>1, <2>2, <2>3
<1>7. CASE K8sDeleteFails(r)
  <2>1. /\ kind = K /\ run[r].pc = "delete" /\ UNCHANGED <<kind, conf, procs, objs, dirs, cluster>> /\ faults' = faults + 1
    BY <1>7 DEF K8sDeleteFails, K8sAt, At, K8sRest
  <2>2. /\ run'[r].pc = "unmount" /\ run'[r].try = run[r].try /\ run'[r].mounted = run[r].mounted /\ run'[r].hit = "cleanup"
        /\ run'[r].result = run[r].result /\ run'[r].pod = run[r].pod /\ run'[r].timedout = run[r].timedout
    BY <1>0, <1>7 DEF K8sDeleteFails, Run
  <2>3. K8sMove(r)
    BY <1>0, <2>1, <2>2 DEF K8sMove, RunInv, VerdictInv, After, Over, WithJob, Provisioning, K
  <2>4. faults' = 0 => faults = 0
    BY <1>0, <2>1
  <2>5. ServiceInv(r)'
    BY <2>1, <2>2, <2>4, ServicesKeep DEF RunInv, Provisioning
  <2>. QED  BY <2>3, <2>5, K8sMoves
<1>8. CASE K8sDelete(r)
  <2>1. /\ kind = K /\ run[r].pc = "delete" /\ UNCHANGED <<kind, conf, procs, objs, dirs, faults>>
        /\ cluster' = [cluster EXCEPT !.jobs = @ \ JobNamed(r), !.doomed = @ \cup JobNamed(r)]
    BY <1>8 DEF K8sDelete, K8sAt, At, K8sRest
  <2>2. /\ run'[r].pc = "unmount" /\ run'[r].try = run[r].try /\ run'[r].mounted = run[r].mounted /\ run'[r].hit = run[r].hit
        /\ run'[r].result = run[r].result /\ run'[r].pod = run[r].pod /\ run'[r].timedout = run[r].timedout
    BY <1>0, <1>8 DEF K8sDelete, Goto, Run
  <2>3. /\ cluster'.jobs = cluster.jobs \ JobNamed(r) /\ cluster'.doomed = cluster.doomed \cup JobNamed(r)
        /\ cluster'.svcs = cluster.svcs /\ cluster'.ns = cluster.ns
    BY <1>0, <2>1 DEF Cluster
  <2>4. Id(r) \in cluster.jobs => Id(r) \in JobNamed(r)
    BY DEF JobNamed
  <2>5. Id(r) \notin cluster'.jobs /\ Id(r) \in cluster'.doomed
    BY <2>1, <2>3, <2>4 DEF RunInv, StopInv, WithJob
  <2>6. K8sMove(r)
    BY <1>0, <2>1, <2>2, <2>3, <2>5 DEF K8sMove, RunInv, VerdictInv, After, Over, WithJob, Provisioning, K
  <2>7. ServiceInv(r)'
    BY <2>1, <2>2, <2>3, ServicesKeep DEF RunInv, Provisioning
  <2>. QED  BY <2>6, <2>7, K8sMoves
<1>. QED  BY <1>3, <1>4, <1>5, <1>6, <1>7, <1>8

\* Services.
LEMMA K8sServiceKeeps ==
  ASSUME TypeOK, NEW r \in Runners, RunInv(r),
         \/ K8sProvisionNs(r) \/ K8sProvision(r) \/ K8sNotReady(r) \/ K8sTeardown(r)
  PROVE  RunInv(r)'
<1>0. /\ run[r] \in Run /\ run \in [Runners -> Run] /\ cluster \in Cluster /\ faults \in Nat
  BY Typed DEF TypeOK, Cluster
<1>1. /\ kind = K /\ UNCHANGED <<kind, conf, procs, objs, dirs>> /\ (faults' = 0 => faults = 0)
      /\ run[r].pc \in Provisioning \cup {"teardown"}
  <2>1. faults' \in {faults, faults + 1}
    BY DEF K8sProvisionNs, NamespaceGet, NamespaceCreate, NamespaceTaken, K8sProvision, K8sNotReady, K8sTeardown
  <2>2. faults' = 0 => faults = 0
    BY <1>0, <2>1
  <2>. QED  BY <2>2 DEF K8sProvisionNs, NamespaceGet, NamespaceCreate, NamespaceTaken, K8sProvision, K8sNotReady, K8sTeardown,
                        K8sAt, At, K8sRest, Provisioning
<1>2. Serviced(r) /\ Serviced(r)' = Serviced(r) /\ K # D /\ <<r, 0>> \notin objs
  BY <1>1 DEF RunInv, ServiceInv, Serviced, Has, K, D
<1>3. /\ run'[r].try = run[r].try /\ run'[r].mounted = run[r].mounted /\ run'[r].timedout = run[r].timedout
      /\ run'[r].pod = run[r].pod /\ (run'[r].hit = run[r].hit \/ run'[r].hit # "none")
  BY <1>0 DEF K8sProvisionNs, NamespaceGet, NamespaceCreate, NamespaceTaken, K8sProvision, K8sNotReady, K8sTeardown, Unprovisioned, Goto, Run
<1>4. /\ cluster'.jobs = cluster.jobs /\ cluster'.doomed = cluster.doomed
  BY <1>0 DEF K8sProvisionNs, NamespaceGet, NamespaceCreate, NamespaceTaken, K8sProvision, ServiceCreated,
              K8sNotReady, K8sTeardown, Cluster
<1>5. /\ run[r].pc = "teardown" => run'[r].pc = "done" /\ run'[r].result = run[r].result
      /\ run[r].pc \in Provisioning => \/ run'[r].pc \in {"service_ns", "service", "idle"} /\ run'[r].result = run[r].result
                                       \/ run'[r].pc = "done" /\ run'[r].result = "failed"
  BY <1>0 DEF K8sProvisionNs, NamespaceGet, NamespaceCreate, NamespaceTaken, K8sProvision, K8sNotReady, K8sTeardown,
              Unprovisioned, K8sAt, At, Goto, Run, Provisioning
<1>6. run[r].pc \in Provisioning => run[r].result = "none" /\ ~run[r].timedout
  BY DEF RunInv, VerdictInv, StopInv, Provisioning, After, Over, WithJob
<1>7. ~run[r].mounted /\ (Id(r) \in cluster.jobs => run[r].hit # "none")
  BY <1>1 DEF RunInv, LeftInv, Provisioning, WithJob
<1>8. K8sMove(r)
  <2>1. CASE run[r].pc = "teardown"
    BY <1>1, <1>3, <1>4, <1>5, <1>7, <2>1 DEF K8sMove, RunInv, VerdictInv, StopInv, After, Over, WithJob, K
  <2>2. CASE run[r].pc \in Provisioning
    BY <1>1, <1>3, <1>4, <1>5, <1>6, <1>7, <2>2 DEF K8sMove, After, Over, WithJob
  <2>. QED  BY <1>1, <2>1, <2>2
<1>9. ServiceInv(r)'
  <2>1. CASE K8sProvisionNs(r)
    <3>1. /\ run[r].pc \in Provisioning /\ run'[r].pc \in {"service_ns", "service", "done"}
      BY <1>0, <2>1 DEF K8sProvisionNs, NamespaceGet, NamespaceCreate, NamespaceTaken, K8sAt, At, Goto, Run, Provisioning
    <3>2. cluster'.svcs = cluster.svcs /\ (cluster'.ns[r] = cluster.ns[r] \/ cluster.ns[r] = "absent")
      BY <1>0, <2>1 DEF K8sProvisionNs, NamespaceGet, NamespaceCreate, NamespaceTaken, Cluster, Namespaces, NsOf
    <3>3. r \in cluster.svcs => run'[r].pc = "service"
      BY <1>0, <1>1, <2>1 DEF RunInv, ServiceInv, K8sProvisionNs, NamespaceGet, NamespaceCreate, NamespaceTaken,
                              K8sAt, At, Goto, Run, NsOf
    <3>. QED  BY <1>1, <1>2, <3>1, <3>2, <3>3 DEF RunInv, ServiceInv
  <2>2. CASE K8sProvision(r) /\ Goto(r, "idle")
    <3>1. run'[r].pc = "idle"
      BY <1>0, <2>2 DEF Goto, Run
    <3>2. cluster'.ns = cluster.ns /\ (cluster'.svcs = cluster.svcs \/ cluster.ns[r] = "active")
      BY <1>0, <2>2 DEF K8sProvision, ServiceCreated, Cluster, Active, NsOf
    <3>. QED  BY <1>1, <1>2, <3>1, <3>2 DEF RunInv, ServiceInv, Provisioning
  <2>3. CASE K8sProvision(r) /\ UNCHANGED cluster
    <3>1. run[r].pc = "service" /\ (run'[r].pc = "idle" \/ (run'[r].pc = "done" /\ run'[r].hit = "service"))
      BY <1>0, <2>3 DEF K8sProvision, Unprovisioned, K8sAt, At, Goto, Run
    <3>. QED  BY <1>1, <1>2, <2>3, <3>1 DEF RunInv, ServiceInv, Provisioning
  <2>4. CASE K8sNotReady(r)
    <3>1. run'[r].pc = "done" /\ run'[r].hit = "service"
      BY <1>0, <2>4 DEF K8sNotReady, Unprovisioned, Run
    <3>2. cluster'.ns = cluster.ns /\ cluster.ns[r] = "active"
      BY <1>0, <2>4 DEF K8sNotReady, ServiceCreated, Cluster, Active, NsOf
    <3>. QED  BY <1>1, <1>2, <3>1, <3>2 DEF RunInv, ServiceInv, Provisioning
  <2>5. CASE K8sTeardown(r)
    <3>1. run'[r].pc = "done"
      BY <1>0, <2>5 DEF K8sTeardown, Goto, Run
    <3>2. cluster'.svcs = cluster.svcs /\ cluster'.ns[r] = IF cluster.ns[r] = "absent" THEN "absent" ELSE "terminating"
      BY <1>0, <2>5 DEF K8sTeardown, Cluster, Namespaces, NsOf
    <3>. QED  BY <1>1, <1>2, <3>1, <3>2 DEF RunInv, ServiceInv, Provisioning
  <2>. QED  BY <2>1, <2>2, <2>3, <2>4, <2>5 DEF K8sProvision
<1>. QED  BY <1>8, <1>9, K8sMoves

LEMMA K8sKeeps ==
  ASSUME TypeOK, NEW r \in Runners, RunInv(r), K8sStep(r) \/ K8sFault(r) \/ K8sCopyOut(r)
  PROVE  RunInv(r)'
BY K8sSetupKeeps, K8sJobKeeps, K8sServiceKeeps DEF K8sStep, K8sFault

\* Processes, the cluster and the operator: what they may do to a try.
Moves(p, q) ==
  /\ procs[p].up = "no" => q.up = "no" \/ (kind = K /\ p \in cluster.jobs)
  /\ procs[p].up \in {"ended", "gone"} => q.up \in {"ended", "gone"}
  /\ procs[p].up = "running" => q.up \in {"running", "ended", "gone"} \/ (kind = "deno" /\ q.up = "awaiting")
  /\ procs[p].up = "awaiting" => q.up \in {"awaiting", "ended", "gone"} \/ (q.up = "running" /\ ~run[p[1]].timedout)
  /\ procs[p].up = "orphaned" => q.up \in {"orphaned", "ended", "gone"}
  /\ procs[p].code = "zero" => q.code = "zero"
LEMMA WorldRuns ==
  ASSUME TypeOK, NEW r \in Runners, RunInv(r), UNCHANGED <<kind, conf, run, dirs, objs, faults>>,
         cluster'.jobs \subseteq cluster.jobs, cluster.doomed \subseteq cluster'.doomed,
         cluster.jobs \subseteq cluster'.jobs \cup cluster'.doomed,
         kind = K /\ r \in cluster'.svcs => /\ r \in cluster.svcs /\ cluster'.ns[r] # "absent"
                                            /\ cluster'.ns[r] # "terminating" => cluster.ns[r] # "terminating",
         \A p \in Ids : Moves(p, procs'[p])
  PROVE  RunInv(r)'
<1>0. run[r] \in Run /\ Id(r) \in Ids /\ \A t \in 1 .. MaxTries : <<r, t>> \in Ids
  BY Typed DEF TypeOK, Ids
<1>1. Id(r)' = Id(r) /\ Stops(kind)' = Stops(kind) /\ Serviced(r)' = Serviced(r) /\ \A f : Has(f)' = Has(f)
  BY SameTry
<1>2. TryInv(r)'
  <2>1. \A t \in 1 .. MaxTries : Untouched(<<r, t>>) => Untouched(<<r, t>>)'
    BY <1>0 DEF Untouched, Moves
  <2>. QED  BY <1>0, <1>1, <2>1 DEF RunInv, TryInv, Moves, LeftInv, WithJob
<1>3. VerdictInv(r)'
  BY <1>0, <1>1 DEF RunInv, VerdictInv, Moves
<1>4. LeftInv(r)'
  BY <1>0, <1>1 DEF RunInv, LeftInv
<1>5. StopInv(r)'
  BY <1>0, <1>1 DEF RunInv, StopInv, Moves, Id
<1>6. ServiceInv(r)'
  BY <1>1 DEF RunInv, ServiceInv
<1>. QED  BY <1>2, <1>3, <1>4, <1>5, <1>6 DEF RunInv

LEMMA WorldKeeps ==
  ASSUME TypeOK, StepsInv, NEW r \in Runners,
         ProcessNext \/ ScriptNext \/ ClusterStep \/ \E n \in Namespaces : CleanupStale(n)
  PROVE  RunInv(r)'
<1>0. /\ procs \in [Ids -> [up : {"no", "pending", "running", "awaiting", "orphaned", "ended", "gone"}, code : {"none", "zero", "nonzero"}, out : Written]]
      /\ cluster \in Cluster /\ RunInv(r) /\ CodeInv
  BY DEF TypeOK, Cluster, StepsInv
<1>1. ASSUME NEW p \in Ids, NEW q \in [up : {"no", "pending", "running", "awaiting", "orphaned", "ended", "gone"},
                                       code : {"none", "zero", "nonzero"}, out : Written],
             procs' = [procs EXCEPT ![p] = q], UNCHANGED <<kind, conf, run, dirs, objs, cluster, faults>>,
             Moves(p, q)
      PROVE  RunInv(r)'
  <2>1. \A s \in Ids : procs'[s] = IF s = p THEN q ELSE procs[s]
    BY <1>0, <1>1
  <2>2. \A s \in Ids : Moves(s, procs'[s])
    BY <1>1, <2>1 DEF Moves
  <2>3. /\ cluster'.jobs \subseteq cluster.jobs /\ cluster.doomed \subseteq cluster'.doomed
        /\ cluster.jobs \subseteq cluster'.jobs \cup cluster'.doomed
        /\ kind = K /\ r \in cluster'.svcs => /\ r \in cluster.svcs /\ cluster'.ns[r] # "absent"
                                              /\ cluster'.ns[r] # "terminating" => cluster.ns[r] # "terminating"
    BY <1>0, <1>1 DEF RunInv, ServiceInv
  <2>. QED  BY <1>0, <1>1, <2>2, <2>3, WorldRuns
<1>2. ASSUME NEW p \in Ids, ProcessEnds(p)  PROVE RunInv(r)'
  <2>1. PICK c \in {"zero", "nonzero"} : procs' = [procs EXCEPT ![p].up = "ended", ![p].code = c]
    BY <1>2 DEF ProcessEnds
  <2>. DEFINE q == [procs[p] EXCEPT !.up = "ended", !.code = c]
  <2>2. /\ procs[p].up = "running" /\ UNCHANGED <<kind, conf, run, dirs, objs, cluster, faults>> /\ procs[p].code # "zero"
    BY <1>0, <1>2 DEF ProcessEnds, CodeInv
  <2>3. /\ procs' = [procs EXCEPT ![p] = q] /\ q.up = "ended"
        /\ q \in [up : {"no", "pending", "running", "awaiting", "orphaned", "ended", "gone"}, code : {"none", "zero", "nonzero"}, out : Written]
    BY <1>0, <2>1
  <2>. HIDE DEF q
  <2>. QED  BY <1>1, <2>2, <2>3 DEF Moves
<1>3. ASSUME NEW p \in Ids, ProcessWrites(p)  PROVE RunInv(r)'
  <2>. DEFINE q == [procs[p] EXCEPT !.out = IF @ = "none" THEN "half" ELSE "whole"]
  <2>1. /\ procs[p].up = "running" /\ UNCHANGED <<kind, conf, run, dirs, objs, cluster, faults>>
    BY <1>3 DEF ProcessWrites
  <2>2. /\ procs' = [procs EXCEPT ![p] = q] /\ q.up = procs[p].up /\ q.code = procs[p].code
        /\ q \in [up : {"no", "pending", "running", "awaiting", "orphaned", "ended", "gone"}, code : {"none", "zero", "nonzero"}, out : Written]
    BY <1>0, <1>3 DEF ProcessWrites, Written
  <2>. HIDE DEF q
  <2>. QED  BY <1>1, <2>1, <2>2 DEF Moves
<1>4. ASSUME NEW p \in Ids, PodCreated(p) \/ PodStarts(p) \/ PodGone(p)  PROVE RunInv(r)'
  <2>1. PICK up \in {"pending", "running", "gone"} : procs' = [procs EXCEPT ![p].up = up]
    BY <1>4 DEF PodCreated, PodStarts, PodGone, Spawn
  <2>. DEFINE q == [procs[p] EXCEPT !.up = up]
  <2>2. /\ kind = K /\ UNCHANGED <<kind, conf, run, dirs, objs, cluster, faults>>
    BY <1>4 DEF PodCreated, PodStarts, PodGone, K8sRest
  <2>3. /\ procs' = [procs EXCEPT ![p] = q] /\ q.code = procs[p].code /\ q.up = up
        /\ q \in [up : {"no", "pending", "running", "awaiting", "orphaned", "ended", "gone"}, code : {"none", "zero", "nonzero"}, out : Written]
    BY <1>0, <2>1
  <2>4. procs'[p].up = up
    BY <1>0, <2>1
  <2>5. CASE PodCreated(p)
    <3>1. p \in cluster.jobs /\ procs[p].up = "no"
      BY <2>5 DEF PodCreated
    <3>. HIDE DEF q
    <3>. QED  BY <1>1, <2>2, <2>3, <3>1 DEF Moves
  <2>6. CASE PodStarts(p)
    <3>1. procs[p].up = "pending"
      BY <2>6 DEF PodStarts
    <3>. HIDE DEF q
    <3>. QED  BY <1>1, <2>2, <2>3, <3>1 DEF Moves
  <2>7. CASE PodGone(p)
    <3>1. procs[p].up # "no" /\ up = "gone"
      BY <1>0, <2>4, <2>7 DEF PodGone, Pod
    <3>. HIDE DEF q
    <3>. QED  BY <1>1, <2>2, <2>3, <3>1 DEF Moves
  <2>. QED  BY <1>4, <2>5, <2>6, <2>7
<1>5. ASSUME NEW n \in Namespaces, NamespaceGone(n) \/ CleanupStale(n)  PROVE RunInv(r)'
  <2>1. UNCHANGED <<kind, conf, run, procs, dirs, objs, faults>>
    BY <1>5 DEF NamespaceGone, CleanupStale, K8sRest
  <2>4. \A p \in Ids : Moves(p, procs'[p])
    BY <1>0, <2>1 DEF Moves
  <2>2. CASE NamespaceGone(n)
    <3>1. /\ cluster'.jobs \subseteq cluster.jobs /\ cluster.doomed \subseteq cluster'.doomed
          /\ cluster.jobs \subseteq cluster'.jobs \cup cluster'.doomed
      BY <1>0, <2>2 DEF NamespaceGone, Cluster
    <3>2. /\ cluster'.svcs = cluster.svcs \ {n} /\ \A m \in Namespaces \ {n} : cluster'.ns[m] = cluster.ns[m]
      BY <1>0, <2>2 DEF NamespaceGone, Cluster
    <3>3. kind = K /\ r \in cluster'.svcs => /\ r \in cluster.svcs /\ cluster'.ns[r] # "absent"
                                             /\ cluster'.ns[r] # "terminating" => cluster.ns[r] # "terminating"
      BY <1>0, <3>2 DEF Namespaces, RunInv, ServiceInv
    <3>. QED  BY <1>0, <2>1, <2>4, <3>1, <3>3, WorldRuns
  <2>3. CASE CleanupStale(n)
    <3>1. /\ cluster'.jobs = cluster.jobs /\ cluster.doomed = cluster'.doomed
      BY <1>0, <2>3 DEF CleanupStale, Cluster
    <3>2. /\ cluster'.svcs = cluster.svcs /\ \A m \in Namespaces : cluster'.ns[m] = IF m = n THEN "terminating" ELSE cluster.ns[m]
      BY <1>0, <2>3 DEF CleanupStale, Cluster
    <3>3. kind = K /\ r \in cluster'.svcs => /\ r \in cluster.svcs /\ cluster'.ns[r] # "absent"
                                             /\ cluster'.ns[r] # "terminating" => cluster.ns[r] # "terminating"
      BY <1>0, <3>2 DEF Namespaces, RunInv, ServiceInv
    <3>. QED  BY <1>0, <2>1, <2>4, <3>1, <3>3, WorldRuns
  <2>. QED  BY <1>5, <2>2, <2>3
<1>6. ASSUME NEW p \in Ids, ScriptAwaits(p) \/ OpAnswers(p)  PROVE RunInv(r)'
  <2>1. PICK up \in {"awaiting", "running", "gone"} : procs' = [procs EXCEPT ![p].up = up]
    BY <1>6 DEF ScriptAwaits, OpAnswers
  <2>. DEFINE q == [procs[p] EXCEPT !.up = up]
  <2>2. kind = "deno" /\ UNCHANGED <<kind, conf, run, dirs, objs, cluster, faults>>
    BY <1>6 DEF ScriptAwaits, OpAnswers, LocalRest
  <2>3. /\ procs' = [procs EXCEPT ![p] = q] /\ q.code = procs[p].code /\ q.up = up
        /\ q \in [up : {"no", "pending", "running", "awaiting", "orphaned", "ended", "gone"}, code : {"none", "zero", "nonzero"}, out : Written]
    BY <1>0, <2>1
  <2>4. procs'[p].up = up
    BY <1>0, <2>1
  <2>5. \/ procs[p].up = "running" /\ up = "awaiting"
        \/ procs[p].up = "awaiting" /\ up = (IF run[p[1]].timedout THEN "gone" ELSE "running")
    BY <1>0, <1>6, <2>4 DEF ScriptAwaits, OpAnswers
  <2>. HIDE DEF q
  <2>6. Moves(p, q)
    BY <2>2, <2>3, <2>5 DEF Moves
  <2>. QED  BY <1>1, <2>2, <2>3, <2>6
<1>. QED  BY <1>2, <1>3, <1>4, <1>5, <1>6 DEF ProcessNext, ScriptNext, ClusterStep

-----------------------------------------------------------------------------
(* All of it.                                                              *)

\* What a runner does to processes.
LEMMA RunnerProcs ==
  ASSUME NEW r \in Runners,
         \/ NoMount(r) \/ Unmount(r) \/ Again(r) \/ K8sStep(r) \/ K8sFault(r) \/ K8sCopyOut(r)
         \/ CtrStep(r) \/ CtrWaitFails(r) \/ CtrCleanupFails(r) \/ CtrProvisionFails(r) \/ LocalStep(r) \/ CargoPagesFail(r)
  PROVE  \/ procs' = procs \/ \E left \in {"gone", "orphaned"} : Killed(Id(r), left)
         \/ kind # K /\ run[r].pc \notin Over \cup {"wait"} /\ Spawn(Id(r))
         \/ procs' = [procs EXCEPT ![Id(r)].up = "ended", ![Id(r)].code = "zero"]
<1>1. CASE NoMount(r) \/ Unmount(r) \/ Again(r)
  BY <1>1 DEF NoMount, Unmount, Again
<1>2. CASE K8sStep(r) \/ K8sFault(r) \/ K8sCopyOut(r)
  BY <1>2 DEF K8sStep, K8sFault, K8sMount, Mounts, MountsNot, K8sClient, Calls, K8sNamespace, K8sProvisionNs, NamespaceGet,
              NamespaceCreate, NamespaceTaken, K8sVolume, K8sCreateJob, K8sCopyIn, K8sFindPod, K8sPodRunning, K8sPodLost,
              K8sComplete, K8sTimeout, K8sDelete, K8sProvision, K8sTeardown, K8sUnbound, K8sCopyInFails, K8sGivesUp,
              K8sStreamBreaks, K8sWatchFails, K8sDeleteFails, K8sNotReady, K8sCopyOut
<1>3. CASE CtrStart(r)
  <2>1. kind # K /\ run[r].pc \notin Over \cup {"wait"}
    BY <1>3 DEF CtrStart, CtrAt, At, D, K, Over
  <2>. QED  BY <1>3, <2>1 DEF CtrStart
<1>4. CASE (CtrStep(r) /\ ~CtrStart(r)) \/ CtrWaitFails(r) \/ CtrCleanupFails(r) \/ CtrProvisionFails(r)
  BY <1>4 DEF CtrStep, CtrMount, Mounts, MountsNot, CtrConnect, CtrVersion, CtrImage, CtrCreate, CtrChain, CtrSnapshot,
              CtrApply, Calls, CtrIoDir, CtrWait, CtrTimeout, CtrProvision, CtrTaken, CtrProvisionFails, CtrTeardown, SvcRest,
              CtrWaitFails, CtrCleanupFails
<1>5. ASSUME NEW k \in LocalKinds \ {"git"}, NEW pc \in {"ready", "tool", "solve"}, Starts(r, k, pc)
      PROVE  procs' = procs \/ (kind # K /\ run[r].pc \notin Over \cup {"wait"} /\ Spawn(Id(r)))
  BY <1>5 DEF Starts, At, LocalKinds, K, Over
<1>6. CASE LocalStep(r) \/ CargoPagesFail(r)
  BY <1>5, <1>6, LocalShapes DEF LocalShape, Mounts, MountsNot, Calls, Returns, DropsLocal, KillsLocal,
                                 DenoTimeout, CargoPagesFail, GitOverride, GitClone, GitStore
<1>. QED  BY <1>1, <1>2, <1>3, <1>4, <1>6

LEMMA CodeKeeps ==
  ASSUME TypeOK, StepsInv, [Next]_vars
  PROVE  CodeInv'
<1>0. /\ procs \in [Ids -> [up : {"no", "pending", "running", "awaiting", "orphaned", "ended", "gone"}, code : {"none", "zero", "nonzero"}, out : Written]]
      /\ CodeInv
  BY DEF TypeOK, StepsInv
<1>1. ASSUME procs' = procs  PROVE CodeInv'
  BY <1>0, <1>1 DEF CodeInv, Ids
<1>2. ASSUME NEW p \in Ids, \A s \in Ids \ {p} : procs'[s] = procs[s],
             procs'[p].code # "none" => procs'[p].up \in {"ended", "gone"}
      PROVE  CodeInv'
  BY <1>0, <1>2 DEF CodeInv, Ids
<1>3. ASSUME NEW r \in Runners,
             \/ NoMount(r) \/ Unmount(r) \/ Again(r) \/ K8sStep(r) \/ K8sFault(r) \/ K8sCopyOut(r)
             \/ CtrStep(r) \/ CtrWaitFails(r) \/ CtrCleanupFails(r) \/ CtrProvisionFails(r) \/ LocalStep(r) \/ CargoPagesFail(r)
      PROVE  CodeInv'
  <2>0. Id(r) \in Ids
    BY Typed
  <2>1. CASE \E left \in {"gone", "orphaned"} : Killed(Id(r), left)
    <3>1. /\ \A s \in Ids \ {Id(r)} : procs'[s] = procs[s]
          /\ procs'[Id(r)].code = procs[Id(r)].code
          /\ procs[Id(r)].up # "running" => procs'[Id(r)].up = procs[Id(r)].up
      BY <1>0, <2>0, <2>1 DEF Killed
    <3>2. procs'[Id(r)].code # "none" => procs'[Id(r)].up \in {"ended", "gone"}
      BY <1>0, <2>0, <3>1 DEF CodeInv
    <3>. QED  BY <1>2, <2>0, <3>1, <3>2
  <2>2. CASE kind # K /\ run[r].pc \notin Over \cup {"wait"} /\ Spawn(Id(r))
    <3>1. procs[Id(r)].up = "no"
      BY <2>2 DEF StepsInv, RunInv, TryInv
    <3>2. procs[Id(r)].code = "none"
      BY <1>0, <2>0, <3>1 DEF CodeInv
    <3>3. (\A s \in Ids \ {Id(r)} : procs'[s] = procs[s]) /\ procs'[Id(r)].code = "none"
      BY <1>0, <2>0, <2>2, <3>2 DEF Spawn
    <3>. QED  BY <1>2, <2>0, <3>3
  <2>3. CASE procs' = [procs EXCEPT ![Id(r)].up = "ended", ![Id(r)].code = "zero"]
    <3>1. (\A s \in Ids \ {Id(r)} : procs'[s] = procs[s]) /\ procs'[Id(r)].up = "ended"
      BY <1>0, <2>0, <2>3
    <3>. QED  BY <1>2, <2>0, <3>1
  <2>. QED  BY <1>1, <1>3, <2>1, <2>2, <2>3, RunnerProcs
<1>4. ASSUME NEW p \in Ids, \/ ProcessEnds(p) \/ ProcessWrites(p) \/ PodCreated(p) \/ PodStarts(p) \/ PodGone(p)
                           \/ ScriptAwaits(p) \/ OpAnswers(p)
      PROVE  CodeInv'
  <2>1. \A s \in Ids \ {p} : procs'[s] = procs[s]
    BY <1>0, <1>4 DEF ProcessEnds, ProcessWrites, PodCreated, PodStarts, PodGone, ScriptAwaits, OpAnswers, Spawn
  <2>2. procs'[p].code # "none" => procs'[p].up \in {"ended", "gone"}
    <3>1. CASE ProcessEnds(p) \/ PodGone(p)
      BY <1>0, <3>1 DEF ProcessEnds, PodGone
    <3>2. CASE PodCreated(p) \/ PodStarts(p)
      BY <1>0, <3>2 DEF PodCreated, PodStarts, Spawn, CodeInv
    <3>3. CASE ProcessWrites(p)
      BY <1>0, <3>3 DEF ProcessWrites, CodeInv
    <3>4. CASE ScriptAwaits(p) \/ OpAnswers(p)
      BY <1>0, <3>4 DEF ScriptAwaits, OpAnswers, CodeInv
    <3>. QED  BY <1>4, <3>1, <3>2, <3>3, <3>4
  <2>. QED  BY <1>2, <2>1, <2>2
<1>5. CASE \E n \in Namespaces : NamespaceGone(n) \/ CleanupStale(n)
  BY <1>1, <1>5 DEF NamespaceGone, CleanupStale
<1>6. CASE UNCHANGED vars
  BY <1>1, <1>6 DEF vars
<1>. QED
  BY <1>3, <1>4, <1>5, <1>6 DEF Next, ExecutorNext, ProcessNext, K8sNext, ClusterStep, CtrNext, LocalNext, ScriptNext

\* What a runner does to directories.
NewDirs(r) ==
  MountDirs(r) \cup {<<r, run[r].try, "io">>} \cup (IF Has("outputs") THEN {<<r, run[r].try, "out">>} ELSE {})
LEMMA RunnerDirs ==
  ASSUME NEW r \in Runners,
         \/ NoMount(r) \/ Unmount(r) \/ Again(r) \/ K8sStep(r) \/ K8sFault(r) \/ K8sCopyOut(r)
         \/ CtrStep(r) \/ CtrWaitFails(r) \/ CtrCleanupFails(r) \/ CtrProvisionFails(r) \/ LocalStep(r) \/ CargoPagesFail(r)
  PROVE  dirs' \subseteq dirs \cup NewDirs(r)
<1>0. InDir(r) \subseteq MountDirs(r) /\ MountDirs(r) \subseteq NewDirs(r)
  BY DEF MountDirs, NewDirs
<1>1. CASE NoMount(r) \/ Unmount(r) \/ Again(r)
  BY <1>1 DEF NoMount, Unmount, Again
<1>2. ASSUME NEW k, NEW new \in SUBSET MountDirs(r), Mounts(r, k, new) \/ MountsNot(r, k, new)
      PROVE  dirs' \subseteq dirs \cup NewDirs(r)
  BY <1>0, <1>2 DEF Mounts, MountsNot
<1>3. CASE K8sCopyOut(r)
  BY <1>3 DEF K8sCopyOut, NewDirs
<1>4. CASE K8sMount(r)
  BY <1>0, <1>2, <1>4 DEF K8sMount
<1>5. CASE (K8sStep(r) /\ ~K8sMount(r)) \/ K8sFault(r)
  BY <1>5 DEF K8sStep, K8sFault, K8sClient, Calls, K8sNamespace, K8sProvisionNs, NamespaceGet,
              NamespaceCreate, NamespaceTaken, K8sVolume, K8sCreateJob, K8sCopyIn, K8sFindPod, K8sPodRunning, K8sPodLost,
              K8sComplete, K8sTimeout, K8sDelete, K8sProvision, K8sTeardown, K8sUnbound, K8sCopyInFails, K8sGivesUp,
              K8sStreamBreaks, K8sWatchFails, K8sDeleteFails, K8sNotReady
<1>6. CASE CtrMount(r)
  BY <1>2, <1>6 DEF CtrMount
<1>7. CASE CtrIoDir(r)
  BY <1>7 DEF CtrIoDir, IoDir, NewDirs
<1>8. CASE (CtrStep(r) /\ ~CtrMount(r) /\ ~CtrIoDir(r)) \/ CtrWaitFails(r) \/ CtrCleanupFails(r) \/ CtrProvisionFails(r)
  BY <1>8 DEF CtrStep, CtrConnect, CtrVersion, CtrImage, CtrCreate, CtrChain, CtrSnapshot, CtrApply, Calls, CtrStart,
              CtrWait, CtrTimeout, Cleaned, CtrProvision, CtrTaken, CtrProvisionFails, CtrTeardown, SvcRest,
              CtrWaitFails, CtrCleanupFails
<1>9. CASE LocalStep(r) \/ CargoPagesFail(r)
  BY <1>2, <1>9, LocalShapes DEF LocalShape, Calls, Starts, Returns, Waiting, DropsLocal, KillsLocal,
                                 DenoTimeout, CargoPagesFail, GitOverride, GitClone, GitStore
<1>. QED  BY <1>1, <1>3, <1>4, <1>5, <1>6, <1>7, <1>8, <1>9

\* A directory that is kept comes from a relative mount point or from an output.
LEMMA KeptKeeps ==
  ASSUME TypeOK, StepsInv, [Next]_vars
  PROVE  KeptInv'
<1>1. ASSUME conf' = conf, dirs' \subseteq dirs  PROVE KeptInv'
  BY <1>1 DEF StepsInv, KeptInv, Kept, Has
<1>2. ASSUME NEW r \in Runners, Frame(r), dirs' \subseteq dirs \cup NewDirs(r)  PROVE KeptInv'
  <2>1. conf' = conf
    BY <1>2 DEF Frame
  <2>2. \A d \in NewDirs(r) : d[3] \in {"base", "out"} => Kept(d[3])
    BY DEF NewDirs, MountDirs, InDir, Kept
  <2>. QED  BY <1>2, <2>1, <2>2 DEF StepsInv, KeptInv, Kept, Has
<1>3. CASE ExecutorNext
  BY <1>2, <1>3, ExecutorFrames, RunnerDirs DEF ExecutorNext
<1>4. CASE \E r \in Runners : K8sStep(r) \/ K8sFault(r) \/ K8sCopyOut(r)
  BY <1>2, <1>4, K8sFrames, RunnerDirs
<1>5. CASE CtrNext
  BY <1>2, <1>5, CtrFrames, RunnerDirs DEF CtrNext
<1>6. CASE \E r \in Runners : LocalStep(r) \/ CargoPagesFail(r)
  BY <1>2, <1>6, LocalFrames, RunnerDirs
<1>7. CASE ProcessNext \/ ScriptNext \/ ClusterStep \/ \E n \in Namespaces : CleanupStale(n)
  BY <1>1, <1>7 DEF ProcessNext, ProcessEnds, ProcessWrites, ScriptNext, ScriptAwaits, OpAnswers, LocalRest, ClusterStep,
                    PodCreated, PodStarts, PodGone, NamespaceGone, CleanupStale, K8sRest
<1>8. CASE UNCHANGED vars
  BY <1>1, <1>8 DEF vars
<1>. QED  BY <1>3, <1>4, <1>5, <1>6, <1>7, <1>8 DEF Next, K8sNext, LocalNext

LEMMA InvInit ==
  ASSUME Init
  PROVE  StepsInv
<1>0. /\ \A r \in Runners : /\ run[r].pc = (IF r # Root /\ ~Has("family") THEN "done" ELSE Entry(r)) /\ run[r].try = 1
                            /\ ~run[r].mounted /\ run[r].hit = "none" /\ ~run[r].timedout /\ run[r].result = "none"
      /\ \A p \in Ids : procs[p].up = "no" /\ procs[p].code = "none"
      /\ dirs = {} /\ objs = {} /\ cluster.jobs = {} /\ cluster.svcs = {}
  BY DEF Init
<1>1. 1 \in 1 .. MaxTries
  BY RunnersAssumption
<1>2. ASSUME NEW r \in Runners  PROVE RunInv(r)
  <2>0. run[r].pc \in {"begin", "idle", "done"} /\ Id(r) \in Ids /\ (run[r].pc = "begin" => Serviced(r))
    BY <1>0, <1>1 DEF Entry, Id, Ids
  <2>1. TryInv(r)
    <3>1. \A t \in 1 .. MaxTries : Untouched(<<r, t>>)
      BY <1>0 DEF Untouched, Ids
    <3>. QED  BY <1>0, <2>0, <3>1 DEF TryInv
  <2>2. VerdictInv(r) /\ LeftInv(r) /\ StopInv(r) /\ ServiceInv(r)
    BY <1>0, <2>0 DEF VerdictInv, LeftInv, StopInv, ServiceInv, WithJob, Provisioning
  <2>. QED  BY <2>1, <2>2 DEF RunInv
<1>. QED  BY <1>0, <1>2 DEF StepsInv, CodeInv, KeptInv

LEMMA InvStep ==
  ASSUME TypeOK, StepsInv, [Next]_vars
  PROVE  StepsInv'
<1>1. CASE UNCHANGED vars
  <2>1. \A r \in Runners : RunInv(r)'
    <3>. SUFFICES ASSUME NEW r \in Runners  PROVE RunInv(r)'
      OBVIOUS
    <3>1. RunInv(r) /\ (kind = K /\ r \in cluster.svcs => cluster.ns[r] # "absent")
      BY DEF StepsInv, RunInv, ServiceInv
    <3>2. UNCHANGED <<kind, conf, run, dirs, objs, faults>> /\ cluster' = cluster /\ procs' = procs
      BY <1>1 DEF vars
    <3>3. \A p \in Ids : Moves(p, procs'[p])
      BY <3>2 DEF Moves, TypeOK
    <3>. QED  BY <3>1, <3>2, <3>3, WorldRuns
  <2>. QED  BY <2>1, CodeKeeps, KeptKeeps DEF StepsInv
<1>2. ASSUME NEW r \in Runners, Frame(r), RunInv(r)'  PROVE \A s \in Runners : RunInv(s)'
  BY <1>2, OthersKeep DEF StepsInv
<1>3. CASE ExecutorNext
  BY <1>2, <1>3, CodeKeeps, KeptKeeps, ExecutorFrames, ExecutorKeeps DEF ExecutorNext, StepsInv
<1>4. CASE \E r \in Runners : K8sStep(r) \/ K8sFault(r) \/ K8sCopyOut(r)
  BY <1>2, <1>4, CodeKeeps, KeptKeeps, K8sFrames, K8sKeeps DEF StepsInv
<1>5. CASE CtrNext
  BY <1>2, <1>5, CodeKeeps, KeptKeeps, CtrFrames, CtrKeeps DEF CtrNext, StepsInv
<1>6. CASE \E r \in Runners : LocalStep(r) \/ CargoPagesFail(r)
  BY <1>2, <1>6, CodeKeeps, KeptKeeps, LocalFrames, LocalKeeps DEF StepsInv
<1>7. CASE ProcessNext \/ ScriptNext \/ ClusterStep \/ \E n \in Namespaces : CleanupStale(n)
  BY <1>7, CodeKeeps, KeptKeeps, WorldKeeps DEF StepsInv
<1>. QED  BY <1>1, <1>3, <1>4, <1>5, <1>6, <1>7 DEF Next, K8sNext, LocalNext

LEMMA InvAlways == Spec => [](TypeOK /\ StepsInv)
<1>1. Init => TypeOK /\ StepsInv
  BY TypeInit, InvInit
<1>2. TypeOK /\ StepsInv /\ [Next]_vars => (TypeOK /\ StepsInv)'
  BY TypeStep, InvStep
<1>. QED  BY <1>1, <1>2, PTL DEF Spec

\* A step that is reported as a success ran its own command to the end, on every
\* path, retry, timeout and interleaving of the family: the exit code it was
\* judged by is that of its try and was 0.  A Kubernetes step that took a
\* sibling's pod for its own is excepted: OwnPod says that this happens.
THEOREM SuccessesAreReal == Spec => []SuccessIsReal
<1>1. TypeOK /\ StepsInv => SuccessIsReal
  BY DEF StepsInv, RunInv, VerdictInv, SuccessIsReal
<1>. QED  BY <1>1, InvAlways, PTL

\* A run that is over has removed its job, its container and its directories,
\* unless a call that failed kept it from that; deleting a job by its name, as a
\* sibling of the same step name does, leaves no job of the try either.  What
\* stays is the parent of a relative mount point and the copy of an output,
\* where the definition has them.
THEOREM RunsAreTidy == Spec => []Tidy
<1>1. TypeOK /\ StepsInv => Tidy
  <2>. SUFFICES ASSUME TypeOK, StepsInv, NEW r \in Runners, run[r].pc \in {"teardown", "done"}, run[r].hit = "none"
                PROVE  /\ Id(r) \notin cluster.jobs
                       /\ kind = D => Id(r) \notin objs
                       /\ \A use \in {"in", "base", "io", "out"} : <<r, run[r].try, use>> \in dirs => Kept(use)
    BY DEF Tidy
  <2>1. /\ Id(r) \notin cluster.jobs
        /\ kind = D => Id(r) \notin objs
        /\ \A use \in {"in", "io"} : <<r, run[r].try, use>> \notin dirs
    BY DEF StepsInv, RunInv, LeftInv, WithJob, WithContainer
  <2>2. \A use \in {"base", "out"} : <<r, run[r].try, use>> \in dirs => Kept(use)
    BY DEF StepsInv, KeptInv
  <2>. QED  BY <2>1, <2>2
<1>. QED  BY <1>1, InvAlways, PTL

\* When a run that timed out is over, what it waited for has stopped: sh, though
\* not what sh had started, the script of Deno, for whose op the run waits first,
\* the pod of a job, which is in its grace period or gone.
THEOREM TimeoutsStop == Spec => []TimeoutStops
<1>1. TypeOK /\ StepsInv => TimeoutStops
  <2>. SUFFICES ASSUME TypeOK, StepsInv, NEW r \in Runners, Stops(kind), run[r].pc \in {"teardown", "done"},
                       run[r].timedout, run[r].hit = "none"
                PROVE  \/ procs[Id(r)].up \in {"no", "ended", "gone"} \/ Id(r) \in cluster.doomed
                       \/ kind = "shell" /\ procs[Id(r)].up = "orphaned"
    BY DEF TimeoutStops
  <2>. QED  BY DEF StepsInv, RunInv, StopInv, Over
<1>. QED  BY <1>1, InvAlways, PTL

\* Whichever calls fail, a pass that had its services leaves none in a namespace
\* that stays and no record of one in containerd.  Whether the task of the
\* service stops is another matter: ServicesStop says that it need not.
THEOREM ServicesAreTornDown == Spec => []ServicesTornDown
<1>1. TypeOK /\ StepsInv => ServicesTornDown
  <2>. SUFFICES ASSUME TypeOK, StepsInv, NEW r \in Runners, run[r].pc = "done", run[r].hit # "service"
                PROVE  /\ kind = K /\ r \in cluster.svcs => cluster.ns[NsOf(r)] = "terminating"
                       /\ <<r, 0>> \notin objs
    BY DEF ServicesTornDown
  <2>. QED  BY DEF StepsInv, RunInv, ServiceInv, NsOf
<1>. QED  BY <1>1, InvAlways, PTL
=============================================================================
