------------------------------ MODULE Registry ------------------------------
(***************************************************************************)
(* The two registries of one host, the workflow definitions and the step   *)
(* factories, and the tasks that share them: the workflow consumer, the    *)
(* callers that register workflows and the callers that start them.  Each  *)
(* registry is behind a tokio RwLock, which serves its waiters in order: a *)
(* reader that comes after a waiting writer waits for that writer, also    *)
(* when the lock is held by readers only.                                  *)
(*                                                                         *)
(* The consumer keeps its read guard on the definitions for the whole pass *)
(* of an instance, and a sub-workflow step takes a second one from inside  *)
(* the pass.  What is stored in an instance and how a pass runs is left to *)
(* Engine: here a pass is what happens between two acquisitions.           *)
(***************************************************************************)
EXTENDS Naturals, Sequences, FiniteSets

CONSTANTS
  Yaml,       \* definitions that RegisterWorkflow compiles and registers
  Coded,      \* definitions registered by register_workflow, then register_step
  Parents,    \* definitions with a sub-workflow step
  Declaring,  \* definitions that declare services
  Provided,   \* those whose services a ServiceProvider of this host can provision
  Starters,   \* callers of start_workflow
  Consumer    \* the workflow consumer of this host

\* A registrar is named by the definition that it registers.
Registrars == Yaml \cup Coded

ASSUME TasksAssumption ==
  /\ Yaml \cap Coded = {}
  /\ Starters \cap Registrars = {}
  /\ Consumer \notin Registrars \cup Starters
  /\ Parents \subseteq Registrars
  /\ Provided \subseteq Declaring /\ Declaring \subseteq Registrars

Tasks == Registrars \cup Starters \cup {Consumer}
Locks == {"definitions", "steps"}
Modes == {"read", "write"}

VARIABLES
  definitions,  \* registered definitions
  factories,    \* definitions all of whose step types are registered
  pc,           \* where each task is
  work,         \* the definition of the instance the consumer is at
  guards,       \* guards[l][m][t]: how many guards of mode m on l task t holds
  waiters       \* waiters[l]: the requests that lock l has not granted, in order

vars == <<definitions, factories, pc, work, guards, waiters>>

Init ==
  /\ definitions = {}
  /\ factories = {}
  /\ pc = [t \in Tasks |-> "start"]
  /\ work \in Registrars
  /\ guards = [l \in Locks |-> [m \in Modes |-> [t \in Tasks |-> 0]]]
  /\ waiters = [l \in Locks |-> <<>>]

-----------------------------------------------------------------------------
(* tokio's RwLock *)

Held(l, m) == \E t \in Tasks : guards[l][m][t] > 0
Asked(t, l, m) == waiters' = [waiters EXCEPT ![l] = Append(@, [task |-> t, mode |-> m])]
Waiting(t) == \E l \in Locks : \E i \in DOMAIN waiters[l] : waiters[l][i].task = t

\* the guards after task t drops one of mode m on lock l
Dropped(g, t, l, m) == [g EXCEPT ![l][m][t] = @ - 1]

\* the guards after an iteration of the consumer, which ends those it holds
IterationOver == [l \in Locks |-> [guards[l] EXCEPT !["read"][Consumer] = 0]]

\* The request at the head of the queue is granted when no guard excludes it.
Grant(l) ==
  /\ waiters[l] # <<>>
  /\ LET w == Head(waiters[l])
     IN  /\ ~Held(l, "write")
         /\ w.mode = "write" => ~Held(l, "read")
         /\ guards' = [guards EXCEPT ![l][w.mode][w.task] = @ + 1]
  /\ waiters' = [waiters EXCEPT ![l] = Tail(@)]
  /\ UNCHANGED <<definitions, factories, pc, work>>

\* Task t, which waits for nothing, goes from one point of its code to another.
Goes(t, from, to) ==
  /\ pc[t] = from
  /\ ~Waiting(t)
  /\ pc' = [pc EXCEPT ![t] = to]

-----------------------------------------------------------------------------
(* The workflow consumer *)

\* It dequeues an instance, of any definition, and asks for the definitions.
ConsumerLook ==
  /\ Goes(Consumer, "start", "looking")
  /\ work' \in Registrars
  /\ Asked(Consumer, "definitions", "read")
  /\ UNCHANGED <<definitions, factories, guards>>

\* The definition is not registered: the work item is dropped.
ConsumerMissing ==
  /\ Goes(Consumer, "looking", "start")
  /\ work \notin definitions
  /\ guards' = IterationOver
  /\ UNCHANGED <<definitions, factories, work, waiters>>

\* It is: the consumer, keeping the guard, asks for the step factories.
ConsumerFound ==
  /\ Goes(Consumer, "looking", "checking")
  /\ work \in definitions
  /\ Asked(Consumer, "steps", "read")
  /\ UNCHANGED <<definitions, factories, work, guards>>

\* Every step type is registered here, and so is a provider for the services.
can_execute_workflow(d) == d \in factories /\ (d \in Declaring => d \in Provided)

\* can_execute_workflow says no: both guards are dropped, the item requeued.
ConsumerBounce ==
  /\ Goes(Consumer, "checking", "start")
  /\ ~can_execute_workflow(work)
  /\ guards' = IterationOver
  /\ UNCHANGED <<definitions, factories, work, waiters>>

\* Slip: the first guard on the factories outlives its block.
ConsumerAcceptKeeping ==
  /\ Goes(Consumer, "checking", "accepted")
  /\ can_execute_workflow(work)
  /\ UNCHANGED <<definitions, factories, work, guards, waiters>>

\* It says yes: the guard on the factories ends with its block.  Services are
\* provisioned here.
ConsumerAccept ==
  /\ Goes(Consumer, "checking", "accepted")
  /\ can_execute_workflow(work)
  /\ guards' = Dropped(guards, Consumer, "steps", "read")
  /\ UNCHANGED <<definitions, factories, work, waiters>>

\* The factories are taken again, for the whole of the pass.
ConsumerExecute ==
  /\ Goes(Consumer, "accepted", "pass")
  /\ Asked(Consumer, "steps", "read")
  /\ UNCHANGED <<definitions, factories, work, guards>>

\* A sub-workflow step of the pass calls start_workflow of the host context,
\* which asks for the definitions again.  (One child per pass.)
StartChild ==
  /\ Goes(Consumer, "pass", "child")
  /\ work \in Parents
  /\ Asked(Consumer, "definitions", "read")
  /\ UNCHANGED <<definitions, factories, work, guards>>

ChildStarted ==
  /\ Goes(Consumer, "child", "last step")
  /\ guards' = Dropped(guards, Consumer, "definitions", "read")
  /\ UNCHANGED <<definitions, factories, work, waiters>>

\* The pass is over, services are torn down, and both guards end.
ConsumerEnd ==
  /\ \/ Goes(Consumer, "pass", "start")
     \/ Goes(Consumer, "last step", "start")
  /\ guards' = IterationOver
  /\ UNCHANGED <<definitions, factories, work, waiters>>

-----------------------------------------------------------------------------
(* Callers *)

\* register_step_factory, or register_step
AskSteps(r, from) ==
  /\ Goes(r, from, "writing steps")
  /\ Asked(r, "steps", "write")
  /\ UNCHANGED <<definitions, factories, work, guards>>

WriteSteps(r, to) ==
  /\ Goes(r, "writing steps", to)
  /\ factories' = factories \cup {r}
  /\ guards' = Dropped(guards, r, "steps", "write")
  /\ UNCHANGED <<definitions, work, waiters>>

\* register_workflow_definition, or register_workflow
AskDefinitions(r, from) ==
  /\ Goes(r, from, "writing definitions")
  /\ Asked(r, "definitions", "write")
  /\ UNCHANGED <<definitions, factories, work, guards>>

WriteDefinitions(r, to) ==
  /\ Goes(r, "writing definitions", to)
  /\ definitions' = definitions \cup {r}
  /\ guards' = Dropped(guards, r, "definitions", "write")
  /\ UNCHANGED <<factories, work, waiters>>

\* Slip: RegisterWorkflow registers the definition before its factories.
RegisterYamlReversed(r) ==
  \/ AskDefinitions(r, "start") \/ WriteDefinitions(r, "next")
  \/ AskSteps(r, "next") \/ WriteSteps(r, "done")

\* RegisterWorkflow: the factories of a compiled workflow, then its definition
RegisterYaml(r) ==
  \/ AskSteps(r, "start") \/ WriteSteps(r, "next")
  \/ AskDefinitions(r, "next") \/ WriteDefinitions(r, "done")

\* A program that embeds the host registers the workflow, and the step types
\* at any time before or after; here after.
RegisterCoded(r) ==
  \/ AskDefinitions(r, "start") \/ WriteDefinitions(r, "next")
  \/ AskSteps(r, "next") \/ WriteSteps(r, "done")

\* start_workflow_with_name holds the definitions until it returns.
AskStart(s) ==
  /\ Goes(s, "start", "starting")
  /\ Asked(s, "definitions", "read")
  /\ UNCHANGED <<definitions, factories, work, guards>>

Started(s) ==
  /\ Goes(s, "starting", "done")
  /\ guards' = Dropped(guards, s, "definitions", "read")
  /\ UNCHANGED <<definitions, factories, work, waiters>>

-----------------------------------------------------------------------------
Dequeue == ConsumerLook
Pass ==
  \/ ConsumerMissing \/ ConsumerFound \/ ConsumerBounce \/ ConsumerAccept
  \/ ConsumerExecute \/ StartChild \/ ChildStarted \/ ConsumerEnd
Registers(r) == (r \in Yaml /\ RegisterYaml(r)) \/ (r \in Coded /\ RegisterCoded(r))
Starts(s) == AskStart(s) \/ Started(s)

Next ==
  \/ Dequeue \/ Pass
  \/ \E l \in Locks : Grant(l)
  \/ \E r \in Registrars : Registers(r)
  \/ \E s \in Starters : Starts(s)

Spec == Init /\ [][Next]_vars

\* Every task that can go on does, once it is called; steps of workflows and
\* the services of persistence return; tokio grants a lock that is free.
Fairness ==
  /\ WF_vars(Pass)
  /\ \A l \in Locks : WF_vars(Grant(l))
  /\ \A r \in Registrars : WF_vars(Registers(r) /\ pc[r] # "start")
  /\ \A s \in Starters : WF_vars(Starts(s) /\ pc[s] # "start")

FairSpec == Spec /\ Fairness

-----------------------------------------------------------------------------
(* Properties *)

\* The state is well formed: a task holds at most two guards of one lock (the
\* consumer's guard of the pass and the one of start_workflow inside it), and
\* a write guard excludes every other.
TypeOK ==
  /\ definitions \subseteq Registrars
  /\ factories \subseteq Registrars
  /\ pc \in [Tasks -> {"start", "looking", "checking", "accepted", "pass", "child",
                       "last step", "writing steps", "writing definitions", "next",
                       "starting", "done"}]
  /\ work \in Registrars
  /\ guards \in [Locks -> [Modes -> [Tasks -> 0..2]]]
  /\ waiters \in [Locks -> Seq([task : Tasks, mode : Modes])]
  /\ \A l \in Locks : Held(l, "write") =>
       /\ ~Held(l, "read")
       /\ \E t \in Tasks : guards[l]["write"] = [u \in Tasks |-> IF u = t THEN 1 ELSE 0]

\* RegisterWorkflow registers every step factory before the definition that
\* names it, so the host that compiled a workflow bounces an instance of it only
\* for want of its services, never because the consumer looked between the two
\* writes.
CompiledCanExecute ==
  pc[Consumer] = "checking" /\ ~Waiting(Consumer) /\ work \in Yaml
    => can_execute_workflow(work) \/ work \in Declaring \ Provided

\* The host that compiled a workflow can execute it.
CompiledRuns ==
  pc[Consumer] = "checking" /\ ~Waiting(Consumer) /\ work \in Yaml => can_execute_workflow(work)

\* Every call to register or to start a workflow returns: the consumer's
\* guards delay it, they do not block it for ever.  The one exception is a
\* sub-workflow step that waits for its second guard.
CallsReturn ==
  \A t \in Registrars \cup Starters :
    pc[t] # "start" ~> pc[t] = "done" \/ (pc[Consumer] = "child" /\ Waiting(Consumer))

\* "A step that starts a child workflow and waits for its completion": once
\* the step of a running pass has called start_workflow, the child is started.
ChildIsStarted == pc[Consumer] = "child" ~> pc[Consumer] = "last step"
=============================================================================
