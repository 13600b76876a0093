------------------------------- MODULE Tables -------------------------------
(***************************************************************************)
(* What a persistence provider keeps and who calls it.  MemoryStore,       *)
(* PostgresStore and SqliteStore add the calls, one action per statement   *)
(* that other clients can come between; a transaction is one step.         *)
(* ArtifactStore does the same for the artifacts beside them.              *)
(*                                                                         *)
(* An instance is a version v, the same in its row and in its tree of      *)
(* execution pointers when both come from one write.  A name is the number *)
(* the host got from next_definition_sequence, or 0 for the one name that  *)
(* callers choose themselves.  Times are due or not due yet.               *)
(***************************************************************************)
EXTENDS Naturals, FiniteSets

CONSTANTS
  Backends,   \* the providers to look at
  Clients,    \* tasks that call the provider, on any number of hosts
  Workflows,  \* instance ids
  Subs,       \* subscription ids
  Digests,    \* digests of artifacts
  Commands,   \* keys of scheduled commands
  Migrations, \* number of migration files
  Locked,     \* instances are loaded and stored under their lock
  MaxCalls,   \* bound on calls
  MaxFaults   \* bound on failing statements and dying clients

ASSUME BackendsAssumption == Backends \subseteq {"memory", "postgres", "sqlite", "files"}
ASSUME TablesAssumption == Locked \in BOOLEAN /\ {MaxCalls, MaxFaults, Migrations} \subseteq Nat
ASSUME ClientsAssumption == IsFiniteSet(Clients)
ASSUME NamesAssumption == {"none", "__terminated__"} \cap (Clients \cup Workflows \cup Subs \cup Digests) = {}

VARIABLES
  backend,
  workflows,  \* table: rows [v, name, waits]
  pointers,   \* table: version of the tree of each instance, 0 when it has none
  subs,       \* table: [state, token]
  events,     \* table: absent, new, processed
  sequences,  \* table: last number of the definition
  commands,   \* table: rows [key, due, gen, late]
  files,      \* artifact store: digests with a blob and the meta file of each;
              \* history: digests that put returned, digests that expired once
  db,         \* the database: whether it has the schema and who created it (history),
              \* migrations, advisory lock, the pool's connections
  cl,         \* the clients
  writes,     \* versions written so far
  handled,    \* history: commands (by gen) some handler has processed
  calls, faults

tables == <<workflows, pointers, subs, events, sequences, commands>>
vars == <<backend, tables, files, db, cl, writes, handled, calls, faults>>

NoRow == [v |-> 0, name |-> 0, waits |-> "none"]
Idle == [pc |-> "idle", w |-> "none", v |-> 0, tree |-> 0, n |-> 0, s |-> "none", todo |-> {}]

Init ==
  /\ backend \in Backends
  /\ workflows = [w \in Workflows |-> NoRow]
  /\ pointers = [w \in Workflows |-> 0]
  /\ subs = [s \in Subs |-> [state |-> "absent", token |-> "none"]]
  /\ events = "absent"
  /\ sequences = 0
  /\ commands = {}
  /\ files = [blobs |-> {}, meta |-> [d \in Digests |-> "none"], refs |-> {}, aged |-> {}]
  /\ \E there \in BOOLEAN :
       /\ backend # "postgres" => there
       /\ db = [schema |-> there, creator |-> "none", applied |-> 0, lock |-> "none",
                path |-> [c \in Clients |-> "app"], unrestored |-> {}]
  /\ cl = [c \in Clients |-> [Idle EXCEPT !.pc = IF backend = "postgres" THEN "boot" ELSE "idle"]]
  /\ writes = 0 /\ handled = {} /\ calls = 0 /\ faults = 0

At(c, b, pc) == backend = b /\ cl[c].pc = pc

\* A client makes a call of provider b, or goes on with one at pc.
Begin(c, b) == At(c, b, "idle") /\ calls < MaxCalls /\ calls' = calls + 1
Resume(c, b, pc) == At(c, b, pc) /\ UNCHANGED calls
Return(c) == cl' = [cl EXCEPT ![c] = Idle]
Aside == UNCHANGED <<backend, faults, files, db>>

\* Nobody else is between loading w and storing it.
Free(c, w) == Locked => \A d \in Clients \ {c} : cl[d].w # w

\* Row and tree of w are replaced together.
Stored(w, name, waits) ==
  /\ workflows' = [workflows EXCEPT ![w] = [v |-> writes + 1, name |-> name, waits |-> waits]]
  /\ pointers' = [pointers EXCEPT ![w] = writes + 1]
  /\ writes' = writes + 1

Names == {workflows[w].name : w \in {x \in Workflows : workflows[x] # NoRow}}

\* create_new_workflow: ids are fresh uuids; the name is the number drawn for
\* it or the caller's own.  unique: the table refuses a name twice.
Create(c, b, unique) ==
  /\ \E name \in {0, cl[c].n} :
       /\ IF name = 0 THEN Begin(c, b) ELSE Resume(c, b, "numbered")
       /\ IF unique /\ name \in Names
          THEN UNCHANGED <<workflows, pointers, writes>>
          ELSE \E w \in Workflows : workflows[w] = NoRow /\ Stored(w, name, "none")
  /\ Return(c) /\ Aside /\ UNCHANGED <<subs, events, sequences, commands, handled>>

\* next_definition_sequence: one statement, one lock.
Number(c, b) ==
  /\ Begin(c, b)
  /\ sequences' = sequences + 1
  /\ cl' = [cl EXCEPT ![c] = [Idle EXCEPT !.pc = "numbered", !.n = sequences + 1]]
  /\ Aside /\ UNCHANGED <<workflows, pointers, subs, events, commands, writes, handled>>

\* persist_workflow, in one transaction or under one lock.
Persist(c, b) ==
  /\ Resume(c, b, "loaded")
  /\ Stored(cl[c].w, cl[c].n, workflows[cl[c].w].waits)
  /\ Return(c) /\ Aside /\ UNCHANGED <<subs, events, sequences, commands, handled>>

\* persist_workflow_with_subscriptions in one transaction.
PersistWaiting(c, b) ==
  /\ Resume(c, b, "loaded")
  /\ \E s \in Subs :
       /\ subs[s].state = "absent"
       /\ Stored(cl[c].w, cl[c].n, s)
       /\ subs' = [subs EXCEPT ![s].state = "open"]
  /\ Return(c) /\ Aside /\ UNCHANGED <<events, sequences, commands, handled>>

\* get_workflow_instance: the row, then the pointers, in two statements.
GetRow(c, b, w) ==
  /\ Begin(c, b) /\ Free(c, w) /\ workflows[w] # NoRow
  /\ cl' = [cl EXCEPT ![c] = [Idle EXCEPT !.pc = "row", !.w = w, !.v = workflows[w].v,
              !.n = workflows[w].name]]
  /\ Aside /\ UNCHANGED <<tables, writes, handled>>

GetPointers(c, b) ==
  /\ Resume(c, b, "row")
  /\ cl' = [cl EXCEPT ![c].pc = "loaded", ![c].tree = pointers[cl[c].w]]
  /\ Aside /\ UNCHANGED <<tables, writes, handled>>

\* A change of subscription s alone.
Subscription(c, s, row) ==
  /\ subs' = [subs EXCEPT ![s] = row]
  /\ Aside /\ UNCHANGED <<workflows, pointers, events, sequences, commands, writes, handled>>

\* set_subscription_token, called with an id that get_first_open_subscription
\* or get_subscriptions gave at any earlier time.
SetToken(c, b, s, open) ==
  /\ Begin(c, b) /\ open
  /\ Subscription(c, s, [subs[s] EXCEPT !.token = c])
  /\ cl' = [cl EXCEPT ![c] = [Idle EXCEPT !.pc = "claimed", !.s = s]]

\* clear_subscription_token: another token, or no row, is an error.
ClearToken(c, b) ==
  /\ Resume(c, b, "claimed")
  /\ LET s == cl[c].s IN
     Subscription(c, s, IF subs[s].token = c THEN [subs[s] EXCEPT !.token = "none"] ELSE subs[s])
  /\ Return(c)

\* create_event; mark_event_processed and mark_event_unprocessed.
CreateEvent(c, b) ==
  /\ Begin(c, b) /\ events = "absent" /\ events' = "new"
  /\ Return(c) /\ Aside
  /\ UNCHANGED <<workflows, pointers, subs, sequences, commands, writes, handled>>
MarkEvent(c, b) ==
  /\ Begin(c, b) /\ events # "absent" /\ events' \in {"new", "processed"}
  /\ Return(c) /\ Aside
  /\ UNCHANGED <<workflows, pointers, subs, sequences, commands, writes, handled>>

\* Some process_commands is between finding the due commands and its end.
Processing == \E d \in Clients : cl[d].pc = "handling"
Command(k, due) == [key |-> k, due |-> due, gen |-> calls, late |-> due /\ Processing]
Scheduled(c, b, rows) ==
  /\ Begin(c, b) /\ commands' = rows
  /\ Return(c) /\ Aside
  /\ UNCHANGED <<workflows, pointers, subs, events, sequences, writes, handled>>

\* process_commands finds the due commands; kept is what stays in the table.
FindDue(c, b, kept) ==
  /\ Begin(c, b) /\ commands' = kept
  /\ cl' = [cl EXCEPT ![c] = [Idle EXCEPT !.pc = "handling", !.todo = {r \in commands : r.due}]]
  /\ Aside /\ UNCHANGED <<workflows, pointers, subs, events, sequences, writes, handled>>

\* A handler succeeds, and gone leaves the table.
Handle(c, b, r, gone) ==
  /\ Resume(c, b, "handling") /\ r \in cl[c].todo
  /\ handled' = handled \cup {r.gen} /\ commands' = commands \ gone
  /\ cl' = [cl EXCEPT ![c].todo = @ \ {r}]
  /\ Aside /\ UNCHANGED <<workflows, pointers, subs, events, sequences, writes>>

\* After the last handler.
Finish(c, b, gone) ==
  /\ Resume(c, b, "handling") /\ cl[c].todo = {}
  /\ commands' = commands \ gone
  /\ Return(c) /\ Aside
  /\ UNCHANGED <<workflows, pointers, subs, events, sequences, writes, handled>>
=============================================================================
