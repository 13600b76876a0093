------------------------------- MODULE Stores -------------------------------
(***************************************************************************)
(* The three persistence providers, and the artifact store, against what   *)
(* the host relies on.                                                     *)
(***************************************************************************)
EXTENDS MemoryStore, PostgresStore, SqliteStore, ArtifactStore

\* A statement of a call fails, a handler returns an error, or the client's
\* process dies: the call is over with what it has done so far.
CallFails(c) ==
  /\ cl[c].pc \notin Booting \cup {"idle", "down"}
  /\ faults < MaxFaults /\ faults' = faults + 1
  /\ Return(c)
  /\ UNCHANGED <<backend, tables, files, db, writes, handled, calls>>

Next == MemNext \/ PgNext \/ LiteNext \/ ArtNext \/ \E c \in Clients : CallFails(c)
Spec == Init /\ [][Next]_vars

-----------------------------------------------------------------------------
(* Properties.                                                             *)

Row == [v : Nat, name : Nat, waits : Subs \cup {"none"}]
Subscribed == [state : {"absent", "open", "terminated"}, token : Clients \cup {"none", "__terminated__"}]
CommandRow == [key : Commands, due : BOOLEAN, gen : Nat, late : BOOLEAN]
Artifacts ==
  [blobs : SUBSET Digests, meta : [Digests -> {"none", "torn", "fresh", "expired"}],
   refs : SUBSET Digests, aged : SUBSET Digests]
Database ==
  [schema : BOOLEAN, creator : Clients \cup {"none"}, applied : 0..Migrations, lock : Clients \cup {"none"}, path : [Clients -> {"app", "wfc"}],
   unrestored : SUBSET Clients]
Client ==
  [pc : Booting \cup {"down", "idle", "numbered", "row", "loaded", "subscribe", "claimed", "handling",
                      "spooled", "placed", "marking", "resolve", "open", "collect", "collected"},
   w : Workflows \cup {"none"}, v : Nat, tree : Nat, n : Nat, s : Subs \cup Digests \cup {"none"},
   todo : SUBSET (CommandRow \cup Digests)]

\* Every table and client stays well-formed: a client that is going to write or
\* claim something has it in hand.
TypeOK ==
  /\ backend \in Backends
  /\ workflows \in [Workflows -> Row] /\ pointers \in [Workflows -> Nat]
  /\ subs \in [Subs -> Subscribed]
  /\ events \in {"absent", "new", "processed"} /\ sequences \in Nat
  /\ commands \subseteq CommandRow
  /\ files \in Artifacts /\ db \in Database
  /\ cl \in [Clients -> Client]
  /\ \A c \in Clients :
       /\ cl[c].pc \in {"row", "loaded"} => cl[c].w \in Workflows
       /\ cl[c].pc \in {"subscribe", "claimed"} => cl[c].s \in Subs
       /\ cl[c].pc = "handling" => cl[c].todo \subseteq CommandRow
       /\ cl[c].pc \in {"spooled", "placed", "marking", "open", "collect", "collected"} => cl[c].s \in Digests
  /\ writes \in Nat /\ handled \subseteq Nat /\ calls \in 0..MaxCalls /\ faults \in 0..MaxFaults

\* Refinement.  Under the instance lock every provider keeps StoreContract: an
\* instance is stored and loaded whole although the SQL providers read its row
\* and its pointers in two statements, a number is given out once, a
\* subscription has one claimer.
Contract == INSTANCE StoreContract WITH
  Versions <- 1..MaxCalls + 1,
  inst <- [w \in Workflows |-> [v |-> workflows[w].v, tree |-> pointers[w]]],
  held <- [c \in Clients |-> IF cl[c].pc = "loaded" THEN [v |-> cl[c].v, tree |-> cl[c].tree]
                             ELSE [v |-> 0, tree |-> 0]],
  last <- sequences,
  number <- [c \in Clients |-> IF cl[c].pc = "numbered" THEN cl[c].n ELSE 0],
  claim <- [s \in Subs |-> {c \in Clients : cl[c].pc = "claimed" /\ cl[c].s = s}]
Implements == Contract!Spec

\* An instance the SQL providers store as waiting has its subscription stored,
\* whatever statement fails and whoever dies; and with every provider an event
\* finds the subscription until it is terminated, except while somebody holds
\* its claim.  A claim is let go again, unless the claimer died.
Found == CASE backend = "memory" -> MemGetSubscriptions
           [] backend = "postgres" -> PgGetSubscriptions
           [] backend = "sqlite" -> LiteGetSubscriptions
Claimed(s) == \E c \in Clients : cl[c].pc = "claimed" /\ cl[c].s = s
WaitersFound ==
  \A w \in Workflows : \A s \in {workflows[w].waits} \cap Subs :
    /\ backend # "memory" => subs[s].state # "absent"
    /\ subs[s].state = "open" => s \in Found \/ Claimed(s) \/ faults > 0

\* A command leaves the table of a SQL provider when a handler has succeeded
\* with it or a new time replaces its own, in spite of failing handlers and two
\* clients processing at once.  The exception is a due command that was
\* scheduled while somebody was processing.
CommandsKept == [][
  backend # "memory" => \A r \in commands \ commands' :
    r.gen \in handled' \/ r.late \/ \E n \in commands' : n.key = r.key]_vars

\* The same without the exception, as the comment in process_commands says.
OnlyProcessedDeleted == [][
  backend # "memory" => \A r \in commands \ commands' :
    r.gen \in handled' \/ \E n \in commands' : n.key = r.key]_vars

\* Hosts that start together on one database come up, with every migration
\* applied, unless a statement failed or another host created the schema while
\* this one was about to; so on a database with the schema all of them come up,
\* on a new one at least the one that created it.  A connection that is back in
\* the pool has the application's search_path, after a failed migration too,
\* unless restoring it is what failed.
StartsTogether == backend = "postgres" => \A c \in Clients :
  /\ cl[c].pc = "down" => faults > 0 \/ db.creator \notin {"none", c}
  /\ cl[c].pc \notin Booting \cup {"down"} => db.applied = Migrations
  /\ cl[c].pc \notin Booting => db.path[c] = "app" \/ c \in db.unrestored

\* Hosts that start together on a new database all come up.
AllStart == \A c \in Clients : cl[c].pc = "down" => faults > 0

\* A reference that put has returned keeps its blob until it expires, also when
\* a second put of the same bytes found the blob before the first had written
\* its meta file, or while others get it, or after one of them died; and get can
\* read its meta file, except while another put of the same bytes writes it, or
\* after one has failed.
Marking(d) == \E c \in Clients : cl[c].pc = "marking" /\ cl[c].s = d
ArtifactsThere == \A d \in files.refs \ files.aged :
  /\ d \in files.blobs
  /\ files.meta[d] = "torn" => Marking(d) \/ faults > 0

\* A put that died while it wrote the meta file does not spoil the artifact for
\* those that put it again.
PutsHeal == \A d \in files.refs \ files.aged : files.meta[d] = "torn" => Marking(d)

\* The same for an artifact that expired and was put again.
Collecting(d) == \E c \in Clients : cl[c].pc \in {"collect", "collected"} /\ cl[c].s = d
RenewedThere ==
  \A d \in Digests : files.meta[d] = "fresh" => d \in files.blobs \/ Collecting(d) \/ faults > 0
=============================================================================
