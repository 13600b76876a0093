---------------------------- MODULE PostgresStore ----------------------------
(***************************************************************************)
(* PostgresPersistenceProvider.  A client first brings the schema up       *)
(* (ensure_store_exists): the schema, unless a DBA has created it, then the *)
(* migrations, on a connection of the pool whose search_path points at the *)
(* schema, under an advisory lock; each is a transaction of its own.       *)
(***************************************************************************)
EXTENDS Tables

Unpathed == {"boot", "creating", "created"}
Booting == Unpathed \cup {"locking", "migrating", "restoring", "failing"}
BootOnly == UNCHANGED <<backend, tables, files, writes, handled, calls>>

\* CREATE SCHEMA IF NOT EXISTS, which no lock protects: the database looks ...
PgFindSchema(c) ==
  /\ At(c, "postgres", "boot")
  /\ cl' = [cl EXCEPT ![c].pc = IF db.schema THEN "created" ELSE "creating"]
  /\ BootOnly /\ UNCHANGED <<db, faults>>

\* ... and creates what it has not found; the catalogue's unique index refuses
\* a second schema of that name, and the call fails.
PgCreateSchema(c) ==
  /\ At(c, "postgres", "creating")
  /\ cl' = [cl EXCEPT ![c].pc = IF db.schema THEN "down" ELSE "created"]
  /\ db' = [db EXCEPT !.schema = TRUE, !.creator = IF db.schema THEN @ ELSE c]
  /\ BootOnly /\ UNCHANGED faults

\* A connection, SHOW and SET search_path.
PgSetPath(c) ==
  /\ At(c, "postgres", "created")
  /\ db' = [db EXCEPT !.path[c] = "wfc"]
  /\ cl' = [cl EXCEPT ![c].pc = "locking"]
  /\ BootOnly /\ UNCHANGED faults

\* Slip: no advisory lock.
PgReadMigrations(c) ==
  /\ At(c, "postgres", "locking")
  /\ cl' = [cl EXCEPT ![c].pc = "migrating", ![c].v = db.applied]
  /\ BootOnly /\ UNCHANGED <<faults, db>>

\* pg_advisory_lock, then the list of migrations applied so far.
PgLockMigrations(c) ==
  /\ At(c, "postgres", "locking") /\ db.lock = "none"
  /\ db' = [db EXCEPT !.lock = c]
  /\ cl' = [cl EXCEPT ![c].pc = "migrating", ![c].v = db.applied]
  /\ BootOnly /\ UNCHANGED faults

\* One migration and its row, in a transaction; a row that is there already
\* makes the transaction fail.  After the last one the lock is released.
PgMigrate(c) ==
  /\ At(c, "postgres", "migrating")
  /\ \/ /\ cl[c].v < Migrations /\ db.applied = cl[c].v
        /\ db' = [db EXCEPT !.applied = @ + 1]
        /\ cl' = [cl EXCEPT ![c].v = @ + 1]
     \/ /\ cl[c].v < Migrations /\ db.applied # cl[c].v
        /\ db' = [db EXCEPT !.lock = IF @ = c THEN "none" ELSE @]
        /\ cl' = [cl EXCEPT ![c].pc = "failing"]
     \/ /\ cl[c].v >= Migrations
        /\ db' = [db EXCEPT !.lock = IF @ = c THEN "none" ELSE @]
        /\ cl' = [cl EXCEPT ![c].pc = "restoring"]
  /\ BootOnly /\ UNCHANGED faults

\* SET search_path back, after a failed migration too; then the call returns
\* what the migration said.
PgRestorePath(c) ==
  /\ cl[c].pc \in {"restoring", "failing"}
  /\ db' = [db EXCEPT !.path[c] = "app"]
  /\ cl' = [cl EXCEPT ![c] = [Idle EXCEPT !.pc = IF cl[c].pc = "restoring" THEN "idle" ELSE "down"]]
  /\ BootOnly /\ UNCHANGED faults

\* A statement of ensure_store_exists fails.  Before SET the call returns at
\* once; a migration is rolled back, unlocked and the path restored; a restore
\* that fails leaves the connection as it is and fails the call.
PgBootFails(c) ==
  /\ backend = "postgres" /\ faults < MaxFaults /\ faults' = faults + 1
  /\ \/ /\ cl[c].pc \in Unpathed
        /\ cl' = [cl EXCEPT ![c].pc = "down"] /\ UNCHANGED db
     \/ /\ cl[c].pc \in {"locking", "migrating"}
        /\ db' = [db EXCEPT !.lock = IF @ = c THEN "none" ELSE @]
        /\ cl' = [cl EXCEPT ![c].pc = "failing"]
     \/ /\ cl[c].pc \in {"restoring", "failing"}
        /\ db' = [db EXCEPT !.unrestored = @ \cup {c}]
        /\ cl' = [cl EXCEPT ![c].pc = "down"]
  /\ BootOnly

PgCreate(c) == Create(c, "postgres", TRUE)
PgNextSequence(c) == Number(c, "postgres")
PgPersist(c) == Persist(c, "postgres")
PgPersistWaiting(c) == PersistWaiting(c, "postgres")
PgGetRow(c, w) == GetRow(c, "postgres", w)
PgLoadPointers(c) == GetPointers(c, "postgres")

PgSubscribe(c, s) ==
  /\ Begin(c, "postgres") /\ subs[s].state = "absent"
  /\ Subscription(c, s, [state |-> "open", token |-> "none"])
  /\ Return(c)
\* DELETE: the row is gone, with its token.
PgTerminate(c, s) ==
  /\ Begin(c, "postgres") /\ subs[s].state = "open"
  /\ Subscription(c, s, [state |-> "terminated", token |-> "none"])
  /\ Return(c)
\* Slip: the token is set without asking whether it is NULL.
PgSetTokenBlind(c, s) == SetToken(c, "postgres", s, subs[s].state = "open")
PgSetToken(c, s) == SetToken(c, "postgres", s, subs[s].state = "open" /\ subs[s].token = "none")
PgGetSubscriptions == {s \in Subs : subs[s].state = "open" /\ subs[s].token = "none"}
PgClearToken(c) == ClearToken(c, "postgres")

PgCreateEvent(c) == CreateEvent(c, "postgres")
PgMarkEvent(c) == MarkEvent(c, "postgres")

\* ON CONFLICT DO UPDATE: a command that is there gets the new time.
PgSchedule(c, k, due) ==
  Scheduled(c, "postgres", {r \in commands : r.key # k} \cup {Command(k, due)})
\* Slip: DELETE ... RETURNING, before the handlers run.
PgFindDueDraining(c) == FindDue(c, "postgres", {r \in commands : ~r.due})
PgFindDue(c) == FindDue(c, "postgres", commands)
PgHandle(c, r) == Handle(c, "postgres", r, {})
\* Every command that is due by now is deleted, handled or not.
PgDeleteDue(c) == Finish(c, "postgres", {r \in commands : r.due})

PgNext == \E c \in Clients :
  \/ PgFindSchema(c) \/ PgCreateSchema(c) \/ PgSetPath(c) \/ PgLockMigrations(c) \/ PgMigrate(c) \/ PgRestorePath(c) \/ PgBootFails(c)
  \/ PgNextSequence(c) \/ PgCreate(c)
  \/ PgPersist(c) \/ PgPersistWaiting(c)
  \/ PgLoadPointers(c) \/ \E w \in Workflows : PgGetRow(c, w)
  \/ \E s \in Subs : PgSubscribe(c, s) \/ PgTerminate(c, s) \/ PgSetToken(c, s)
  \/ PgClearToken(c)
  \/ PgCreateEvent(c) \/ PgMarkEvent(c)
  \/ \E k \in Commands, due \in BOOLEAN : PgSchedule(c, k, due)
  \/ PgFindDue(c) \/ PgDeleteDue(c) \/ \E r \in cl[c].todo : PgHandle(c, r)
=============================================================================
