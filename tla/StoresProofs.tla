---------------------------- MODULE StoresProofs ----------------------------
(***************************************************************************)
(* Proofs about Stores, for any number of clients, instances,              *)
(* subscriptions, commands, migrations, calls and faults.                  *)
(***************************************************************************)
EXTENDS Stores, TLAPS, FiniteSetTheorems

Providers == {"memory", "postgres", "sqlite"}

\* The calls that the providers have in common.
CommonStep(c, b) ==
  \/ Number(c, b) \/ Create(c, b, TRUE) \/ Create(c, b, FALSE)
  \/ Persist(c, b)
  \/ b # "memory" /\ PersistWaiting(c, b)
  \/ GetPointers(c, b) \/ \E w \in Workflows : GetRow(c, b, w)
  \/ \E s \in Subs, open \in BOOLEAN :
       (open => subs[s].state # "absent" /\ subs[s].token = "none" /\ (b = "postgres" => subs[s].state = "open"))
       /\ SetToken(c, b, s, open)
  \/ ClearToken(c, b)
  \/ CreateEvent(c, b) \/ MarkEvent(c, b)

\* Scheduled commands.
CommandStep(c) ==
  \/ \E k \in Commands, due \in BOOLEAN : MemSchedule(c, k, due) \/ PgSchedule(c, k, due) \/ LiteSchedule(c, k, due)
  \/ MemFindDue(c) \/ PgFindDue(c) \/ LiteFindDue(c)
  \/ \E r \in cl[c].todo : MemHandle(c, r) \/ PgHandle(c, r) \/ LiteHandle(c, r)
  \/ MemFinish(c) \/ PgDeleteDue(c) \/ LiteFinish(c)

\* The calls on subscriptions, and those of the memory provider, that differ.
OwnStep(c) ==
  \/ MemPersistWaiting(c) \/ MemSubscribe(c) \/ \E w \in Workflows : MemGet(c, w)
  \/ \E s \in Subs : MemTerminate(c, s) \/ PgTerminate(c, s) \/ LiteTerminate(c, s)
  \/ \E s \in Subs : PgSubscribe(c, s) \/ LiteSubscribe(c, s)

BootStep(c) == PgFindSchema(c) \/ PgCreateSchema(c) \/ PgSetPath(c) \/ PgLockMigrations(c) \/ PgMigrate(c) \/ PgRestorePath(c) \/ PgBootFails(c)

FileStep(c) ==
  \/ \E d \in Digests : ArtSpool(c, d) \/ gc_expired(c, d)
  \/ \E D \in SUBSET Digests \ {{}} : ArtResolve(c, D)
  \/ ArtDeduplicate(c) \/ ArtPlace(c) \/ ArtMark(c)
  \/ ArtRemoveBlob(c) \/ ArtRemoveMeta(c) \/ ArtOpen(c) \/ ArtResolved(c)

\* The steps of one client, sorted by what they are about.
LEMMA NextCases ==
  ASSUME Next
  PROVE  \/ \E c \in Clients : \/ \E b \in Providers : CommonStep(c, b)
                               \/ CommandStep(c) \/ OwnStep(c) \/ BootStep(c) \/ FileStep(c) \/ CallFails(c)
         \/ \E d \in Digests : ArtExpires(d)
<1>1. CASE MemNext
  <2>1. ASSUME NEW c \in Clients,
               MemNextSequence(c) \/ MemCreate(c) \/ MemPersist(c) \/ MemClearToken(c) \/ MemCreateEvent(c) \/ MemMarkEvent(c)
        PROVE  CommonStep(c, "memory")
    BY <2>1 DEF CommonStep, MemNextSequence, MemCreate, MemPersist, MemClearToken, MemCreateEvent, MemMarkEvent
  <2>2. ASSUME NEW c \in Clients, NEW s \in Subs, MemSetToken(c, s)  PROVE CommonStep(c, "memory")
    BY <2>2 DEF CommonStep, MemSetToken, SetToken
  <2>. QED  BY <1>1, <2>1, <2>2 DEF MemNext, Providers, CommandStep, OwnStep
<1>2. CASE PgNext
  <2>1. ASSUME NEW c \in Clients,
               PgNextSequence(c) \/ PgCreate(c) \/ PgPersist(c) \/ PgPersistWaiting(c) \/ PgLoadPointers(c) \/ PgClearToken(c) \/ PgCreateEvent(c) \/ PgMarkEvent(c)
        PROVE  CommonStep(c, "postgres")
    BY <2>1 DEF CommonStep, PgNextSequence, PgCreate, PgPersist, PgPersistWaiting, PgLoadPointers, PgClearToken, PgCreateEvent, PgMarkEvent
  <2>2. ASSUME NEW c \in Clients, NEW s \in Subs, PgSetToken(c, s)  PROVE CommonStep(c, "postgres")
    BY <2>2 DEF CommonStep, PgSetToken, SetToken
  <2>3. ASSUME NEW c \in Clients, NEW w \in Workflows, PgGetRow(c, w)  PROVE CommonStep(c, "postgres")
    BY <2>3 DEF CommonStep, PgGetRow
  <2>. QED  BY <1>2, <2>1, <2>2, <2>3 DEF PgNext, Providers, CommandStep, OwnStep, BootStep
<1>3. CASE LiteNext
  <2>1. ASSUME NEW c \in Clients,
               LiteNextSequence(c) \/ LiteCreate(c) \/ LitePersist(c) \/ LitePersistWaiting(c) \/ LiteGetPointers(c) \/ LiteClearToken(c) \/ LiteCreateEvent(c) \/ LiteMarkEvent(c)
        PROVE  CommonStep(c, "sqlite")
    BY <2>1 DEF CommonStep, LiteNextSequence, LiteCreate, LitePersist, LitePersistWaiting, LiteGetPointers, LiteClearToken, LiteCreateEvent, LiteMarkEvent
  <2>2. ASSUME NEW c \in Clients, NEW s \in Subs, LiteSetToken(c, s)  PROVE CommonStep(c, "sqlite")
    BY <2>2 DEF CommonStep, LiteSetToken, SetToken
  <2>3. ASSUME NEW c \in Clients, NEW w \in Workflows, LiteGetRow(c, w)  PROVE CommonStep(c, "sqlite")
    BY <2>3 DEF CommonStep, LiteGetRow
  <2>. QED  BY <1>3, <2>1, <2>2, <2>3 DEF LiteNext, Providers, CommandStep, OwnStep
<1>4. CASE ArtNext
  BY <1>4 DEF ArtNext, FileStep
<1>. QED  BY <1>1, <1>2, <1>3, <1>4 DEF Next

-----------------------------------------------------------------------------
(* Types.                                                                  *)

\* A client with a new value that is in order.
LEMMA ClientFrame ==
  ASSUME TypeOK, NEW c \in Clients, NEW x \in Client, cl' = [cl EXCEPT ![c] = x],
         x.pc \in {"row", "loaded"} => x.w \in Workflows,
         x.pc \in {"subscribe", "claimed"} => x.s \in Subs,
         x.pc = "handling" => x.todo \subseteq CommandRow,
         x.pc \in {"spooled", "placed", "marking", "open", "collect", "collected"} => x.s \in Digests
  PROVE  /\ cl' \in [Clients -> Client]
         /\ \A d \in Clients :
              /\ cl'[d].pc \in {"row", "loaded"} => cl'[d].w \in Workflows
              /\ cl'[d].pc \in {"subscribe", "claimed"} => cl'[d].s \in Subs
              /\ cl'[d].pc = "handling" => cl'[d].todo \subseteq CommandRow
              /\ cl'[d].pc \in {"spooled", "placed", "marking", "open", "collect", "collected"} => cl'[d].s \in Digests
BY DEF TypeOK

LEMMA IdleType == Idle \in Client /\ Idle.pc = "idle" /\ Idle.w = "none" /\ Idle.s = "none" /\ Idle.n = 0
BY DEF Idle, Client

LEMMA StoredType ==
  ASSUME TypeOK, NEW w \in Workflows, NEW name \in Nat, NEW waits \in Subs \cup {"none"}, Stored(w, name, waits)
  PROVE  workflows' \in [Workflows -> Row] /\ pointers' \in [Workflows -> Nat] /\ writes' \in Nat
BY DEF TypeOK, Stored, Row

LEMMA CommonTypes ==
  ASSUME TypeOK, NEW c \in Clients, NEW b \in Providers, CommonStep(c, b)
  PROVE  TypeOK'
<1>. USE TablesAssumption
<1>0. cl[c] \in Client
  BY DEF TypeOK
<1>1. CASE Number(c, b)
  <2>. DEFINE x == [Idle EXCEPT !.pc = "numbered", !.n = sequences + 1]
  <2>0. sequences + 1 \in Nat
    BY DEF TypeOK
  <2>1. x \in Client /\ x.pc = "numbered"
    BY <2>0, IdleType DEF Client
  <2>2. cl' = [cl EXCEPT ![c] = x]
    BY <1>1 DEF Number
  <2>. HIDE DEF x
  <2>. QED  BY <1>1, <2>1, <2>2, ClientFrame DEF Number, Begin, Aside, TypeOK
<1>2. ASSUME NEW unique \in BOOLEAN, Create(c, b, unique)  PROVE TypeOK'
  <2>1. cl' = [cl EXCEPT ![c] = Idle]
    BY <1>2 DEF Create, Return
  <2>2. workflows' \in [Workflows -> Row] /\ pointers' \in [Workflows -> Nat] /\ writes' \in Nat
    <3>1. PICK name \in {0, cl[c].n} :
            IF unique /\ name \in Names
            THEN UNCHANGED <<workflows, pointers, writes>>
            ELSE \E w \in Workflows : workflows[w] = NoRow /\ Stored(w, name, "none")
      BY <1>2 DEF Create
    <3>2. name \in Nat
      BY <1>0 DEF Client
    <3>. QED  BY <3>1, <3>2, StoredType DEF TypeOK
  <2>3. calls' \in 0..MaxCalls
    BY <1>2 DEF Create, Begin, Resume, TypeOK
  <2>. QED  BY <1>2, <2>1, <2>2, <2>3, IdleType, ClientFrame DEF Create, Aside, TypeOK
<1>3. CASE Persist(c, b)
  <2>1. cl[c].w \in Workflows /\ cl[c].n \in Nat
    BY <1>0, <1>3 DEF Persist, Resume, At, TypeOK, Client
  <2>2. workflows[cl[c].w].waits \in Subs \cup {"none"}
    BY <2>1 DEF TypeOK, Row
  <2>. QED  BY <1>3, <2>1, <2>2, StoredType, IdleType, ClientFrame DEF Persist, Resume, Return, Aside, TypeOK
<1>4. CASE PersistWaiting(c, b)
  <2>1. cl[c].w \in Workflows /\ cl[c].n \in Nat
    BY <1>0, <1>4 DEF PersistWaiting, Resume, At, TypeOK, Client
  <2>2. PICK s \in Subs : Stored(cl[c].w, cl[c].n, s) /\ subs' = [subs EXCEPT ![s].state = "open"]
    BY <1>4 DEF PersistWaiting
  <2>3. subs' \in [Subs -> Subscribed]
    BY <2>2 DEF TypeOK, Subscribed
  <2>. QED  BY <1>4, <2>1, <2>2, <2>3, StoredType, IdleType, ClientFrame DEF PersistWaiting, Resume, Return, Aside, TypeOK
<1>5. CASE GetPointers(c, b)
  <2>. DEFINE x == [cl[c] EXCEPT !.pc = "loaded", !.tree = pointers[cl[c].w]]
  <2>1. cl[c].w \in Workflows
    BY <1>5 DEF GetPointers, Resume, At, TypeOK
  <2>2. x \in Client /\ x.pc = "loaded" /\ x.w = cl[c].w
    BY <1>0, <2>1 DEF TypeOK, Client
  <2>3. cl' = [cl EXCEPT ![c] = x]
    BY <1>5 DEF GetPointers, TypeOK
  <2>. HIDE DEF x
  <2>. QED  BY <1>5, <2>1, <2>2, <2>3, ClientFrame DEF GetPointers, Resume, Aside, tables, TypeOK
<1>6. ASSUME NEW w \in Workflows, GetRow(c, b, w)  PROVE TypeOK'
  <2>. DEFINE x == [Idle EXCEPT !.pc = "row", !.w = w, !.v = workflows[w].v, !.n = workflows[w].name]
  <2>1. x \in Client /\ x.pc = "row" /\ x.w = w
    BY IdleType DEF TypeOK, Client, Row
  <2>2. cl' = [cl EXCEPT ![c] = x]
    BY <1>6 DEF GetRow
  <2>. HIDE DEF x
  <2>. QED  BY <1>6, <2>1, <2>2, ClientFrame DEF GetRow, Begin, Aside, tables, TypeOK
<1>7. ASSUME NEW s \in Subs, NEW open \in BOOLEAN, SetToken(c, b, s, open)  PROVE TypeOK'
  <2>. DEFINE x == [Idle EXCEPT !.pc = "claimed", !.s = s]
  <2>1. x \in Client /\ x.pc = "claimed" /\ x.s = s
    BY IdleType DEF TypeOK, Client
  <2>2. cl' = [cl EXCEPT ![c] = x]
    BY <1>7 DEF SetToken
  <2>. HIDE DEF x
  <2>3. subs' \in [Subs -> Subscribed]
    BY <1>7 DEF SetToken, Subscription, TypeOK, Subscribed
  <2>. QED  BY <1>7, <2>1, <2>2, <2>3, ClientFrame DEF SetToken, Subscription, Begin, Aside, TypeOK
<1>8. CASE ClearToken(c, b)
  <2>1. subs' \in [Subs -> Subscribed]
    BY <1>8 DEF ClearToken, Subscription, Resume, At, TypeOK, Subscribed
  <2>. QED  BY <1>8, <2>1, IdleType, ClientFrame DEF ClearToken, Subscription, Resume, Return, Aside, TypeOK
<1>9. CASE CreateEvent(c, b)
  BY <1>9, IdleType, ClientFrame DEF CreateEvent, Begin, Return, Aside, TypeOK
<1>10. CASE MarkEvent(c, b)
  BY <1>10, IdleType, ClientFrame DEF MarkEvent, Begin, Return, Aside, TypeOK
<1>. QED  BY <1>1, <1>2, <1>3, <1>4, <1>5, <1>6, <1>7, <1>8, <1>9, <1>10 DEF CommonStep

LEMMA CommandTypes ==
  ASSUME TypeOK, NEW c \in Clients, CommandStep(c)
  PROVE  TypeOK'
<1>. USE TablesAssumption
<1>0. cl[c] \in Client
  BY DEF TypeOK
<1>1. ASSUME NEW b, NEW rows, rows \subseteq CommandRow, Scheduled(c, b, rows)  PROVE TypeOK'
  BY <1>1, IdleType, ClientFrame DEF Scheduled, Begin, Return, Aside, TypeOK
<1>2. ASSUME NEW k \in Commands, NEW due \in BOOLEAN  PROVE Command(k, due) \in CommandRow
  BY DEF Command, Processing, CommandRow, TypeOK
<1>3. ASSUME NEW b, NEW kept, kept \subseteq CommandRow, FindDue(c, b, kept)  PROVE TypeOK'
  <2>. DEFINE x == [Idle EXCEPT !.pc = "handling", !.todo = {r \in commands : r.due}]
  <2>1. x \in Client /\ x.pc = "handling" /\ x.todo \subseteq CommandRow
    BY IdleType DEF TypeOK, Client
  <2>2. cl' = [cl EXCEPT ![c] = x]
    BY <1>3 DEF FindDue
  <2>. HIDE DEF x
  <2>3. calls' \in 0..MaxCalls
    BY <1>3 DEF FindDue, Begin, TypeOK
  <2>. QED  BY <1>3, <2>1, <2>2, <2>3, ClientFrame DEF FindDue, Aside, TypeOK
<1>4. ASSUME NEW b, NEW r, NEW gone, r.gen \in Nat, Handle(c, b, r, gone)  PROVE TypeOK'
  <2>. DEFINE x == [cl[c] EXCEPT !.todo = cl[c].todo \ {r}]
  <2>1. x \in Client /\ x.pc = "handling" /\ x.todo \subseteq CommandRow
    BY <1>0, <1>4 DEF Client, Handle, Resume, At, TypeOK
  <2>2. cl' = [cl EXCEPT ![c] = x]
    BY <1>4 DEF Handle, TypeOK
  <2>. HIDE DEF x
  <2>. QED  BY <1>4, <2>1, <2>2, ClientFrame DEF Handle, Resume, Aside, TypeOK
<1>5. ASSUME NEW b, NEW gone, Finish(c, b, gone)  PROVE TypeOK'
  BY <1>5, IdleType, ClientFrame DEF Finish, Resume, Return, Aside, TypeOK
<1>6. commands \subseteq CommandRow
  BY DEF TypeOK
<1>7. CASE \E k \in Commands, due \in BOOLEAN : MemSchedule(c, k, due) \/ PgSchedule(c, k, due) \/ LiteSchedule(c, k, due)
  BY <1>1, <1>2, <1>6, <1>7 DEF MemSchedule, PgSchedule, LiteSchedule
<1>8. CASE MemFindDue(c) \/ PgFindDue(c) \/ LiteFindDue(c)
  BY <1>3, <1>6, <1>8 DEF MemFindDue, PgFindDue, LiteFindDue
<1>9. CASE \E r \in cl[c].todo : MemHandle(c, r) \/ PgHandle(c, r) \/ LiteHandle(c, r)
  <2>1. PICK r \in cl[c].todo : MemHandle(c, r) \/ PgHandle(c, r) \/ LiteHandle(c, r)
    BY <1>9
  <2>2. r.gen \in Nat
    BY <2>1 DEF MemHandle, PgHandle, LiteHandle, Handle, Resume, At, TypeOK, CommandRow
  <2>. QED  BY <1>4, <2>1, <2>2 DEF MemHandle, PgHandle, LiteHandle
<1>10. CASE MemFinish(c) \/ PgDeleteDue(c) \/ LiteFinish(c)
  BY <1>5, <1>10 DEF MemFinish, PgDeleteDue, LiteFinish
<1>. QED  BY <1>7, <1>8, <1>9, <1>10 DEF CommandStep

LEMMA OwnTypes ==
  ASSUME TypeOK, NEW c \in Clients, OwnStep(c)
  PROVE  TypeOK'
<1>. USE TablesAssumption
<1>0. cl[c] \in Client
  BY DEF TypeOK
<1>1. CASE MemPersistWaiting(c)
  <2>1. cl[c].w \in Workflows /\ cl[c].n \in Nat
    BY <1>0, <1>1 DEF MemPersistWaiting, Resume, At, TypeOK, Client
  <2>2. PICK s \in Subs : /\ Stored(cl[c].w, cl[c].n, s)
                          /\ cl' = [cl EXCEPT ![c] = [Idle EXCEPT !.pc = "subscribe", !.s = s]]
    BY <1>1 DEF MemPersistWaiting
  <2>. DEFINE x == [Idle EXCEPT !.pc = "subscribe", !.s = s]
  <2>3. x \in Client /\ x.pc = "subscribe" /\ x.s = s
    BY IdleType DEF Client
  <2>4. cl' = [cl EXCEPT ![c] = x]
    BY <2>2
  <2>. HIDE DEF x
  <2>5. workflows' \in [Workflows -> Row] /\ pointers' \in [Workflows -> Nat] /\ writes' \in Nat
    BY <2>1, <2>2, StoredType
  <2>. QED  BY <1>1, <2>3, <2>4, <2>5, ClientFrame DEF MemPersistWaiting, Resume, Aside, TypeOK
<1>2. ASSUME NEW w \in Workflows, MemGet(c, w)  PROVE TypeOK'
  <2>. DEFINE x == [Idle EXCEPT !.pc = "loaded", !.w = w, !.v = workflows[w].v, !.tree = pointers[w], !.n = workflows[w].name]
  <2>1. x \in Client /\ x.pc = "loaded" /\ x.w = w
    BY IdleType DEF TypeOK, Client, Row
  <2>2. cl' = [cl EXCEPT ![c] = x]
    BY <1>2 DEF MemGet
  <2>. HIDE DEF x
  <2>. QED  BY <1>2, <2>1, <2>2, ClientFrame DEF MemGet, Begin, Aside, tables, TypeOK
<1>3. ASSUME NEW s \in Subs, NEW row \in Subscribed, Subscription(c, s, row), Return(c), calls' \in 0..MaxCalls
      PROVE  TypeOK'
  <2>1. subs' \in [Subs -> Subscribed]
    BY <1>3 DEF Subscription, TypeOK
  <2>. QED  BY <1>3, <2>1, IdleType, ClientFrame DEF Subscription, Return, Aside, TypeOK
<1>4. /\ [state |-> "open", token |-> "none"] \in Subscribed
      /\ [state |-> "terminated", token |-> "none"] \in Subscribed
      /\ [state |-> "terminated", token |-> "__terminated__"] \in Subscribed
      /\ \A s \in Subs : [subs[s] EXCEPT !.state = "terminated"] \in Subscribed
  BY DEF Subscribed, TypeOK
<1>5. CASE MemSubscribe(c)
  <2>1. cl[c].s \in Subs /\ calls' \in 0..MaxCalls
    BY <1>5 DEF MemSubscribe, Resume, At, TypeOK
  <2>. QED  BY <2>1, <1>3, <1>4, <1>5 DEF MemSubscribe
<1>6. ASSUME NEW b, Begin(c, b)  PROVE calls' \in 0..MaxCalls
  BY <1>6 DEF Begin, TypeOK
<1>7. CASE \E s \in Subs : MemTerminate(c, s) \/ PgTerminate(c, s) \/ LiteTerminate(c, s)
  BY <1>3, <1>4, <1>6, <1>7 DEF MemTerminate, PgTerminate, LiteTerminate
<1>8. CASE \E s \in Subs : PgSubscribe(c, s) \/ LiteSubscribe(c, s)
  BY <1>3, <1>4, <1>6, <1>8 DEF PgSubscribe, LiteSubscribe
<1>. QED  BY <1>1, <1>2, <1>5, <1>7, <1>8 DEF OwnStep

LEMMA BootTypes ==
  ASSUME TypeOK, NEW c \in Clients, BootStep(c)
  PROVE  TypeOK'
<1>. USE TablesAssumption
<1>0. cl[c] \in Client /\ cl \in [Clients -> Client] /\ db \in Database
  BY DEF TypeOK
<1>1. ASSUME NEW x \in Client, x.pc \in Booting \cup {"idle", "down"}, cl' = [cl EXCEPT ![c] = x],
             db' \in Database, faults' \in 0..MaxFaults, BootOnly
      PROVE  TypeOK'
  BY <1>1, ClientFrame DEF BootOnly, tables, Booting, Unpathed, TypeOK
<1>2. ASSUME NEW pc \in Booting \cup {"down"}, NEW v \in Nat
      PROVE  /\ [cl[c] EXCEPT !.pc = pc, !.v = v] \in Client
             /\ [cl[c] EXCEPT !.pc = pc] \in Client
             /\ [cl[c] EXCEPT !.v = v] \in Client
  BY <1>0, <1>2 DEF Client
<1>3. db.applied \in Nat
  BY <1>0 DEF Database
<1>9. CASE PgFindSchema(c)
  <2>. DEFINE x == [cl[c] EXCEPT !.pc = IF db.schema THEN "created" ELSE "creating"]
  <2>1. cl' = [cl EXCEPT ![c] = x] /\ x.pc \in Booting
    BY <1>0, <1>9 DEF PgFindSchema, Client, Booting, Unpathed
  <2>2. x \in Client
    BY <1>2 DEF Booting, Unpathed
  <2>. HIDE DEF x
  <2>. QED  BY <1>0, <1>1, <1>9, <2>1, <2>2 DEF PgFindSchema, TypeOK
<1>10. CASE PgCreateSchema(c)
  <2>1. db' \in Database
    BY <1>0, <1>10 DEF PgCreateSchema, Database
  <2>. DEFINE x == [cl[c] EXCEPT !.pc = IF db.schema THEN "down" ELSE "created"]
  <2>2. cl' = [cl EXCEPT ![c] = x] /\ x.pc \in Booting \cup {"down"}
    BY <1>0, <1>10 DEF PgCreateSchema, Client, Booting, Unpathed
  <2>3. x \in Client
    BY <1>2 DEF Booting, Unpathed
  <2>. HIDE DEF x
  <2>. QED  BY <1>1, <1>10, <2>1, <2>2, <2>3 DEF PgCreateSchema, TypeOK
<1>4. CASE PgSetPath(c)
  <2>1. db' \in Database
    BY <1>0, <1>4 DEF PgSetPath, Database
  <2>2. cl' = [cl EXCEPT ![c] = [cl[c] EXCEPT !.pc = "locking"]] /\ [cl[c] EXCEPT !.pc = "locking"].pc = "locking"
    BY <1>0, <1>4 DEF PgSetPath, Client
  <2>. QED  BY <1>1, <1>2, <1>4, <2>1, <2>2 DEF PgSetPath, Booting, Unpathed, TypeOK
<1>5. CASE PgLockMigrations(c)
  <2>1. db' \in Database
    BY <1>0, <1>5 DEF PgLockMigrations, Database
  <2>. DEFINE x == [cl[c] EXCEPT !.pc = "migrating", !.v = db.applied]
  <2>2. cl' = [cl EXCEPT ![c] = x] /\ x.pc = "migrating"
    BY <1>0, <1>5 DEF PgLockMigrations, Client
  <2>3. x \in Client
    BY <1>2, <1>3 DEF Booting, Unpathed
  <2>. HIDE DEF x
  <2>. QED  BY <1>1, <1>5, <2>1, <2>2, <2>3 DEF PgLockMigrations, Booting, Unpathed, TypeOK
<1>6. CASE PgMigrate(c)
  <2>1. cl[c].pc = "migrating" /\ cl[c].v \in Nat
    BY <1>0, <1>6 DEF PgMigrate, At, Client
  <2>2. db' \in Database
    BY <1>0, <1>6, <2>1 DEF PgMigrate, Database
  <2>3. PICK x \in Client : cl' = [cl EXCEPT ![c] = x] /\ x.pc \in {"migrating", "failing", "restoring"}
    <3>1. CASE cl' = [cl EXCEPT ![c].v = @ + 1]
      <4>. DEFINE x == [cl[c] EXCEPT !.v = cl[c].v + 1]
      <4>1. cl' = [cl EXCEPT ![c] = x] /\ x.pc = "migrating"
        BY <1>0, <2>1, <3>1 DEF Client
      <4>2. cl[c].v + 1 \in Nat
        BY <2>1
      <4>3. x \in Client
        BY <1>0, <4>2 DEF Client
      <4>. QED  BY <4>1, <4>3
    <3>2. ASSUME NEW pc \in {"failing", "restoring"}, cl' = [cl EXCEPT ![c].pc = pc]
          PROVE  \E x \in Client : cl' = [cl EXCEPT ![c] = x] /\ x.pc \in {"migrating", "failing", "restoring"}
      <4>. DEFINE x == [cl[c] EXCEPT !.pc = pc]
      <4>1. cl' = [cl EXCEPT ![c] = x] /\ x.pc = pc
        BY <1>0, <3>2 DEF Client
      <4>2. x \in Client
        BY <1>2 DEF Booting, Unpathed
      <4>. QED  BY <4>1, <4>2
    <3>. QED  BY <1>6, <3>1, <3>2 DEF PgMigrate
  <2>. QED  BY <1>1, <1>6, <2>2, <2>3 DEF PgMigrate, Booting, Unpathed, TypeOK
<1>7. CASE PgRestorePath(c)
  <2>1. db' \in Database
    BY <1>0, <1>7 DEF PgRestorePath, Database
  <2>. DEFINE x == [Idle EXCEPT !.pc = IF cl[c].pc = "restoring" THEN "idle" ELSE "down"]
  <2>2. x \in Client /\ x.pc \in {"idle", "down"}
    BY IdleType DEF Client
  <2>3. cl' = [cl EXCEPT ![c] = x]
    BY <1>7 DEF PgRestorePath
  <2>. HIDE DEF x
  <2>. QED  BY <1>1, <1>7, <2>1, <2>2, <2>3 DEF PgRestorePath, TypeOK
<1>8. CASE PgBootFails(c)
  <2>1. db' \in Database
    BY <1>0, <1>8 DEF PgBootFails, Database
  <2>2. PICK pc \in {"failing", "down"} : cl' = [cl EXCEPT ![c].pc = pc]
    BY <1>8 DEF PgBootFails
  <2>. DEFINE x == [cl[c] EXCEPT !.pc = pc]
  <2>3. cl' = [cl EXCEPT ![c] = x] /\ x.pc = pc
    BY <1>0, <2>2 DEF Client
  <2>4. x \in Client
    BY <1>2 DEF Booting, Unpathed
  <2>. HIDE DEF x
  <2>5. faults' \in 0..MaxFaults
    BY <1>8 DEF PgBootFails, TypeOK
  <2>. QED  BY <1>1, <1>8, <2>1, <2>3, <2>4, <2>5 DEF PgBootFails, Booting, Unpathed
<1>. QED  BY <1>4, <1>5, <1>6, <1>7, <1>8, <1>9, <1>10 DEF BootStep

LEMMA FileTypes ==
  ASSUME TypeOK, NEW c \in Clients, FileStep(c)
  PROVE  TypeOK'
<1>. USE TablesAssumption
<1>0. cl[c] \in Client /\ cl \in [Clients -> Client] /\ files \in Artifacts
  BY DEF TypeOK
<1>1. ASSUME NEW x \in Client, cl' = [cl EXCEPT ![c] = x],
             \/ x.pc \in {"spooled", "placed", "marking", "open", "collect", "collected"} /\ x.s \in Digests
             \/ x.pc \in {"idle", "resolve"},
             files' \in Artifacts, calls' \in 0..MaxCalls, FilesOnly
      PROVE  TypeOK'
  BY <1>1, ClientFrame DEF FilesOnly, tables, TypeOK
<1>2. ASSUME NEW b, Begin(c, b)  PROVE calls' \in 0..MaxCalls
  BY <1>2 DEF Begin, TypeOK
<1>3. ASSUME NEW b, NEW pc, Resume(c, b, pc)  PROVE calls' \in 0..MaxCalls
  BY <1>3 DEF Resume, TypeOK
<1>4. ASSUME NEW pc \in {"placed", "marking", "collected"}
      PROVE  [cl[c] EXCEPT !.pc = pc] \in Client /\ [cl[c] EXCEPT !.pc = pc].pc = pc /\ [cl[c] EXCEPT !.pc = pc].s = cl[c].s
  BY <1>0 DEF Client
<1>5. ASSUME NEW d \in Digests, ArtSpool(c, d)  PROVE TypeOK'
  <2>. DEFINE x == [Idle EXCEPT !.pc = "spooled", !.s = d]
  <2>1. x \in Client /\ x.pc = "spooled" /\ x.s = d
    BY IdleType DEF Client
  <2>2. cl' = [cl EXCEPT ![c] = x] /\ files' = files
    BY <1>5 DEF ArtSpool
  <2>. HIDE DEF x
  <2>. QED  BY <1>0, <1>1, <1>2, <1>5, <2>1, <2>2 DEF ArtSpool
<1>6. ASSUME NEW d \in Digests, gc_expired(c, d)  PROVE TypeOK'
  <2>1. PICK next \in {"open", "collect", "error"} : Judged(c, d, next)
    <3>1. files.meta[d] \in {"none", "torn", "fresh", "expired"}
      BY <1>0 DEF Artifacts
    <3>. QED  BY <1>6, <3>1 DEF gc_expired
  <2>. DEFINE x == IF next = "error" THEN Idle ELSE [cl[c] EXCEPT !.pc = next, !.s = d]
  <2>2. x \in Client /\ ((x.pc \in {"open", "collect"} /\ x.s = d) \/ x.pc = "idle")
    <3>1. [cl[c] EXCEPT !.pc = next, !.s = d].pc = next /\ [cl[c] EXCEPT !.pc = next, !.s = d].s = d
      BY <1>0 DEF Client
    <3>2. next # "error" => [cl[c] EXCEPT !.pc = next, !.s = d] \in Client
      BY <1>0 DEF Client
    <3>. QED  BY <3>1, <3>2, IdleType
  <2>3. cl' = [cl EXCEPT ![c] = x] /\ files' = files
    BY <1>0, <2>1 DEF Judged
  <2>. HIDE DEF x
  <2>. QED  BY <1>0, <1>1, <1>3, <2>1, <2>2, <2>3 DEF Judged
<1>7. ASSUME NEW D \in SUBSET Digests, ArtResolve(c, D)  PROVE TypeOK'
  <2>. DEFINE x == [Idle EXCEPT !.pc = "resolve", !.todo = D]
  <2>1. x \in Client /\ x.pc = "resolve"
    BY IdleType DEF Client
  <2>2. cl' = [cl EXCEPT ![c] = x] /\ files' = files
    BY <1>7 DEF ArtResolve
  <2>. HIDE DEF x
  <2>. QED  BY <1>0, <1>1, <1>2, <1>7, <2>1, <2>2 DEF ArtResolve
<1>8. CASE ArtDeduplicate(c)
  <2>1. cl[c].s \in Digests
    BY <1>8 DEF ArtDeduplicate, Resume, At, TypeOK
  <2>2. files' \in Artifacts
    BY <1>0, <1>8, <2>1 DEF ArtDeduplicate, Artifacts
  <2>. QED  BY <1>1, <1>3, <1>8, <2>2, IdleType DEF ArtDeduplicate, Return
<1>9. CASE ArtPlace(c)
  <2>1. cl[c].s \in Digests
    BY <1>9 DEF ArtPlace, Resume, At, TypeOK
  <2>2. files' \in Artifacts
    BY <1>0, <1>9, <2>1 DEF ArtPlace, Artifacts
  <2>3. cl' = [cl EXCEPT ![c] = [cl[c] EXCEPT !.pc = "placed"]]
    BY <1>0, <1>9 DEF ArtPlace, ArtGoto
  <2>. QED  BY <1>1, <1>3, <1>4, <1>9, <2>1, <2>2, <2>3 DEF ArtPlace
<1>10. CASE ArtMark(c)
  <2>1. cl[c].s \in Digests
    BY <1>10 DEF ArtMark, Resume, At, TypeOK
  <2>2. files' \in Artifacts
    <3>1. CASE files' = [files EXCEPT !.meta[cl[c].s] = "torn"]
      BY <1>0, <2>1, <3>1 DEF Artifacts
    <3>2. CASE files' = [files EXCEPT !.meta[cl[c].s] = "fresh", !.refs = files.refs \cup {cl[c].s}]
      <4>1. [files.meta EXCEPT ![cl[c].s] = "fresh"] \in [Digests -> {"none", "torn", "fresh", "expired"}]
        BY <1>0 DEF Artifacts
      <4>2. files' = [blobs |-> files.blobs, meta |-> [files.meta EXCEPT ![cl[c].s] = "fresh"],
                      refs |-> files.refs \cup {cl[c].s}, aged |-> files.aged]
        BY <1>0, <3>2 DEF Artifacts
      <4>. QED  BY <1>0, <2>1, <4>1, <4>2 DEF Artifacts
    <3>. QED  BY <1>10, <3>1, <3>2 DEF ArtMark
  <2>3. CASE ArtGoto(c, "marking")
    <3>1. cl' = [cl EXCEPT ![c] = [cl[c] EXCEPT !.pc = "marking"]]
      BY <1>0, <2>3 DEF ArtGoto
    <3>. QED  BY <1>1, <1>3, <1>4, <1>10, <2>1, <2>2, <3>1 DEF ArtMark
  <2>4. CASE Return(c)
    BY <1>1, <1>3, <1>10, <2>2, <2>4, IdleType DEF ArtMark, Return
  <2>. QED  BY <1>10, <2>3, <2>4 DEF ArtMark
<1>11. CASE ArtRemoveBlob(c)
  <2>1. cl[c].s \in Digests
    BY <1>11 DEF ArtRemoveBlob, Resume, At, TypeOK
  <2>2. files' \in Artifacts
    BY <1>0, <1>11, <2>1 DEF ArtRemoveBlob, Artifacts
  <2>3. cl' = [cl EXCEPT ![c] = [cl[c] EXCEPT !.pc = "collected"]]
    BY <1>0, <1>11 DEF ArtRemoveBlob, ArtGoto
  <2>. QED  BY <1>1, <1>3, <1>4, <1>11, <2>1, <2>2, <2>3 DEF ArtRemoveBlob
<1>12. CASE ArtRemoveMeta(c)
  <2>2. files' \in Artifacts
    BY <1>0, <1>12 DEF ArtRemoveMeta, Artifacts
  <2>. QED  BY <1>1, <1>3, <1>12, <2>2, IdleType DEF ArtRemoveMeta, Return
<1>13. CASE ArtOpen(c)
  <2>. DEFINE x == [cl[c] EXCEPT !.pc = "resolve", !.todo = cl[c].todo \ {cl[c].s}, !.s = "none"]
  <2>1. x \in Client /\ x.pc = "resolve"
    BY <1>0 DEF Client
  <2>2. cl' = [cl EXCEPT ![c] = IF cl[c].s \in files.blobs THEN x ELSE Idle] /\ files' = files
    BY <1>13 DEF ArtOpen
  <2>. HIDE DEF x
  <2>. QED  BY <1>0, <1>1, <1>3, <1>13, <2>1, <2>2, IdleType DEF ArtOpen
<1>14. CASE ArtResolved(c)
  BY <1>0, <1>1, <1>3, <1>14, IdleType DEF ArtResolved, Return
<1>. QED  BY <1>5, <1>6, <1>7, <1>8, <1>9, <1>10, <1>11, <1>12, <1>13, <1>14 DEF FileStep

LEMMA TypeStep ==
  ASSUME TypeOK, [Next]_vars
  PROVE  TypeOK'
<1>1. ASSUME NEW c \in Clients, CallFails(c)  PROVE TypeOK'
  BY <1>1, TablesAssumption, IdleType, ClientFrame DEF CallFails, Return, tables, TypeOK
<1>2. ASSUME NEW d \in Digests, ArtExpires(d)  PROVE TypeOK'
  <2>1. files' \in Artifacts
    BY <1>2 DEF ArtExpires, Artifacts, TypeOK
  <2>. QED  BY <1>2, <2>1 DEF ArtExpires, FilesOnly, tables, TypeOK
<1>3. CASE UNCHANGED vars
  BY <1>3 DEF vars, tables, TypeOK
<1>. QED  BY <1>1, <1>2, <1>3, NextCases, CommonTypes, CommandTypes, OwnTypes, BootTypes, FileTypes

\* The types of the stores, for every number of clients and every history of
\* calls and faults: a client never writes or claims what it has not in hand.
THEOREM StoresTypeCorrect == Spec => []TypeOK
<1>1. Init => TypeOK
  BY TablesAssumption DEF Init, NoRow, Idle, TypeOK, Row, Subscribed, CommandRow, Artifacts, Database, Client, Booting, Unpathed
<1>2. TypeOK /\ [Next]_vars => TypeOK'
  BY TypeStep
<1>. QED  BY <1>1, <1>2, PTL DEF Spec

-----------------------------------------------------------------------------
(* What the steps leave alone.                                             *)

\* Client c goes on to one of the points P, the others stay where they are.
Moves(c, P) == cl'[c].pc \in P /\ \A d \in Clients \ {c} : cl'[d] = cl[d]

LEMMA CommonFrame ==
  ASSUME TypeOK, NEW c \in Clients, NEW b \in Providers, CommonStep(c, b)
  PROVE  /\ Moves(c, {"idle", "numbered", "row", "loaded", "claimed"})
         /\ UNCHANGED <<backend, files, db, faults, commands, handled>>
<1>0. cl \in [Clients -> Client]
  BY DEF TypeOK
<1>1. CASE Number(c, b)
  BY <1>0, <1>1 DEF Number, Aside, Moves, Idle
<1>2. ASSUME NEW unique, Create(c, b, unique)
      PROVE  /\ Moves(c, {"idle", "numbered", "row", "loaded", "claimed"})
             /\ UNCHANGED <<backend, files, db, faults, commands, handled>>
  BY <1>0, <1>2, IdleType DEF Create, Aside, Return, Moves
<1>3. CASE Persist(c, b) \/ PersistWaiting(c, b) \/ ClearToken(c, b) \/ CreateEvent(c, b) \/ MarkEvent(c, b)
  BY <1>0, <1>3, IdleType DEF Persist, PersistWaiting, ClearToken, CreateEvent, MarkEvent, Subscription, Aside, Return, Moves
<1>4. CASE GetPointers(c, b)
  BY <1>0, <1>4 DEF GetPointers, Aside, tables, Moves, Client
<1>5. CASE \E w \in Workflows : GetRow(c, b, w)
  BY <1>0, <1>5 DEF GetRow, Aside, tables, Moves, Idle
<1>6. CASE \E s \in Subs, open \in BOOLEAN : SetToken(c, b, s, open)
  BY <1>0, <1>6 DEF SetToken, Subscription, Aside, Moves, Idle
<1>. QED  BY <1>1, <1>2, <1>3, <1>4, <1>5, <1>6 DEF CommonStep

LEMMA CommandFrame ==
  ASSUME TypeOK, NEW c \in Clients, CommandStep(c)
  PROVE  /\ Moves(c, {"idle", "handling"}) /\ cl[c].pc \in {"idle", "handling"} /\ cl'[c].w \in {"none", cl[c].w}
         /\ UNCHANGED <<backend, files, db, faults, workflows, pointers, subs, sequences, writes>>
<1>0. cl \in [Clients -> Client]
  BY DEF TypeOK
<1>1. ASSUME NEW b, NEW rows, Scheduled(c, b, rows)
      PROVE  /\ Moves(c, {"idle", "handling"}) /\ cl[c].pc \in {"idle", "handling"} /\ cl'[c].w \in {"none", cl[c].w}
             /\ UNCHANGED <<backend, files, db, faults, workflows, pointers, subs, sequences, writes>>
  BY <1>0, <1>1, IdleType DEF Scheduled, Begin, At, Aside, Return, Moves
<1>2. ASSUME NEW b, NEW kept, FindDue(c, b, kept)
      PROVE  /\ Moves(c, {"idle", "handling"}) /\ cl[c].pc \in {"idle", "handling"} /\ cl'[c].w \in {"none", cl[c].w}
             /\ UNCHANGED <<backend, files, db, faults, workflows, pointers, subs, sequences, writes>>
  BY <1>0, <1>2 DEF FindDue, Begin, At, Aside, Moves, Idle
<1>3. ASSUME NEW b, NEW r, NEW gone, Handle(c, b, r, gone)
      PROVE  /\ Moves(c, {"idle", "handling"}) /\ cl[c].pc \in {"idle", "handling"} /\ cl'[c].w \in {"none", cl[c].w}
             /\ UNCHANGED <<backend, files, db, faults, workflows, pointers, subs, sequences, writes>>
  BY <1>0, <1>3 DEF Handle, Resume, At, Aside, Moves, Client
<1>4. ASSUME NEW b, NEW gone, Finish(c, b, gone)
      PROVE  /\ Moves(c, {"idle", "handling"}) /\ cl[c].pc \in {"idle", "handling"} /\ cl'[c].w \in {"none", cl[c].w}
             /\ UNCHANGED <<backend, files, db, faults, workflows, pointers, subs, sequences, writes>>
  BY <1>0, <1>4, IdleType DEF Finish, Resume, At, Aside, Return, Moves
<1>. QED  BY <1>1, <1>2, <1>3, <1>4 DEF CommandStep, MemSchedule, PgSchedule, LiteSchedule, MemFindDue, PgFindDue,
          LiteFindDue, MemHandle, PgHandle, LiteHandle, MemFinish, PgDeleteDue, LiteFinish

LEMMA OwnFrame ==
  ASSUME TypeOK, NEW c \in Clients, OwnStep(c)
  PROVE  /\ Moves(c, {"idle", "loaded", "subscribe"}) /\ backend # "files"
         /\ UNCHANGED <<backend, files, db, faults, commands, handled>>
<1>0. cl \in [Clients -> Client]
  BY DEF TypeOK
<1>1. CASE MemPersistWaiting(c)
  BY <1>0, <1>1 DEF MemPersistWaiting, Resume, At, Aside, Moves, Idle
<1>2. CASE \E w \in Workflows : MemGet(c, w)
  BY <1>0, <1>2 DEF MemGet, Begin, At, Aside, tables, Moves, Idle
<1>3. CASE MemSubscribe(c)
  BY <1>0, <1>3, IdleType DEF MemSubscribe, Subscription, Resume, At, Aside, Return, Moves
<1>4. CASE \E s \in Subs : MemTerminate(c, s) \/ PgTerminate(c, s) \/ LiteTerminate(c, s) \/ PgSubscribe(c, s) \/ LiteSubscribe(c, s)
  BY <1>0, <1>4, IdleType DEF MemTerminate, PgTerminate, LiteTerminate, PgSubscribe, LiteSubscribe, Subscription, Begin, At, Aside, Return, Moves
<1>. QED  BY <1>1, <1>2, <1>3, <1>4 DEF OwnStep

LEMMA BootFrame ==
  ASSUME TypeOK, NEW c \in Clients, BootStep(c)
  PROVE  /\ Moves(c, Booting \cup {"idle", "down"}) /\ cl[c].pc \in Booting /\ cl'[c].w \in {"none", cl[c].w}
         /\ UNCHANGED <<backend, tables, files, writes, handled, calls>>
<1>0. cl \in [Clients -> Client] /\ cl[c] \in Client
  BY DEF TypeOK
<1>6. CASE PgFindSchema(c)
  BY <1>0, <1>6 DEF PgFindSchema, At, BootOnly, Moves, Booting, Unpathed, Client
<1>7. CASE PgCreateSchema(c)
  BY <1>0, <1>7 DEF PgCreateSchema, At, BootOnly, Moves, Booting, Unpathed, Client
<1>1. CASE PgSetPath(c)
  BY <1>0, <1>1 DEF PgSetPath, At, BootOnly, Moves, Booting, Unpathed, Client
<1>2. CASE PgLockMigrations(c)
  BY <1>0, <1>2 DEF PgLockMigrations, At, BootOnly, Moves, Booting, Unpathed, Client
<1>3. CASE PgMigrate(c)
  BY <1>0, <1>3 DEF PgMigrate, At, BootOnly, Moves, Booting, Unpathed, Client
<1>4. CASE PgRestorePath(c)
  BY <1>0, <1>4 DEF PgRestorePath, BootOnly, Moves, Booting, Unpathed, Idle
<1>5. CASE PgBootFails(c)
  BY <1>0, <1>5 DEF PgBootFails, BootOnly, Moves, Booting, Unpathed, Client
<1>. QED  BY <1>1, <1>2, <1>3, <1>4, <1>5, <1>6, <1>7 DEF BootStep

LEMMA FileFrame ==
  ASSUME TypeOK, NEW c \in Clients, FileStep(c)
  PROVE  /\ Moves(c, {"idle", "spooled", "placed", "marking", "resolve", "open", "collect", "collected"})
         /\ cl[c].pc \in {"idle", "spooled", "placed", "marking", "resolve", "open", "collect", "collected"}
         /\ cl'[c].w \in {"none", cl[c].w} /\ backend = "files"
         /\ FilesOnly
<1>0. cl \in [Clients -> Client] /\ cl[c] \in Client
  BY DEF TypeOK
<1>1. CASE \E d \in Digests : ArtSpool(c, d)
  BY <1>0, <1>1 DEF ArtSpool, Begin, At, Moves, Idle
<1>2. CASE \E d \in Digests : gc_expired(c, d)
  <2>1. PICK d \in Digests : gc_expired(c, d)
    BY <1>2
  <2>2. files.meta[d] \in {"none", "torn", "fresh", "expired"}
    BY DEF TypeOK, Artifacts
  <2>3. PICK next \in {"open", "collect", "error"} : Judged(c, d, next)
    BY <2>1, <2>2 DEF gc_expired
  <2>. QED  BY <1>0, <2>3 DEF Judged, Resume, At, Moves, Idle, Client
<1>3. CASE \E D \in SUBSET Digests : ArtResolve(c, D)
  BY <1>0, <1>3 DEF ArtResolve, Begin, At, Moves, Idle
<1>4. CASE ArtDeduplicate(c) \/ ArtRemoveMeta(c) \/ ArtResolved(c)
  BY <1>0, <1>4, IdleType DEF ArtDeduplicate, ArtRemoveMeta, ArtResolved, Resume, At, Return, Moves
<1>5. CASE ArtPlace(c)
  BY <1>0, <1>5 DEF ArtPlace, ArtGoto, Resume, At, Moves, Client
<1>6. CASE ArtMark(c)
  BY <1>0, <1>6, IdleType DEF ArtMark, ArtGoto, Resume, At, Return, Moves, Client
<1>7. CASE ArtRemoveBlob(c)
  BY <1>0, <1>7 DEF ArtRemoveBlob, ArtGoto, Resume, At, Moves, Client
<1>8. CASE ArtOpen(c)
  BY <1>0, <1>8 DEF ArtOpen, Resume, At, Moves, Idle, Client
<1>. QED  BY <1>1, <1>2, <1>3, <1>4, <1>5, <1>6, <1>7, <1>8 DEF FileStep

-----------------------------------------------------------------------------
(* Artifacts.                                                              *)

\* Only what has expired is collected: an expired meta file, and whoever acts
\* on one, is about an artifact that has aged; a client that put a blob in its
\* place and has yet to return still has it there, unless it has aged too.
\* A meta file is torn while its writer writes it, or was left so by a fault.
Torn == \A d \in Digests : files.meta[d] = "torn" => Marking(d) \/ faults > 0
FilesInv ==
  /\ \A d \in files.refs \ files.aged : d \in files.blobs
  /\ Torn
  /\ \A d \in Digests : files.meta[d] = "expired" => d \in files.aged
  /\ \A c \in Clients :
       /\ cl[c].pc = "collect" => cl[c].s \in files.aged
       /\ cl[c].pc \in {"placed", "marking"} => cl[c].s \in files.blobs \cup files.aged

\* A step of a client that is not writing a meta file.
LEMMA TornStays ==
  ASSUME TypeOK, Torn, NEW c \in Clients, \A d \in Clients \ {c} : cl'[d] = cl[d],
         cl[c].pc # "marking" \/ faults' > 0, faults' = faults \/ faults' > 0,
         \A d \in Digests : files'.meta[d] = "torn" => files.meta[d] = "torn"
  PROVE  Torn'
BY DEF Torn, Marking

\* A step that leaves the directory alone.
LEMMA FilesUntouched ==
  ASSUME TypeOK, FilesInv, NEW c \in Clients, NEW P, Moves(c, P), P \cap {"collect", "placed", "marking"} = {},
         files' = files, cl[c].pc # "marking" \/ faults' > 0, faults' = faults \/ faults' > 0
  PROVE  FilesInv'
<1>1. Torn'
  BY TornStays DEF FilesInv, Moves
<1>. QED  BY <1>1 DEF FilesInv, Moves

LEMMA FilesStep ==
  ASSUME TypeOK, FilesInv, NEW c \in Clients, FileStep(c)
  PROVE  FilesInv'
<1>0. cl \in [Clients -> Client] /\ cl[c] \in Client /\ files \in Artifacts
  BY DEF TypeOK
<1>a. faults' = faults /\ \A d \in Clients \ {c} : cl'[d] = cl[d]
  BY FileFrame DEF FilesOnly, Moves
<1>b. ASSUME cl[c].pc # "marking", \A d \in Digests : files'.meta[d] = "torn" => files.meta[d] = "torn"
      PROVE  Torn'
  BY <1>a, <1>b, TornStays DEF FilesInv
<1>1. CASE files' = files /\ cl'[c].pc \notin {"collect", "placed", "marking"} /\ cl[c].pc # "marking"
  BY <1>1, <1>b, FileFrame DEF FilesInv, Moves
<1>2. CASE \E d \in Digests : ArtSpool(c, d)
  BY <1>0, <1>1, <1>2 DEF ArtSpool, Begin, At, Idle
<1>3. ASSUME NEW d \in Digests, gc_expired(c, d)  PROVE FilesInv'
  <2>1. files.meta[d] \in {"none", "torn", "fresh", "expired"}
    BY <1>0 DEF Artifacts
  <2>2. CASE files.meta[d] = "expired"
    <3>1. cl'[c].pc = "collect" /\ cl'[c].s = d /\ files' = files /\ cl[c].pc # "marking"
      BY <1>0, <1>3, <2>2 DEF gc_expired, Judged, Resume, At, Client
    <3>. QED  BY <1>b, <2>2, <3>1, FileFrame DEF FilesInv, Moves
  <2>3. CASE files.meta[d] # "expired"
    <3>1. cl'[c].pc \in {"open", "idle"} /\ files' = files /\ cl[c].pc # "marking"
      BY <1>0, <1>3, <2>1, <2>3, IdleType DEF gc_expired, Judged, Resume, At, Client
    <3>. QED  BY <1>1, <3>1
  <2>. QED  BY <2>2, <2>3
<1>4. CASE \E D \in SUBSET Digests : ArtResolve(c, D)
  BY <1>0, <1>1, <1>4 DEF ArtResolve, Begin, At, Idle
<1>5. CASE ArtDeduplicate(c)
  <2>1. /\ cl[c].s \in files.blobs /\ cl'[c].pc = "idle" /\ cl[c].pc # "marking"
        /\ files'.blobs = files.blobs /\ files'.meta = files.meta /\ files'.aged = files.aged
        /\ files'.refs = files.refs \cup {cl[c].s}
    BY <1>0, <1>5, IdleType DEF ArtDeduplicate, Resume, At, Return, Artifacts
  <2>. QED  BY <1>b, <2>1, FileFrame DEF FilesInv, Moves
<1>6. CASE ArtPlace(c)
  <2>1. /\ cl'[c].pc = "placed" /\ cl'[c].s = cl[c].s /\ cl[c].pc # "marking"
        /\ files'.blobs = files.blobs \cup {cl[c].s}
        /\ files'.meta = files.meta /\ files'.aged = files.aged /\ files'.refs = files.refs
    BY <1>0, <1>6 DEF ArtPlace, ArtGoto, Resume, At, Artifacts, Client
  <2>. QED  BY <1>b, <2>1, FileFrame DEF FilesInv, Moves
<1>7. CASE ArtMark(c)
  <2>1. cl[c].s \in files.blobs \cup files.aged
    BY <1>7 DEF ArtMark, Resume, At, FilesInv
  <2>2. /\ (cl'[c].pc = "marking" /\ cl'[c].s = cl[c].s) \/ cl'[c].pc = "idle"
        /\ files'.blobs = files.blobs /\ files'.aged = files.aged
        /\ files'.refs \subseteq files.refs \cup {cl[c].s}
        /\ \A d \in Digests : files'.meta[d] = "expired" => files.meta[d] = "expired"
        /\ \A d \in Digests \ {cl[c].s} : files'.meta[d] = files.meta[d]
        /\ cl'[c].pc = "idle" /\ cl[c].s \in Digests => files'.meta[cl[c].s] = "fresh"
    <3>1. CASE files' = [files EXCEPT !.meta[cl[c].s] = "torn"] /\ ArtGoto(c, "marking")
      BY <1>0, <3>1 DEF ArtGoto, Artifacts, Client
    <3>2. CASE files' = [files EXCEPT !.meta[cl[c].s] = "fresh", !.refs = files.refs \cup {cl[c].s}] /\ Return(c)
      <4>1. files' = [blobs |-> files.blobs, meta |-> [files.meta EXCEPT ![cl[c].s] = "fresh"],
                      refs |-> files.refs \cup {cl[c].s}, aged |-> files.aged]
        BY <1>0, <3>2 DEF Artifacts
      <4>2. cl'[c].pc = "idle"
        BY <1>0, <3>2, IdleType DEF Return
      <4>3. /\ \A d \in Digests : files'.meta[d] = "expired" => files.meta[d] = "expired"
            /\ \A d \in Digests \ {cl[c].s} : files'.meta[d] = files.meta[d]
            /\ cl[c].s \in Digests => files'.meta[cl[c].s] = "fresh"
        BY <1>0, <4>1 DEF Artifacts
      <4>. QED  BY <4>1, <4>2, <4>3
    <3>. QED  BY <1>7, <3>1, <3>2 DEF ArtMark
  <2>3. Torn'
    <3>1. SUFFICES ASSUME NEW d \in Digests, files'.meta[d] = "torn"  PROVE Marking(d)' \/ faults' > 0
      BY DEF Torn
    <3>2. CASE d = cl[c].s
      BY <2>2, <3>1, <3>2 DEF Marking
    <3>3. CASE d # cl[c].s
      BY <1>a, <2>2, <3>1, <3>3 DEF FilesInv, Torn, Marking
    <3>. QED  BY <3>2, <3>3
  <2>. QED  BY <2>1, <2>2, <2>3, FileFrame DEF FilesInv, Moves
<1>8. CASE ArtRemoveBlob(c)
  <2>1. cl[c].s \in files.aged
    BY <1>8 DEF ArtRemoveBlob, Resume, At, FilesInv
  <2>2. /\ cl'[c].pc = "collected" /\ cl[c].pc # "marking"
        /\ files'.blobs = files.blobs \ {cl[c].s}
        /\ files'.meta = files.meta /\ files'.aged = files.aged /\ files'.refs = files.refs
    BY <1>0, <1>8 DEF ArtRemoveBlob, ArtGoto, Resume, At, Artifacts, Client
  <2>. QED  BY <1>b, <2>1, <2>2, FileFrame DEF FilesInv, Moves
<1>9. CASE ArtRemoveMeta(c)
  <2>1. /\ cl'[c].pc = "idle" /\ cl[c].pc # "marking"
        /\ files'.blobs = files.blobs /\ files'.aged = files.aged /\ files'.refs = files.refs
        /\ \A d \in Digests : files'.meta[d] \in {"expired", "torn"} => files.meta[d] = files'.meta[d]
    BY <1>0, <1>9, IdleType DEF ArtRemoveMeta, Resume, At, Return, Artifacts
  <2>. QED  BY <1>b, <2>1, FileFrame DEF FilesInv, Moves
<1>10. CASE ArtOpen(c) \/ ArtResolved(c)
  <2>1. cl'[c].pc \in {"resolve", "idle"} /\ files' = files /\ cl[c].pc # "marking"
    <3>1. CASE ArtOpen(c)
      BY <1>0, <3>1, IdleType DEF ArtOpen, Resume, At, Client
    <3>2. CASE ArtResolved(c)
      BY <1>0, <3>2, IdleType DEF ArtResolved, Resume, At, Return
    <3>. QED  BY <1>10, <3>1, <3>2
  <2>. QED  BY <1>1, <2>1
<1>. QED  BY <1>2, <1>3, <1>4, <1>5, <1>6, <1>7, <1>8, <1>9, <1>10 DEF FileStep

\* A reference that put has returned leads to its blob until it expires, however
\* many hosts put, get and collect in the directory, without a lock, and
\* wherever one of them dies; and as long as no put has failed, its meta file
\* can be read whenever no put of the same bytes is about to write it.
THEOREM ArtifactsKept == Spec => []ArtifactsThere
<1>1. Init => FilesInv
  BY DEF Init, FilesInv, Torn, Idle
<1>2. TypeOK /\ FilesInv /\ [Next]_vars => FilesInv'
  <2>. SUFFICES ASSUME TypeOK, FilesInv, [Next]_vars  PROVE FilesInv'
    OBVIOUS
  <2>0. faults \in Nat
    BY TablesAssumption DEF TypeOK
  <2>1. ASSUME NEW c \in Clients, NEW b \in Providers, CommonStep(c, b)  PROVE FilesInv'
    <3>1. cl[c].pc # "marking"
      BY <2>1 DEF CommonStep, Number, Create, Persist, PersistWaiting, GetPointers, GetRow, SetToken, ClearToken,
         CreateEvent, MarkEvent, Begin, Resume, At
    <3>. QED  BY <2>1, <3>1, CommonFrame, FilesUntouched
  <2>2. ASSUME NEW c \in Clients, CommandStep(c)  PROVE FilesInv'
    BY <2>2, CommandFrame, FilesUntouched
  <2>3. ASSUME NEW c \in Clients, OwnStep(c)  PROVE FilesInv'
    <3>1. cl[c].pc # "marking"
      BY <2>3 DEF OwnStep, MemPersistWaiting, MemSubscribe, MemGet, MemTerminate, PgTerminate, LiteTerminate,
         PgSubscribe, LiteSubscribe, Begin, Resume, At
    <3>. QED  BY <2>3, <3>1, OwnFrame, FilesUntouched
  <2>4. ASSUME NEW c \in Clients, BootStep(c)  PROVE FilesInv'
    <3>1. (Booting \cup {"idle", "down"}) \cap {"collect", "placed", "marking"} = {}
      BY DEF Booting, Unpathed
    <3>2. faults' = faults \/ faults' > 0
      BY <2>0, <2>4 DEF BootStep, PgFindSchema, PgCreateSchema, PgSetPath, PgLockMigrations, PgMigrate,
         PgRestorePath, PgBootFails
    <3>3. cl[c].pc # "marking"
      BY <2>4, BootFrame DEF Booting, Unpathed
    <3>. QED  BY <2>4, <3>1, <3>2, <3>3, BootFrame, FilesUntouched
  <2>5. ASSUME NEW c \in Clients, CallFails(c)  PROVE FilesInv'
    <3>1. Moves(c, {"idle"}) /\ files' = files /\ faults' > 0
      BY <2>0, <2>5, IdleType DEF CallFails, Return, Moves, TypeOK
    <3>. QED  BY <3>1, FilesUntouched
  <2>6. ASSUME NEW d \in Digests, ArtExpires(d)  PROVE FilesInv'
    <3>1. /\ files'.blobs = files.blobs /\ files'.refs = files.refs /\ files'.aged = files.aged \cup {d}
          /\ \A e \in Digests : files'.meta[e] = "expired" => files.meta[e] = "expired" \/ e = d
          /\ \A e \in Digests : files'.meta[e] = "torn" => files.meta[e] = "torn"
          /\ cl' = cl /\ faults' = faults
      BY <2>6 DEF ArtExpires, FilesOnly, TypeOK, Artifacts
    <3>. QED  BY <3>1 DEF FilesInv, Torn, Marking
  <2>7. CASE UNCHANGED vars
    BY <2>7 DEF vars, FilesInv, Torn, Marking
  <2>. QED  BY <2>1, <2>2, <2>3, <2>4, <2>5, <2>6, <2>7, NextCases, FilesStep
<1>3. TypeOK /\ FilesInv => ArtifactsThere
  BY DEF FilesInv, Torn, ArtifactsThere, TypeOK, Artifacts
<1>. QED  BY <1>1, <1>2, <1>3, StoresTypeCorrect, PTL DEF Spec

-----------------------------------------------------------------------------
(* Starting PostgreSQL.                                                    *)

\* The advisory lock is with the client that migrates, and that client's count
\* of applied migrations is the database's: so no migration finds its row there
\* already.  The creator of the schema is past creating it, and who is about to
\* create it has not found it: so a second CREATE fails because of another host,
\* and everybody else who fails does so because a statement failed.
BootInv ==
  backend = "postgres" =>
    /\ StartsTogether
    /\ \A c \in Clients :
         /\ cl[c].pc = "migrating" <=> db.lock = c
         /\ cl[c].pc = "migrating" => cl[c].v = db.applied
         /\ cl[c].pc = "restoring" => db.applied = Migrations
         /\ cl[c].pc = "failing" => faults > 0
         /\ cl[c].pc \in Unpathed => db.path[c] = "app"
         /\ cl[c].pc \in {"boot", "creating"} => db.creator # c
         /\ cl[c].pc = "creating" /\ db.schema => db.creator # "none"

\* A step of a client that is up.
LEMMA BootUntouched ==
  ASSUME TypeOK, BootInv, NEW c \in Clients, cl[c].pc \notin Booting \cup {"down"},
         cl'[c].pc \notin Booting \cup {"down"}, \A d \in Clients \ {c} : cl'[d] = cl[d],
         db' = db, backend' = backend, faults' \in Nat, faults' >= faults
  PROVE  BootInv'
<1>1. faults \in Nat
  BY TablesAssumption DEF TypeOK
<1>. QED  BY <1>1 DEF BootInv, StartsTogether, Booting, Unpathed

\* A step of ensure_store_exists.
LEMMA BootChanges ==
  ASSUME TypeOK, BootInv, NEW c \in Clients, BootStep(c)
  PROVE  BootInv'
<1>. SUFFICES ASSUME backend = "postgres"  PROVE BootInv'
  BY BootFrame DEF BootInv
<1>0. /\ cl \in [Clients -> Client] /\ cl[c] \in Client /\ db \in Database /\ faults \in Nat
      /\ cl[c].v \in Nat /\ db.applied \in 0..Migrations /\ Migrations \in Nat /\ "none" \notin Clients
      /\ db.path \in [Clients -> {"app", "wfc"}]
  BY TablesAssumption, NamesAssumption DEF TypeOK, Client, Database
<1>6. CASE PgFindSchema(c)
  <2>1. /\ cl[c].pc = "boot" /\ faults' = faults /\ db' = db
        /\ cl'[c].pc = (IF db.schema THEN "created" ELSE "creating")
    BY <1>0, <1>6 DEF PgFindSchema, At, Client
  <2>. QED  BY <1>0, <2>1, BootFrame DEF Moves, BootInv, StartsTogether, Booting, Unpathed
<1>7. CASE PgCreateSchema(c)
  <2>1. /\ cl[c].pc = "creating" /\ faults' = faults
        /\ cl'[c].pc = (IF db.schema THEN "down" ELSE "created")
        /\ db'.schema = TRUE /\ db'.creator = (IF db.schema THEN db.creator ELSE c)
        /\ db'.applied = db.applied /\ db'.lock = db.lock /\ db'.unrestored = db.unrestored /\ db'.path = db.path
    BY <1>0, <1>7 DEF PgCreateSchema, At, Client, Database
  <2>2. CASE db.schema
    BY <1>0, <2>1, <2>2, BootFrame DEF Moves, BootInv, StartsTogether, Booting, Unpathed
  <2>3. CASE ~db.schema
    BY <1>0, <2>1, <2>3, BootFrame DEF Moves, BootInv, StartsTogether, Booting, Unpathed
  <2>. QED  BY <2>2, <2>3
<1>1. CASE PgSetPath(c)
  <2>1. /\ cl[c].pc = "created" /\ cl'[c].pc = "locking" /\ faults' = faults
        /\ db'.schema = db.schema /\ db'.creator = db.creator
        /\ db'.applied = db.applied /\ db'.lock = db.lock /\ db'.unrestored = db.unrestored
        /\ \A d \in Clients \ {c} : db'.path[d] = db.path[d]
    BY <1>0, <1>1 DEF PgSetPath, At, Client, Database
  <2>. QED  BY <1>0, <2>1, BootFrame DEF Moves, BootInv, StartsTogether, Booting, Unpathed
<1>2. CASE PgLockMigrations(c)
  <2>1. /\ cl[c].pc = "locking" /\ cl'[c].pc = "migrating" /\ cl'[c].v = db.applied /\ faults' = faults
        /\ db.lock = "none" /\ db'.lock = c /\ db'.schema = db.schema /\ db'.creator = db.creator
        /\ db'.applied = db.applied /\ db'.path = db.path /\ db'.unrestored = db.unrestored
    BY <1>0, <1>2 DEF PgLockMigrations, At, Client, Database
  <2>. QED  BY <1>0, <2>1, BootFrame DEF Moves, BootInv, StartsTogether, Booting, Unpathed
<1>3. CASE PgMigrate(c)
  <2>1. /\ cl[c].pc = "migrating" /\ db.lock = c /\ cl[c].v = db.applied /\ faults' = faults
        /\ \A d \in Clients \ {c} : cl[d].pc # "migrating"
    BY <1>0, <1>3 DEF PgMigrate, At, BootInv
  <2>2. CASE cl[c].v < Migrations
    <3>1. /\ db'.applied = db.applied + 1 /\ db'.lock = c /\ db'.path = db.path /\ db'.unrestored = db.unrestored
          /\ cl'[c].v = cl[c].v + 1 /\ cl'[c].pc = "migrating" /\ db'.schema = db.schema /\ db'.creator = db.creator
      BY <1>0, <1>3, <2>1, <2>2 DEF PgMigrate, Client, Database
    <3>2. db.applied # Migrations
      BY <1>0, <2>1, <2>2
    <3>. QED  BY <1>0, <2>1, <3>1, <3>2, BootFrame DEF Moves, BootInv, StartsTogether, Booting, Unpathed
  <2>3. CASE cl[c].v >= Migrations
    <3>1. /\ db'.applied = db.applied /\ db'.lock = "none" /\ db'.path = db.path /\ db'.unrestored = db.unrestored
          /\ cl'[c].pc = "restoring" /\ db'.schema = db.schema /\ db'.creator = db.creator
      BY <1>0, <1>3, <2>1, <2>3 DEF PgMigrate, Client, Database
    <3>2. db.applied = Migrations
      BY <1>0, <2>1, <2>3
    <3>. QED  BY <1>0, <2>1, <3>1, <3>2, BootFrame DEF Moves, BootInv, StartsTogether, Booting, Unpathed
  <2>. QED  BY <1>0, <2>2, <2>3
<1>4. CASE PgRestorePath(c)
  <2>1. /\ cl[c].pc \in {"restoring", "failing"} /\ faults' = faults
        /\ cl'[c].pc = (IF cl[c].pc = "restoring" THEN "idle" ELSE "down")
        /\ db'.applied = db.applied /\ db'.lock = db.lock /\ db'.unrestored = db.unrestored
        /\ db'.schema = db.schema /\ db'.creator = db.creator
        /\ db'.path[c] = "app" /\ \A d \in Clients \ {c} : db'.path[d] = db.path[d]
    BY <1>0, <1>4 DEF PgRestorePath, Idle, Database
  <2>. QED  BY <1>0, <2>1, BootFrame DEF Moves, BootInv, StartsTogether, Booting, Unpathed
<1>5. CASE PgBootFails(c)
  <2>1. faults' > 0
    BY <1>0, <1>5 DEF PgBootFails
  <2>2. CASE cl[c].pc \in Unpathed
    <3>1. cl'[c].pc = "down" /\ db' = db
      BY <1>0, <1>5, <2>2 DEF PgBootFails, Client, Unpathed
    <3>. QED  BY <1>0, <2>1, <2>2, <3>1, BootFrame DEF Moves, BootInv, StartsTogether, Booting, Unpathed
  <2>3. CASE cl[c].pc \in {"locking", "migrating"}
    <3>1. /\ db'.schema = db.schema /\ db'.creator = db.creator
          /\ cl'[c].pc = "failing" /\ db'.lock = (IF db.lock = c THEN "none" ELSE db.lock)
          /\ db'.applied = db.applied /\ db'.path = db.path /\ db'.unrestored = db.unrestored
      BY <1>0, <1>5, <2>3 DEF PgBootFails, Unpathed, Client, Database
    <3>. QED  BY <1>0, <2>1, <2>3, <3>1, BootFrame DEF Moves, BootInv, StartsTogether, Booting, Unpathed
  <2>4. CASE cl[c].pc \in {"restoring", "failing"}
    <3>1. /\ db'.schema = db.schema /\ db'.creator = db.creator
          /\ cl'[c].pc = "down" /\ db'.unrestored = db.unrestored \cup {c}
          /\ db'.applied = db.applied /\ db'.path = db.path /\ db'.lock = db.lock
      BY <1>0, <1>5, <2>4 DEF PgBootFails, Unpathed, Client, Database
    <3>. QED  BY <1>0, <2>1, <2>4, <3>1, BootFrame DEF Moves, BootInv, StartsTogether, Booting, Unpathed
  <2>. QED  BY <1>5, <2>2, <2>3, <2>4 DEF PgBootFails
<1>. QED  BY <1>1, <1>2, <1>3, <1>4, <1>5, <1>6, <1>7 DEF BootStep

\* Hosts that start together on one PostgreSQL database come up with every
\* migration applied, for any number of hosts and migrations, unless a statement
\* failed or another of them created the schema meanwhile; so the creator comes
\* up, and all of them when the schema was there; and a connection goes back to the pool with the application's
\* search_path unless restoring it is what failed.
THEOREM HostsStart == Spec => []StartsTogether
<1>1. Init => BootInv
  BY TablesAssumption, NamesAssumption DEF Init, BootInv, StartsTogether, Booting, Unpathed, Idle
<1>2. TypeOK /\ BootInv /\ [Next]_vars => BootInv'
  <2>. SUFFICES ASSUME TypeOK, BootInv, [Next]_vars  PROVE BootInv'
    OBVIOUS
  <2>0. faults \in Nat /\ cl \in [Clients -> Client]
    BY TablesAssumption DEF TypeOK
  <2>1. ASSUME NEW c \in Clients, NEW b \in Providers, CommonStep(c, b)  PROVE BootInv'
    <3>1. cl[c].pc \in {"idle", "numbered", "row", "loaded", "claimed"}
      BY <2>1 DEF CommonStep, Number, Create, Persist, PersistWaiting, GetPointers, GetRow, SetToken, ClearToken,
         CreateEvent, MarkEvent, Begin, Resume, At
    <3>. QED  BY <2>0, <2>1, <3>1, CommonFrame, BootUntouched DEF Moves, Booting, Unpathed
  <2>2. ASSUME NEW c \in Clients, CommandStep(c)  PROVE BootInv'
    BY <2>0, <2>2, CommandFrame, BootUntouched DEF Moves, Booting, Unpathed
  <2>3. ASSUME NEW c \in Clients, OwnStep(c)  PROVE BootInv'
    <3>1. cl[c].pc \in {"idle", "loaded", "subscribe"}
      BY <2>3 DEF OwnStep, MemPersistWaiting, MemSubscribe, MemGet, MemTerminate, PgTerminate, LiteTerminate,
         PgSubscribe, LiteSubscribe, Begin, Resume, At
    <3>. QED  BY <2>0, <2>3, <3>1, OwnFrame, BootUntouched DEF Moves, Booting, Unpathed
  <2>4. ASSUME NEW c \in Clients, FileStep(c)  PROVE BootInv'
    BY <2>0, <2>4, FileFrame, BootUntouched DEF Moves, Booting, Unpathed, FilesOnly
  <2>5. ASSUME NEW c \in Clients, CallFails(c)  PROVE BootInv'
    BY <2>0, <2>5, IdleType, BootUntouched DEF CallFails, Return, Booting, Unpathed
  <2>6. ASSUME NEW d \in Digests, ArtExpires(d)  PROVE BootInv'
    BY <2>6 DEF ArtExpires, FilesOnly, BootInv, StartsTogether
  <2>7. CASE UNCHANGED vars
    BY <2>7 DEF vars, BootInv, StartsTogether
  <2>. QED  BY <2>1, <2>2, <2>3, <2>4, <2>5, <2>6, <2>7, NextCases, BootChanges
<1>3. BootInv => StartsTogether
  BY DEF BootInv, StartsTogether
<1>. QED  BY <1>1, <1>2, <1>3, StoresTypeCorrect, PTL DEF Spec

-----------------------------------------------------------------------------
(* Scheduled commands.                                                     *)

\* PostgreSQL deletes at the end of process_commands whatever is due by then.
\* While somebody is processing, a due command is still to be handled by that
\* client, or has been handled, or was scheduled in the meantime.
CommandInv ==
  backend = "postgres" => \A c \in Clients : cl[c].pc = "handling" =>
    \A r \in commands : r.due => r.late \/ r \in cl[c].todo \/ r.gen \in handled

\* What CommandsKept says of one step.
KeepsCommands ==
  backend # "memory" => \A r \in commands \ commands' :
    r.gen \in handled' \/ r.late \/ \E n \in commands' : n.key = r.key

\* A step that is not about commands.
LEMMA CommandsUntouched ==
  ASSUME CommandInv, NEW c \in Clients, NEW P, Moves(c, P), "handling" \notin P,
         UNCHANGED <<backend, commands, handled>>
  PROVE  CommandInv' /\ KeepsCommands
BY DEF CommandInv, KeepsCommands, Moves

LEMMA CommandsStep ==
  ASSUME TypeOK, CommandInv, NEW c \in Clients, CommandStep(c)
  PROVE  CommandInv' /\ KeepsCommands
<1>0. cl \in [Clients -> Client] /\ cl[c] \in Client
  BY DEF TypeOK
<1>1. \A d \in Clients \ {c} : cl'[d] = cl[d]
  BY CommandFrame DEF Moves
<1>2. ASSUME NEW k \in Commands, NEW due \in BOOLEAN, PgSchedule(c, k, due)  PROVE CommandInv' /\ KeepsCommands
  <2>1. /\ commands' = {r \in commands : r.key # k} \cup {Command(k, due)}
        /\ cl'[c].pc = "idle" /\ cl[c].pc = "idle" /\ UNCHANGED <<backend, handled>>
    BY <1>0, <1>2, IdleType DEF PgSchedule, Scheduled, Begin, At, Return, Aside
  <2>2. Command(k, due).key = k /\ Command(k, due).due = due /\ Command(k, due).late = (due /\ Processing)
    BY DEF Command
  <2>3. CommandInv'
    <3>. SUFFICES ASSUME backend = "postgres", NEW d \in Clients, cl'[d].pc = "handling",
                         NEW r \in commands', r.due
                  PROVE  r.late \/ r \in cl'[d].todo \/ r.gen \in handled'
      BY <2>1 DEF CommandInv
    <3>1. cl'[d] = cl[d] /\ cl[d].pc = "handling"
      BY <1>1, <2>1
    <3>2. Processing
      BY <3>1 DEF Processing
    <3>. QED  BY <2>1, <2>2, <3>1, <3>2 DEF CommandInv
  <2>4. KeepsCommands
    BY <2>1, <2>2 DEF KeepsCommands
  <2>. QED  BY <2>3, <2>4
<1>3. ASSUME NEW k \in Commands, NEW due \in BOOLEAN, LiteSchedule(c, k, due)  PROVE CommandInv' /\ KeepsCommands
  BY <1>3 DEF LiteSchedule, Scheduled, Begin, At, Aside, CommandInv, KeepsCommands
<1>4. ASSUME backend = "memory"  PROVE CommandInv' /\ KeepsCommands
  BY <1>4, CommandFrame DEF CommandInv, KeepsCommands
<1>5. CASE PgFindDue(c)
  <2>1. /\ commands' = commands /\ UNCHANGED <<backend, handled>>
        /\ cl'[c].todo = {r \in commands : r.due}
    BY <1>0, <1>5 DEF PgFindDue, FindDue, Aside, Idle
  <2>. QED  BY <1>1, <2>1 DEF CommandInv, KeepsCommands
<1>6. CASE LiteFindDue(c)
  BY <1>6 DEF LiteFindDue, FindDue, Begin, At, Aside, CommandInv, KeepsCommands
<1>7. ASSUME NEW r \in cl[c].todo, PgHandle(c, r)  PROVE CommandInv' /\ KeepsCommands
  <2>1. /\ commands' = commands /\ backend' = backend /\ handled' = handled \cup {r.gen}
        /\ cl[c].pc = "handling" /\ cl'[c].todo = cl[c].todo \ {r}
    BY <1>0, <1>7 DEF PgHandle, Handle, Resume, At, Aside, Client
  <2>. QED  BY <1>1, <2>1 DEF CommandInv, KeepsCommands
<1>8. ASSUME NEW r \in cl[c].todo, LiteHandle(c, r)  PROVE CommandInv' /\ KeepsCommands
  BY <1>8 DEF LiteHandle, Handle, Resume, At, Aside, CommandInv, KeepsCommands
<1>9. CASE PgDeleteDue(c)
  <2>1. /\ commands' = commands \ {r \in commands : r.due} /\ UNCHANGED <<backend, handled>>
        /\ cl[c].pc = "handling" /\ cl[c].todo = {} /\ cl'[c].pc = "idle" /\ backend = "postgres"
    BY <1>0, <1>9, IdleType DEF PgDeleteDue, Finish, Resume, At, Return, Aside
  <2>2. \A r \in commands \ commands' : r.late \/ r.gen \in handled
    BY <2>1 DEF CommandInv
  <2>3. \A d \in Clients : cl'[d].pc = "handling" => cl'[d] = cl[d]
    BY <1>1, <2>1
  <2>. QED  BY <2>1, <2>2, <2>3 DEF CommandInv, KeepsCommands
<1>10. CASE LiteFinish(c)
  BY <1>10 DEF LiteFinish, Finish, Resume, At, Aside, CommandInv, KeepsCommands
<1>11. CASE MemFindDue(c) \/ MemFinish(c) \/ (\E r \in cl[c].todo : MemHandle(c, r))
            \/ \E k \in Commands, due \in BOOLEAN : MemSchedule(c, k, due)
  BY <1>4, <1>11 DEF MemFindDue, MemFinish, MemHandle, MemSchedule, FindDue, Finish, Handle, Scheduled, Begin, Resume, At
<1>. QED  BY <1>2, <1>3, <1>5, <1>6, <1>7, <1>8, <1>9, <1>10, <1>11 DEF CommandStep

LEMMA CommandsAnyStep ==
  ASSUME TypeOK, CommandInv, [Next]_vars
  PROVE  CommandInv' /\ (KeepsCommands \/ UNCHANGED vars)
<1>1. ASSUME NEW c \in Clients, NEW b \in Providers, CommonStep(c, b)  PROVE CommandInv' /\ KeepsCommands
  BY <1>1, CommonFrame, CommandsUntouched
<1>2. ASSUME NEW c \in Clients, OwnStep(c)  PROVE CommandInv' /\ KeepsCommands
  BY <1>2, OwnFrame, CommandsUntouched
<1>3. ASSUME NEW c \in Clients, BootStep(c)  PROVE CommandInv' /\ KeepsCommands
  <2>1. "handling" \notin Booting \cup {"idle", "down"}
    BY DEF Booting, Unpathed
  <2>. QED  BY <1>3, <2>1, BootFrame, CommandsUntouched DEF tables
<1>4. ASSUME NEW c \in Clients, FileStep(c)  PROVE CommandInv' /\ KeepsCommands
  BY <1>4, FileFrame, CommandsUntouched DEF FilesOnly, tables
<1>5. ASSUME NEW c \in Clients, CallFails(c)  PROVE CommandInv' /\ KeepsCommands
  <2>1. Moves(c, {"idle"}) /\ UNCHANGED <<backend, commands, handled>>
    BY <1>5, IdleType DEF CallFails, Return, tables, Moves, TypeOK
  <2>. QED  BY <2>1, CommandsUntouched
<1>6. ASSUME NEW d \in Digests, ArtExpires(d)  PROVE CommandInv' /\ KeepsCommands
  BY <1>6 DEF ArtExpires, FilesOnly, tables, CommandInv, KeepsCommands
<1>7. CASE UNCHANGED vars
  BY <1>7 DEF vars, tables, CommandInv
<1>. QED  BY <1>1, <1>2, <1>3, <1>4, <1>5, <1>6, <1>7, NextCases, CommandsStep

\* With the SQL providers no command leaves the table before a handler has
\* succeeded with it or a new time replaces its own, however many clients
\* process commands at once and whatever handlers fail; except the due ones that
\* were scheduled while somebody was processing.
THEOREM CommandsNotLost == Spec => CommandsKept
<1>1. Init => CommandInv
  BY DEF Init, CommandInv
<1>2. TypeOK /\ CommandInv /\ [Next]_vars => CommandInv'
  BY CommandsAnyStep
<1>3. Spec => []CommandInv
  BY <1>1, <1>2, StoresTypeCorrect, PTL DEF Spec
<1>4. TypeOK /\ CommandInv /\ [Next]_vars => [KeepsCommands]_vars
  BY CommandsAnyStep
<1>5. Spec => [][KeepsCommands]_vars
  BY <1>3, <1>4, StoresTypeCorrect, PTL DEF Spec
<1>. QED  BY <1>5 DEF CommandsKept, KeepsCommands

-----------------------------------------------------------------------------
(* Subscriptions.                                                          *)

Token(c) == subs[cl[c].s]

\* A claim has one holder, its token says so, and nobody can claim again what
\* was terminated under the holder's hands.  Without a fault the token of an
\* open subscription is that of a claimer.  A subscription that the memory
\* provider has yet to store is nobody else's.
ClaimInv ==
  /\ \A s \in Subs : subs[s].state = "absent" => subs[s].token = "none"
  /\ backend = "files" => \A s \in Subs : subs[s].state = "absent"
  /\ \A c \in Clients : cl[c].pc = "subscribe" => backend = "memory" /\ Token(c).state = "absent"
  /\ \A c, d \in Clients : cl[c].pc = "subscribe" /\ cl[d].pc = "subscribe" /\ cl[c].s = cl[d].s => c = d
  /\ \A c, d \in Clients : cl[c].pc = "claimed" /\ cl[d].pc = "claimed" /\ cl[c].s = cl[d].s => c = d
  /\ \A c \in Clients : cl[c].pc = "claimed" =>
       /\ Token(c).state # "absent"
       /\ Token(c).token \in {c, "__terminated__"} \/ (backend = "postgres" /\ Token(c).state = "terminated")
  /\ \A s \in Subs : subs[s].state = "open" =>
       \/ subs[s].token = "none" \/ faults > 0
       \/ \E c \in Clients : cl[c].pc = "claimed" /\ cl[c].s = s /\ subs[s].token = c

\* Stored as waiting, stored as subscribed.
WaitInv ==
  backend # "memory" => \A w \in Workflows : workflows[w].waits \in Subs => subs[workflows[w].waits].state # "absent"

\* A step that neither claims nor lets go.
LEMMA ClaimsUntouched ==
  ASSUME TypeOK, ClaimInv, NEW c \in Clients, NEW P, Moves(c, P), P \cap {"subscribe", "claimed"} = {},
         cl[c].pc # "claimed", UNCHANGED <<backend, subs>>, faults' >= faults, faults' \in Nat
  PROVE  ClaimInv'
<1>1. faults \in Nat
  BY TablesAssumption DEF TypeOK
<1>. QED  BY <1>1 DEF ClaimInv, Moves, Token

\* The same, and s is opened or terminated by it.
LEMMA ClaimsChanged ==
  ASSUME TypeOK, ClaimInv, NEW c \in Clients, NEW P, Moves(c, P), P \cap {"subscribe", "claimed"} = {},
         cl[c].pc # "claimed", UNCHANGED <<backend, faults>>, backend # "files",
         NEW s \in Subs, NEW row, subs' = [subs EXCEPT ![s] = row],
         \/ /\ subs[s].state = "absent" /\ row.state = "open" /\ row.token = "none"
            /\ \A d \in Clients \ {c} : cl[d].pc = "subscribe" => cl[d].s # s
         \/ /\ subs[s].state # "absent" /\ row.state = "terminated"
            /\ \/ row.token \in {subs[s].token, "__terminated__"}
               \/ backend = "postgres" /\ row.token = "none"
  PROVE  ClaimInv'
<1>1. subs \in [Subs -> Subscribed] /\ \A d \in Clients : cl[d].pc \in {"subscribe", "claimed"} => cl[d].s \in Subs
  BY DEF TypeOK
<1>2. subs'[s] = row /\ \A t \in Subs \ {s} : subs'[t] = subs[t]
  BY <1>1
<1>3. \A d \in Clients : cl'[d].pc \in {"subscribe", "claimed"} => d # c /\ cl'[d] = cl[d]
  BY DEF Moves
<1>4. \A t \in Subs : subs'[t].state = "absent" => subs'[t].token = "none"
  BY <1>2 DEF ClaimInv
<1>5. \A d \in Clients : cl'[d].pc = "subscribe" => backend' = "memory" /\ Token(d)'.state = "absent"
  BY <1>1, <1>2, <1>3 DEF ClaimInv, Token
<1>6. \A d \in Clients : cl'[d].pc = "claimed" =>
       /\ Token(d)'.state # "absent"
       /\ Token(d)'.token \in {d, "__terminated__"} \/ (backend' = "postgres" /\ Token(d)'.state = "terminated")
  BY <1>1, <1>2, <1>3 DEF ClaimInv, Token
<1>7. \A t \in Subs : subs'[t].state = "open" =>
       \/ subs'[t].token = "none" \/ faults' > 0
       \/ \E d \in Clients : cl'[d].pc = "claimed" /\ cl'[d].s = t /\ subs'[t].token = d
  <2>. SUFFICES ASSUME NEW t \in Subs, subs'[t].state = "open", subs'[t].token # "none", ~(faults > 0)
                PROVE  \E d \in Clients : cl'[d].pc = "claimed" /\ cl'[d].s = t /\ subs'[t].token = d
    OBVIOUS
  <2>1. t # s
    BY <1>2
  <2>2. PICK d \in Clients : cl[d].pc = "claimed" /\ cl[d].s = t /\ subs[t].token = d
    BY <1>2, <2>1 DEF ClaimInv
  <2>3. cl'[d] = cl[d]
    BY <2>2 DEF Moves
  <2>. QED  BY <1>2, <2>1, <2>2, <2>3
<1>. QED  BY <1>3, <1>4, <1>5, <1>6, <1>7 DEF ClaimInv

LEMMA ClaimsCommon ==
  ASSUME TypeOK, ClaimInv, NEW c \in Clients, NEW b \in Providers, CommonStep(c, b)
  PROVE  ClaimInv'
<1>0. /\ cl \in [Clients -> Client] /\ subs \in [Subs -> Subscribed] /\ faults \in Nat
      /\ \A d \in Clients : cl[d].pc \in {"subscribe", "claimed"} => cl[d].s \in Subs
      /\ {"none", "__terminated__"} \cap Clients = {}
  BY TablesAssumption, NamesAssumption DEF TypeOK
<1>1. UNCHANGED <<backend, faults>> /\ \A d \in Clients \ {c} : cl'[d] = cl[d]
  BY CommonFrame DEF Moves
<1>2. CASE UNCHANGED subs /\ cl[c].pc # "claimed" /\ cl'[c].pc \notin {"subscribe", "claimed"}
  <2>1. Moves(c, {cl'[c].pc})
    BY <1>1 DEF Moves
  <2>. QED  BY <1>0, <1>1, <1>2, <2>1, ClaimsUntouched
<1>3. CASE Number(c, b)
  <2>1. subs' = subs /\ cl[c].pc = "idle" /\ cl'[c].pc = "numbered"
    BY <1>0, <1>3 DEF Number, Begin, At, Idle
  <2>. QED  BY <1>2, <2>1
<1>4. ASSUME NEW unique, Create(c, b, unique)  PROVE ClaimInv'
  <2>1. subs' = subs /\ cl[c].pc \in {"idle", "numbered"} /\ cl'[c].pc = "idle"
    BY <1>0, <1>4, IdleType DEF Create, Begin, Resume, At, Return
  <2>. QED  BY <1>2, <2>1
<1>5. CASE Persist(c, b) \/ CreateEvent(c, b) \/ MarkEvent(c, b)
  <2>1. subs' = subs /\ cl[c].pc \in {"idle", "loaded"} /\ cl'[c].pc = "idle"
    BY <1>0, <1>5, IdleType DEF Persist, CreateEvent, MarkEvent, Begin, Resume, At, Return
  <2>. QED  BY <1>2, <2>1
<1>6. CASE GetPointers(c, b)
  <2>1. subs' = subs /\ cl[c].pc = "row" /\ cl'[c].pc = "loaded"
    BY <1>0, <1>6 DEF GetPointers, Resume, At, tables, Client
  <2>. QED  BY <1>2, <2>1
<1>7. CASE \E w \in Workflows : GetRow(c, b, w)
  <2>1. subs' = subs /\ cl[c].pc = "idle" /\ cl'[c].pc = "row"
    BY <1>0, <1>7 DEF GetRow, Begin, At, tables, Idle
  <2>. QED  BY <1>2, <2>1
<1>8. CASE b # "memory" /\ PersistWaiting(c, b)
  <2>1. PICK s \in Subs : subs[s].state = "absent" /\ subs' = [subs EXCEPT ![s].state = "open"]
    BY <1>8 DEF PersistWaiting
  <2>. DEFINE row == [subs[s] EXCEPT !.state = "open"]
  <2>2. subs' = [subs EXCEPT ![s] = row] /\ row.state = "open" /\ row.token = subs[s].token
    BY <1>0, <2>1 DEF Subscribed
  <2>3. cl[c].pc = "loaded" /\ cl'[c].pc = "idle" /\ backend = b
    BY <1>0, <1>8, IdleType DEF PersistWaiting, Resume, At, Return
  <2>4. row.token = "none" /\ \A d \in Clients : cl[d].pc # "subscribe"
    BY <1>8, <2>1, <2>2, <2>3 DEF ClaimInv
  <2>5. Moves(c, {"idle"})
    BY <1>1, <2>3 DEF Moves
  <2>6. backend # "files"
    BY <2>3 DEF Providers
  <2>. HIDE DEF row
  <2>7. {"idle"} \cap {"subscribe", "claimed"} = {}
    OBVIOUS
  <2>8. UNCHANGED <<backend, faults>> /\ cl[c].pc # "claimed"
    BY <1>1, <2>3
  <2>9. /\ subs[s].state = "absent" /\ row.state = "open" /\ row.token = "none"
        /\ \A d \in Clients \ {c} : cl[d].pc = "subscribe" => cl[d].s # s
    BY <2>1, <2>2, <2>4
  <2>. QED  BY <2>2, <2>5, <2>6, <2>7, <2>8, <2>9, ClaimsChanged
<1>9. ASSUME NEW s \in Subs, subs[s].state # "absent", subs[s].token = "none", b = "postgres" => subs[s].state = "open",
             SetToken(c, b, s, TRUE)
      PROVE  ClaimInv'
  <2>1. /\ cl[c].pc = "idle" /\ cl'[c].pc = "claimed" /\ cl'[c].s = s /\ backend = b
        /\ subs'[s].state = subs[s].state /\ subs'[s].token = c /\ \A t \in Subs \ {s} : subs'[t] = subs[t]
    BY <1>0, <1>9 DEF SetToken, Subscription, Begin, At, Idle, Subscribed
  <2>2. \A d \in Clients : cl[d].pc = "claimed" => cl[d].s # s
    BY <1>0, <1>9, <2>1 DEF ClaimInv, Token
  <2>3. \A d \in Clients : cl'[d].pc = "claimed" =>
       /\ Token(d)'.state # "absent"
       /\ Token(d)'.token \in {d, "__terminated__"} \/ (backend' = "postgres" /\ Token(d)'.state = "terminated")
    BY <1>0, <1>1, <1>9, <2>1, <2>2 DEF ClaimInv, Token
  <2>4. \A t \in Subs : subs'[t].state = "open" =>
       \/ subs'[t].token = "none" \/ faults' > 0
       \/ \E d \in Clients : cl'[d].pc = "claimed" /\ cl'[d].s = t /\ subs'[t].token = d
    BY <1>1, <2>1 DEF ClaimInv
  <2>5. \A t \in Subs : subs'[t].state = subs[t].state
    BY <2>1
  <2>6. \A d \in Clients : cl'[d].pc = "subscribe" => backend' = "memory" /\ Token(d)'.state = "absent"
    BY <1>0, <1>1, <2>1, <2>5 DEF ClaimInv, Token
  <2>. QED  BY <1>0, <1>1, <1>9, <2>1, <2>2, <2>3, <2>4, <2>5, <2>6 DEF ClaimInv
<1>10. CASE ClearToken(c, b)
  <2>. DEFINE s == cl[c].s
  <2>1. /\ cl[c].pc = "claimed" /\ cl'[c].pc = "idle" /\ s \in Subs
        /\ subs'[s].state = subs[s].state /\ subs'[s].token = (IF subs[s].token = c THEN "none" ELSE subs[s].token)
        /\ \A t \in Subs \ {s} : subs'[t] = subs[t]
    BY <1>0, <1>10, IdleType DEF ClearToken, Subscription, Resume, At, Return, Subscribed
  <2>2. \A d \in Clients : cl'[d].pc \in {"claimed", "subscribe"} => cl'[d] = cl[d] /\ d # c
    BY <1>1, <2>1
  <2>3. \A d \in Clients : cl'[d].pc = "claimed" => cl[d].s # s
    BY <2>1, <2>2 DEF ClaimInv
  <2>4. \A d \in Clients : cl'[d].pc = "claimed" =>
       /\ Token(d)'.state # "absent"
       /\ Token(d)'.token \in {d, "__terminated__"} \/ (backend' = "postgres" /\ Token(d)'.state = "terminated")
    BY <1>0, <1>1, <2>1, <2>2, <2>3 DEF ClaimInv, Token
  <2>5. \A t \in Subs : subs'[t].state = "open" =>
       \/ subs'[t].token = "none" \/ faults' > 0
       \/ \E d \in Clients : cl'[d].pc = "claimed" /\ cl'[d].s = t /\ subs'[t].token = d
    <3>. SUFFICES ASSUME NEW t \in Subs, subs'[t].state = "open", subs'[t].token # "none", ~(faults > 0)
                  PROVE  \E d \in Clients : cl'[d].pc = "claimed" /\ cl'[d].s = t /\ subs'[t].token = d
      BY <1>1
    <3>1. subs[t].state = "open" /\ subs[t].token # "none"
      BY <2>1
    <3>2. PICK d \in Clients : cl[d].pc = "claimed" /\ cl[d].s = t /\ subs[t].token = d
      BY <3>1 DEF ClaimInv
    <3>3. t # s
      BY <2>1, <3>2 DEF ClaimInv
    <3>4. d # c
      BY <3>2, <3>3
    <3>. QED  BY <1>1, <2>1, <3>2, <3>3, <3>4
  <2>6. \A t \in Subs : subs'[t].state = subs[t].state /\ (subs[t].token = "none" => subs'[t].token = "none")
    BY <2>1
  <2>7. \A d \in Clients : cl'[d].pc = "subscribe" => backend' = "memory" /\ Token(d)'.state = "absent"
    BY <1>0, <1>1, <2>2, <2>6 DEF ClaimInv, Token
  <2>. QED  BY <1>0, <1>1, <2>2, <2>4, <2>5, <2>6, <2>7 DEF ClaimInv
<1>11. CASE \E s \in Subs, open \in BOOLEAN :
       (open => subs[s].state # "absent" /\ subs[s].token = "none" /\ (b = "postgres" => subs[s].state = "open"))
       /\ SetToken(c, b, s, open)
  <2>1. PICK s \in Subs, open \in BOOLEAN :
       (open => subs[s].state # "absent" /\ subs[s].token = "none" /\ (b = "postgres" => subs[s].state = "open"))
       /\ SetToken(c, b, s, open)
    BY <1>11
  <2>2. open = TRUE
    BY <2>1 DEF SetToken
  <2>. QED  BY <1>9, <2>1, <2>2
<1>. QED  BY <1>3, <1>4, <1>5, <1>6, <1>7, <1>8, <1>10, <1>11 DEF CommonStep

LEMMA ClaimsOwn ==
  ASSUME TypeOK, ClaimInv, NEW c \in Clients, OwnStep(c)
  PROVE  ClaimInv'
<1>0. /\ cl \in [Clients -> Client] /\ subs \in [Subs -> Subscribed] /\ faults \in Nat
      /\ \A d \in Clients : cl[d].pc \in {"subscribe", "claimed"} => cl[d].s \in Subs
  BY TablesAssumption DEF TypeOK
<1>1. UNCHANGED <<backend, faults>> /\ backend # "files" /\ \A d \in Clients \ {c} : cl'[d] = cl[d]
  BY OwnFrame DEF Moves
<1>2. CASE MemPersistWaiting(c)
  <2>1. PICK s \in Subs : /\ subs[s].state = "absent" /\ \A d \in Clients : cl[d].s # s
                          /\ cl' = [cl EXCEPT ![c] = [Idle EXCEPT !.pc = "subscribe", !.s = s]]
    BY <1>2 DEF MemPersistWaiting
  <2>2. /\ cl[c].pc = "loaded" /\ cl'[c].pc = "subscribe" /\ cl'[c].s = s
        /\ backend = "memory" /\ UNCHANGED <<backend, subs, faults>>
    BY <1>0, <1>2, <2>1 DEF MemPersistWaiting, Resume, At, Idle, Aside
  <2>. QED  BY <1>1, <2>1, <2>2 DEF ClaimInv, Token
<1>3. CASE \E w \in Workflows : MemGet(c, w)
  <2>1. UNCHANGED <<backend, subs, faults>> /\ cl[c].pc = "idle" /\ Moves(c, {"loaded"})
    BY <1>0, <1>1, <1>3 DEF MemGet, Begin, At, Idle, Aside, tables, Moves
  <2>. QED  BY <1>0, <2>1, ClaimsUntouched
<1>4. CASE MemSubscribe(c)
  <2>1. /\ cl[c].pc = "subscribe" /\ Moves(c, {"idle"}) /\ cl[c].s \in Subs
    BY <1>0, <1>1, <1>4, IdleType DEF MemSubscribe, Resume, At, Return, Subscription, Moves
  <2>2. subs[cl[c].s].state = "absent" /\ \A d \in Clients \ {c} : cl[d].pc = "subscribe" => cl[d].s # cl[c].s
    BY <2>1 DEF ClaimInv, Token
  <2>. DEFINE row == [state |-> "open", token |-> "none"]
  <2>3. subs' = [subs EXCEPT ![cl[c].s] = row] /\ row.state = "open" /\ row.token = "none"
    BY <1>4 DEF MemSubscribe, Subscription
  <2>4. cl[c].pc # "claimed" /\ {"idle"} \cap {"subscribe", "claimed"} = {}
    BY <2>1
  <2>. HIDE DEF row
  <2>. QED  BY <1>1, <2>1, <2>2, <2>3, <2>4, ClaimsChanged
<1>5. ASSUME NEW s \in Subs, MemTerminate(c, s) \/ PgTerminate(c, s) \/ LiteTerminate(c, s)  PROVE ClaimInv'
  <2>1. cl[c].pc = "idle" /\ Moves(c, {"idle"}) /\ subs[s].state # "absent"
    BY <1>0, <1>1, <1>5, IdleType DEF MemTerminate, PgTerminate, LiteTerminate, Begin, At, Return, Moves
  <2>2. PICK row : /\ subs' = [subs EXCEPT ![s] = row] /\ row.state = "terminated"
                   /\ \/ row.token \in {subs[s].token, "__terminated__"}
                      \/ backend = "postgres" /\ row.token = "none"
    <3>1. CASE MemTerminate(c, s)
      <4>. WITNESS [state |-> "terminated", token |-> "__terminated__"]
      <4>. QED  BY <3>1 DEF MemTerminate, Subscription
    <3>2. CASE PgTerminate(c, s)
      <4>. WITNESS [state |-> "terminated", token |-> "none"]
      <4>. QED  BY <3>2 DEF PgTerminate, Subscription, Begin, At
    <3>3. CASE LiteTerminate(c, s)
      <4>. WITNESS [subs[s] EXCEPT !.state = "terminated"]
      <4>. QED  BY <1>0, <3>3 DEF LiteTerminate, Subscription, Subscribed
    <3>. QED  BY <1>5, <3>1, <3>2, <3>3
  <2>. QED  BY <1>1, <2>1, <2>2, ClaimsChanged
<1>6. ASSUME NEW s \in Subs, PgSubscribe(c, s) \/ LiteSubscribe(c, s)  PROVE ClaimInv'
  <2>1. /\ cl[c].pc = "idle" /\ Moves(c, {"idle"}) /\ subs[s].state = "absent" /\ backend # "memory"
    BY <1>0, <1>1, <1>6, IdleType DEF PgSubscribe, LiteSubscribe, Subscription, Begin, At, Return, Moves
  <2>2. \A d \in Clients : cl[d].pc # "subscribe"
    BY <2>1 DEF ClaimInv
  <2>. DEFINE row == [state |-> "open", token |-> "none"]
  <2>3. subs' = [subs EXCEPT ![s] = row] /\ row.state = "open" /\ row.token = "none"
    BY <1>6 DEF PgSubscribe, LiteSubscribe, Subscription
  <2>4. cl[c].pc # "claimed" /\ {"idle"} \cap {"subscribe", "claimed"} = {}
    BY <2>1
  <2>. HIDE DEF row
  <2>. QED  BY <1>1, <2>1, <2>2, <2>3, <2>4, ClaimsChanged
<1>. QED  BY <1>2, <1>3, <1>4, <1>5, <1>6 DEF OwnStep

LEMMA ClaimsAnyStep ==
  ASSUME TypeOK, ClaimInv, [Next]_vars
  PROVE  ClaimInv'
<1>0. faults \in Nat /\ cl \in [Clients -> Client]
  BY TablesAssumption DEF TypeOK
<1>1. ASSUME NEW c \in Clients, CommandStep(c)  PROVE ClaimInv'
  BY <1>0, <1>1, CommandFrame, ClaimsUntouched
<1>2. ASSUME NEW c \in Clients, BootStep(c)  PROVE ClaimInv'
  <2>1. (Booting \cup {"idle", "down"}) \cap {"subscribe", "claimed"} = {} /\ cl[c].pc # "claimed"
    BY <1>2, BootFrame DEF Booting, Unpathed
  <2>2. faults' >= faults /\ faults' \in Nat
    BY <1>0, <1>2 DEF BootStep, PgFindSchema, PgCreateSchema, PgSetPath, PgLockMigrations, PgMigrate, PgRestorePath, PgBootFails
  <2>. QED  BY <1>2, <2>1, <2>2, BootFrame, ClaimsUntouched DEF tables
<1>3. ASSUME NEW c \in Clients, FileStep(c)  PROVE ClaimInv'
  BY <1>0, <1>3, FileFrame, ClaimsUntouched DEF FilesOnly, tables
<1>4. ASSUME NEW c \in Clients, CallFails(c)  PROVE ClaimInv'
  <2>1. faults' > 0 /\ subs' = subs /\ backend' = backend /\ cl'[c].pc = "idle" /\ \A d \in Clients \ {c} : cl'[d] = cl[d]
    BY <1>0, <1>4, IdleType DEF CallFails, Return, tables
  <2>. QED  BY <2>1 DEF ClaimInv, Token
<1>5. ASSUME NEW d \in Digests, ArtExpires(d)  PROVE ClaimInv'
  BY <1>5 DEF ArtExpires, FilesOnly, tables, ClaimInv, Token
<1>6. CASE UNCHANGED vars
  BY <1>6 DEF vars, tables, ClaimInv, Token
<1>. QED  BY <1>1, <1>2, <1>3, <1>4, <1>5, <1>6, NextCases, ClaimsCommon, ClaimsOwn

\* A stored subscription stays, and what a step stores as waiting was waiting
\* already or is subscribed.
LEMMA WaitsFrame ==
  ASSUME WaitInv, backend' = backend,
         \A s \in Subs : subs[s].state # "absent" => subs'[s].state # "absent",
         \A w \in Workflows : workflows'[w].waits \in Subs =>
           workflows'[w].waits = workflows[w].waits \/ subs'[workflows'[w].waits].state # "absent" \/ backend = "memory"
  PROVE  WaitInv'
BY DEF WaitInv

LEMMA WaitsCommon ==
  ASSUME TypeOK, WaitInv, NEW c \in Clients, NEW b \in Providers, CommonStep(c, b)
  PROVE  WaitInv'
<1>0. /\ workflows \in [Workflows -> Row] /\ subs \in [Subs -> Subscribed] /\ "none" \notin Subs
      /\ cl[c].pc \in {"row", "loaded"} => cl[c].w \in Workflows
      /\ cl[c].pc \in {"subscribe", "claimed"} => cl[c].s \in Subs
  BY NamesAssumption DEF TypeOK
<1>1. backend' = backend
  BY CommonFrame
<1>2. CASE Number(c, b) \/ GetPointers(c, b) \/ CreateEvent(c, b) \/ MarkEvent(c, b)
  BY <1>1, <1>2, WaitsFrame DEF Number, GetPointers, CreateEvent, MarkEvent, tables
<1>3. CASE \E w \in Workflows : GetRow(c, b, w)
  BY <1>1, <1>3, WaitsFrame DEF GetRow, tables
<1>4. CASE \E s \in Subs, open \in BOOLEAN : SetToken(c, b, s, open)
  <2>1. workflows' = workflows /\ \A s \in Subs : subs'[s].state = subs[s].state
    BY <1>0, <1>4 DEF SetToken, Subscription, Subscribed
  <2>. QED  BY <1>1, <2>1, WaitsFrame
<1>5. CASE ClearToken(c, b)
  <2>1. workflows' = workflows /\ \A s \in Subs : subs'[s].state = subs[s].state
    BY <1>0, <1>5 DEF ClearToken, Subscription, Subscribed, Resume, At
  <2>. QED  BY <1>1, <2>1, WaitsFrame
<1>6. ASSUME NEW unique, Create(c, b, unique)  PROVE WaitInv'
  <2>1. subs' = subs /\ \A w \in Workflows : workflows'[w] = workflows[w] \/ workflows'[w].waits = "none"
    BY <1>0, <1>6 DEF Create, Stored
  <2>. QED  BY <1>0, <1>1, <2>1, WaitsFrame
<1>7. CASE Persist(c, b)
  <2>1. subs' = subs /\ \A w \in Workflows : workflows'[w].waits = workflows[w].waits
    BY <1>0, <1>7 DEF Persist, Stored, Resume, At
  <2>. QED  BY <1>1, <2>1, WaitsFrame
<1>8. CASE PersistWaiting(c, b)
  <2>1. PICK s \in Subs : Stored(cl[c].w, cl[c].n, s) /\ subs' = [subs EXCEPT ![s].state = "open"]
    BY <1>8 DEF PersistWaiting
  <2>2. \A t \in Subs : subs'[t].state = (IF t = s THEN "open" ELSE subs[t].state)
    BY <1>0, <2>1 DEF Subscribed
  <2>3. \A w \in Workflows : workflows'[w].waits \in {workflows[w].waits, s}
    BY <1>0, <2>1 DEF Stored
  <2>. QED  BY <1>1, <2>2, <2>3, WaitsFrame
<1>. QED  BY <1>2, <1>3, <1>4, <1>5, <1>6, <1>7, <1>8 DEF CommonStep

LEMMA WaitsOwn ==
  ASSUME TypeOK, WaitInv, NEW c \in Clients, OwnStep(c)
  PROVE  WaitInv'
<1>0. subs \in [Subs -> Subscribed] /\ (cl[c].pc \in {"subscribe", "claimed"} => cl[c].s \in Subs)
  BY DEF TypeOK
<1>1. backend' = backend
  BY OwnFrame
<1>2. CASE MemPersistWaiting(c)
  BY <1>1, <1>2 DEF MemPersistWaiting, Resume, At, WaitInv
<1>3. CASE MemSubscribe(c)
  BY <1>1, <1>3 DEF MemSubscribe, Resume, At, WaitInv
<1>4. CASE \E w \in Workflows : MemGet(c, w)
  BY <1>1, <1>4 DEF MemGet, Begin, At, WaitInv
<1>5. ASSUME NEW s \in Subs, MemTerminate(c, s) \/ PgTerminate(c, s) \/ LiteTerminate(c, s)
                             \/ PgSubscribe(c, s) \/ LiteSubscribe(c, s)
      PROVE  WaitInv'
  <2>1. workflows' = workflows /\ \A t \in Subs \ {s} : subs'[t] = subs[t]
    BY <1>0, <1>5 DEF MemTerminate, PgTerminate, LiteTerminate, PgSubscribe, LiteSubscribe, Subscription
  <2>2. subs'[s].state # "absent"
    BY <1>0, <1>5 DEF MemTerminate, PgTerminate, LiteTerminate, PgSubscribe, LiteSubscribe, Subscription, Subscribed
  <2>. QED  BY <1>1, <2>1, <2>2, WaitsFrame
<1>. QED  BY <1>2, <1>3, <1>4, <1>5 DEF OwnStep

LEMMA WaitsAnyStep ==
  ASSUME TypeOK, WaitInv, [Next]_vars
  PROVE  WaitInv'
<1>1. ASSUME UNCHANGED <<backend, workflows, subs>>  PROVE WaitInv'
  BY <1>1 DEF WaitInv
<1>2. ASSUME NEW c \in Clients, CommandStep(c) \/ BootStep(c) \/ FileStep(c) \/ CallFails(c)  PROVE WaitInv'
  BY <1>1, <1>2, CommandFrame, BootFrame, FileFrame DEF CallFails, FilesOnly, tables
<1>3. ASSUME NEW d \in Digests, ArtExpires(d)  PROVE WaitInv'
  BY <1>1, <1>3 DEF ArtExpires, FilesOnly, tables
<1>4. CASE UNCHANGED vars
  BY <1>1, <1>4 DEF vars, tables
<1>. QED  BY <1>2, <1>3, <1>4, NextCases, WaitsCommon, WaitsOwn

\* With the SQL providers an instance that is stored as waiting has its
\* subscription stored; and with every provider an event finds the subscription
\* until it is terminated, while nobody holds its claim and nobody died with it.
THEOREM SubscriptionsFound == Spec => []WaitersFound
<1>. DEFINE Inv == TypeOK /\ ClaimInv /\ WaitInv
<1>1. Init => ClaimInv /\ WaitInv
  BY NamesAssumption DEF Init, ClaimInv, WaitInv, Token, NoRow, Idle
<1>2. ClaimInv /\ TypeOK /\ [Next]_vars => ClaimInv'
  BY ClaimsAnyStep
<1>3. WaitInv /\ TypeOK /\ [Next]_vars => WaitInv'
  BY WaitsAnyStep
<1>4. Inv => WaitersFound
  <2>. SUFFICES ASSUME Inv, NEW w \in Workflows, NEW s \in {workflows[w].waits} \cap Subs
                PROVE  /\ backend # "memory" => subs[s].state # "absent"
                       /\ subs[s].state = "open" => s \in Found \/ Claimed(s) \/ faults > 0
    BY DEF WaitersFound
  <2>1. backend # "memory" => subs[s].state # "absent"
    BY DEF WaitInv
  <2>2. ASSUME subs[s].state = "open", subs[s].token = "none"  PROVE s \in Found
    <3>1. backend \in {"memory", "postgres", "sqlite"}
      BY <2>2, BackendsAssumption DEF TypeOK, ClaimInv
    <3>. QED  BY <2>2, <3>1 DEF Found, MemGetSubscriptions, PgGetSubscriptions, LiteGetSubscriptions
  <2>3. subs[s].state = "open" => subs[s].token = "none" \/ Claimed(s) \/ faults > 0
    BY DEF ClaimInv, Claimed
  <2>. QED  BY <2>1, <2>2, <2>3
<1>5. Spec => []Inv
  BY <1>1, <1>2, <1>3, StoresTypeCorrect, PTL DEF Spec
<1>. QED  BY <1>4, <1>5, PTL

-----------------------------------------------------------------------------
(* The contract of a store.                                                *)

\* Under the instance lock a client that has loaded an instance, or half of it,
\* is the only one, and the stored row is still the one it read.
LoadInv ==
  /\ \A c \in Clients : cl[c].w # "none" => cl[c].pc \in {"row", "loaded"}
  /\ \A c, d \in Clients : cl[c].w = cl[d].w /\ cl[c].w # "none" => c = d
  /\ \A c \in Clients : cl[c].pc \in {"row", "loaded"} => cl[c].v = workflows[cl[c].w].v /\ cl[c].v # 0
  /\ \A w \in Workflows : workflows[w].v = 0 => workflows[w] = NoRow

\* A step on the side.
LEMMA LoadsUntouched ==
  ASSUME LoadInv, NEW c \in Clients, NEW P, Moves(c, P), P \cap {"row", "loaded"} = {},
         cl'[c].w \in {"none", cl[c].w}, cl'[c].w = "none" \/ cl[c].pc \notin {"row", "loaded"}, workflows' = workflows
  PROVE  LoadInv'
BY DEF LoadInv, Moves

\* Client c replaces w, which is its own or nobody's.
LEMMA LoadsReplaced ==
  ASSUME TypeOK, LoadInv, NEW c \in Clients, NEW P, Moves(c, P), P \cap {"row", "loaded"} = {}, cl'[c].w = "none",
         NEW w \in Workflows, workflows'[w].v # 0, \A x \in Workflows \ {w} : workflows'[x] = workflows[x],
         workflows[w] = NoRow \/ cl[c].w = w
  PROVE  LoadInv'
<1>0. "none" \notin Workflows /\ NoRow.v = 0 /\ \A d \in Clients : cl[d].pc \in {"row", "loaded"} => cl[d].w \in Workflows
  BY NamesAssumption DEF NoRow, TypeOK
<1>1. \A d \in Clients \ {c} : cl[d].pc \in {"row", "loaded"} => cl[d].w # w
  BY <1>0 DEF LoadInv
<1>2. \A d \in Clients : cl'[d].pc \in {"row", "loaded"} => d # c /\ cl'[d] = cl[d]
  BY DEF Moves
<1>3. \A d \in Clients : cl'[d].w # "none" => d # c /\ cl'[d] = cl[d]
  BY DEF Moves
<1>. QED  BY <1>0, <1>1, <1>2, <1>3 DEF LoadInv

\* What a call that stores an instance does.
StoresInstance(c, w) ==
  /\ Moves(c, {"idle", "subscribe"}) /\ cl'[c].w = "none" /\ cl[c].pc \in {"idle", "numbered", "loaded"}
  /\ workflows[w] = NoRow \/ (cl[c].pc = "loaded" /\ cl[c].w = w)
  /\ workflows'[w].v = writes + 1 /\ pointers'[w] = writes + 1 /\ writes' = writes + 1
  /\ \A x \in Workflows \ {w} : workflows'[x] = workflows[x] /\ pointers'[x] = pointers[x]
  /\ sequences' = sequences
  /\ calls' = IF cl[c].pc = "idle" THEN calls + 1 ELSE calls

LEMMA CreateStores ==
  ASSUME TypeOK, NEW c \in Clients, NEW b \in Providers, NEW unique, Create(c, b, unique)
  PROVE  \/ \E w \in Workflows : StoresInstance(c, w)
         \/ /\ UNCHANGED <<workflows, pointers, writes, sequences>> /\ Moves(c, {"idle"}) /\ cl'[c].w = "none"
            /\ cl[c].pc \in {"idle", "numbered"} /\ calls' \in {calls, calls + 1}
<1>0. cl \in [Clients -> Client] /\ workflows \in [Workflows -> Row] /\ pointers \in [Workflows -> Nat] /\ calls \in Nat
  BY TablesAssumption DEF TypeOK
<1>1. Moves(c, {"idle"}) /\ cl'[c].w = "none" /\ sequences' = sequences
  BY <1>0, IdleType DEF Create, Return, Moves
<1>2. PICK name \in {0, cl[c].n} :
         /\ IF name = 0 THEN Begin(c, b) ELSE Resume(c, b, "numbered")
         /\ IF unique /\ name \in Names
            THEN UNCHANGED <<workflows, pointers, writes>>
            ELSE \E w \in Workflows : workflows[w] = NoRow /\ Stored(w, name, "none")
  BY DEF Create
<1>3. cl[c].pc \in {"idle", "numbered"} /\ calls' = IF cl[c].pc = "idle" THEN calls + 1 ELSE calls
  BY <1>2 DEF Begin, Resume, At
<1>4. CASE UNCHANGED <<workflows, pointers, writes>>
  BY <1>0, <1>1, <1>3, <1>4
<1>5. ASSUME NEW w \in Workflows, workflows[w] = NoRow, Stored(w, name, "none")  PROVE StoresInstance(c, w)
  <2>1. workflows'[w].v = writes + 1 /\ pointers'[w] = writes + 1 /\ writes' = writes + 1
    BY <1>0, <1>5 DEF Stored
  <2>2. \A x \in Workflows \ {w} : workflows'[x] = workflows[x] /\ pointers'[x] = pointers[x]
    BY <1>0, <1>5 DEF Stored
  <2>. QED  BY <1>1, <1>3, <1>5, <2>1, <2>2 DEF StoresInstance, Moves
<1>. QED  BY <1>2, <1>4, <1>5

LEMMA PersistStores ==
  ASSUME TypeOK, NEW c \in Clients, \/ \E b \in Providers : Persist(c, b) \/ PersistWaiting(c, b)
                                    \/ MemPersistWaiting(c)
  PROVE  cl[c].w \in Workflows /\ StoresInstance(c, cl[c].w)
<1>0. /\ cl \in [Clients -> Client] /\ workflows \in [Workflows -> Row] /\ pointers \in [Workflows -> Nat]
      /\ cl[c].pc \in {"row", "loaded"} => cl[c].w \in Workflows
  BY DEF TypeOK
<1>1. cl[c].pc = "loaded" /\ calls' = calls /\ sequences' = sequences
  BY DEF Persist, PersistWaiting, MemPersistWaiting, Resume, At
<1>2. Moves(c, {"idle", "subscribe"}) /\ cl'[c].w = "none"
  BY <1>0, IdleType DEF Persist, PersistWaiting, MemPersistWaiting, Return, Moves, Idle
<1>3. PICK waits : Stored(cl[c].w, cl[c].n, waits)
  BY DEF Persist, PersistWaiting, MemPersistWaiting
<1>4. workflows'[cl[c].w].v = writes + 1 /\ pointers'[cl[c].w] = writes + 1 /\ writes' = writes + 1
  BY <1>0, <1>1, <1>3 DEF Stored
<1>5. \A x \in Workflows \ {cl[c].w} : workflows'[x] = workflows[x] /\ pointers'[x] = pointers[x]
  BY <1>0, <1>1, <1>3 DEF Stored
<1>. QED  BY <1>0, <1>1, <1>2, <1>4, <1>5 DEF StoresInstance

\* What a call that reads a row does.
ReadsRow(c, w, P) ==
  /\ Moves(c, P) /\ P \subseteq {"row", "loaded"} /\ cl[c].pc = "idle" /\ calls' = calls + 1
  /\ cl'[c].w = w /\ cl'[c].v = workflows[w].v /\ workflows[w] # NoRow /\ Free(c, w)
  /\ UNCHANGED <<workflows, pointers, writes, sequences>>

LEMMA RowRead ==
  ASSUME TypeOK, NEW c \in Clients, NEW w \in Workflows
  PROVE  /\ \A b \in Providers : GetRow(c, b, w) => ReadsRow(c, w, {"row"})
         /\ MemGet(c, w) => ReadsRow(c, w, {"loaded"}) /\ cl'[c].tree = pointers[w]
<1>0. cl \in [Clients -> Client]
  BY DEF TypeOK
<1>1. ASSUME NEW b \in Providers, GetRow(c, b, w)  PROVE ReadsRow(c, w, {"row"})
  BY <1>0, <1>1 DEF GetRow, Begin, At, ReadsRow, Moves, Idle, tables
<1>2. ASSUME MemGet(c, w)  PROVE ReadsRow(c, w, {"loaded"}) /\ cl'[c].tree = pointers[w]
  BY <1>0, <1>2 DEF MemGet, Begin, At, ReadsRow, Moves, Idle, tables
<1>. QED  BY <1>1, <1>2

LEMMA LoadsStored ==
  ASSUME TypeOK, LoadInv, NEW c \in Clients, NEW w \in Workflows, StoresInstance(c, w)
  PROVE  LoadInv'
<1>1. writes + 1 # 0
  BY DEF TypeOK
<1>2. {"idle", "subscribe"} \cap {"row", "loaded"} = {}
  OBVIOUS
<1>. QED  BY <1>1, <1>2, LoadsReplaced DEF StoresInstance

LEMMA LoadsRead ==
  ASSUME TypeOK, LoadInv, Locked = TRUE, NEW c \in Clients, NEW w \in Workflows, NEW P, ReadsRow(c, w, P)
  PROVE  LoadInv'
<1>0. "none" \notin Workflows
  BY NamesAssumption
<1>1. workflows[w].v # 0 /\ \A d \in Clients \ {c} : cl[d].w # w
  BY DEF LoadInv, ReadsRow, Free
<1>2. cl'[c].pc \in {"row", "loaded"}
  BY DEF ReadsRow, Moves
<1>. QED  BY <1>0, <1>1, <1>2 DEF LoadInv, ReadsRow, Moves

\* What the other calls do to what the contract speaks about.
ReadsTree(c) ==
  /\ cl[c].pc = "row" /\ Moves(c, {"loaded"}) /\ cl'[c].w = cl[c].w /\ cl'[c].v = cl[c].v /\ cl'[c].tree = pointers[cl[c].w]
  /\ UNCHANGED <<workflows, pointers, writes, sequences, calls>>
Draws(c) ==
  /\ cl[c].pc = "idle" /\ Moves(c, {"numbered"}) /\ cl'[c].w = "none" /\ cl'[c].n = sequences + 1
  /\ sequences' = sequences + 1 /\ calls' = calls + 1 /\ UNCHANGED <<workflows, pointers, writes>>
Claims(c, s) ==
  /\ cl[c].pc = "idle" /\ Moves(c, {"claimed"}) /\ cl'[c].w = "none" /\ cl'[c].s = s
  /\ subs[s].state # "absent" /\ subs[s].token = "none" /\ (backend = "postgres" => subs[s].state = "open")
  /\ calls' = calls + 1 /\ UNCHANGED <<workflows, pointers, writes, sequences>>
LetsGo(c) ==
  /\ cl[c].pc = "claimed" /\ Moves(c, {"idle"}) /\ cl'[c].w = "none"
  /\ calls' = calls /\ UNCHANGED <<workflows, pointers, writes, sequences>>
GoesOn(c) ==
  /\ cl[c].pc # "claimed" /\ cl'[c].pc \notin {"numbered", "row", "loaded", "claimed"}
  /\ \A d \in Clients \ {c} : cl'[d] = cl[d]
  /\ cl'[c].w = "none" \/ (cl'[c].w = cl[c].w /\ cl[c].pc \notin {"row", "loaded"})
  /\ calls' \in {calls, calls + 1} /\ UNCHANGED <<workflows, pointers, writes, sequences>>
Effect(c) ==
  \/ \E w \in Workflows : StoresInstance(c, w) \/ ReadsRow(c, w, {"row"})
                          \/ (ReadsRow(c, w, {"loaded"}) /\ cl'[c].tree = pointers[w])
  \/ ReadsTree(c) \/ Draws(c) \/ (\E s \in Subs : Claims(c, s)) \/ LetsGo(c) \/ GoesOn(c)

LEMMA CommonEffect ==
  ASSUME TypeOK, NEW c \in Clients, NEW b \in Providers, CommonStep(c, b)
  PROVE  Effect(c)
<1>0. cl \in [Clients -> Client] /\ calls \in Nat
  BY TablesAssumption DEF TypeOK
<1>1. CASE Number(c, b)
  <2>1. Draws(c)
    BY <1>0, <1>1 DEF Number, Begin, At, Draws, Moves, Idle
  <2>. QED  BY <2>1 DEF Effect
<1>2. ASSUME NEW unique, Create(c, b, unique)  PROVE Effect(c)
  BY <1>2, CreateStores DEF Effect, GoesOn, Moves
<1>3. CASE Persist(c, b) \/ PersistWaiting(c, b)
  BY <1>3, PersistStores DEF Effect
<1>4. CASE GetPointers(c, b)
  <2>1. ReadsTree(c)
    BY <1>0, <1>4 DEF GetPointers, Resume, At, ReadsTree, Moves, Client, tables
  <2>. QED  BY <2>1 DEF Effect
<1>5. CASE \E w \in Workflows : GetRow(c, b, w)
  BY <1>5, RowRead DEF Effect
<1>6. CASE \E s \in Subs, open \in BOOLEAN :
       (open => subs[s].state # "absent" /\ subs[s].token = "none" /\ (b = "postgres" => subs[s].state = "open"))
       /\ SetToken(c, b, s, open)
  <2>1. PICK s \in Subs, open \in BOOLEAN :
       (open => subs[s].state # "absent" /\ subs[s].token = "none" /\ (b = "postgres" => subs[s].state = "open"))
       /\ SetToken(c, b, s, open)
    BY <1>6
  <2>2. subs[s].state # "absent" /\ subs[s].token = "none" /\ (b = "postgres" => subs[s].state = "open")
    BY <2>1 DEF SetToken
  <2>3. SetToken(c, b, s, open)
    BY <2>1
  <2>4. Claims(c, s)
    BY <1>0, <2>2, <2>3 DEF SetToken, Begin, At, Subscription, Claims, Moves, Idle
  <2>. QED  BY <2>4 DEF Effect
<1>7. CASE ClearToken(c, b)
  <2>1. LetsGo(c)
    BY <1>0, <1>7, IdleType DEF ClearToken, Resume, At, Subscription, Return, LetsGo, Moves
  <2>. QED  BY <2>1 DEF Effect
<1>8. CASE CreateEvent(c, b) \/ MarkEvent(c, b)
  <2>1. GoesOn(c)
    BY <1>0, <1>8, IdleType DEF CreateEvent, MarkEvent, Begin, At, Return, GoesOn
  <2>. QED  BY <2>1 DEF Effect
<1>. QED  BY <1>1, <1>2, <1>3, <1>4, <1>5, <1>6, <1>7, <1>8 DEF CommonStep

LEMMA OwnEffect ==
  ASSUME TypeOK, NEW c \in Clients, OwnStep(c)
  PROVE  Effect(c)
<1>0. cl \in [Clients -> Client] /\ calls \in Nat
  BY TablesAssumption DEF TypeOK
<1>1. CASE MemPersistWaiting(c)
  BY <1>1, PersistStores DEF Effect
<1>2. CASE \E w \in Workflows : MemGet(c, w)
  BY <1>2, RowRead DEF Effect
<1>3. CASE MemSubscribe(c)
  BY <1>0, <1>3, IdleType DEF MemSubscribe, Resume, At, Subscription, Return, Effect, GoesOn
<1>4. ASSUME NEW s \in Subs, MemTerminate(c, s) \/ PgTerminate(c, s) \/ LiteTerminate(c, s)
                             \/ PgSubscribe(c, s) \/ LiteSubscribe(c, s)
      PROVE  Effect(c)
  <2>1. GoesOn(c)
    BY <1>0, <1>4, IdleType DEF MemTerminate, PgTerminate, LiteTerminate, PgSubscribe, LiteSubscribe, Begin, At,
       Subscription, Return, GoesOn
  <2>. QED  BY <2>1 DEF Effect
<1>. QED  BY <1>1, <1>2, <1>3, <1>4 DEF OwnStep

LEMMA OtherEffect ==
  ASSUME TypeOK, NEW c \in Clients, CommandStep(c) \/ BootStep(c) \/ FileStep(c) \/ CallFails(c)
  PROVE  Effect(c)
<1>0. cl \in [Clients -> Client] /\ calls \in Nat
  BY TablesAssumption DEF TypeOK
<1>1. CASE CommandStep(c)
  <2>1. calls' \in {calls, calls + 1}
    BY <1>0, <1>1 DEF CommandStep, MemSchedule, PgSchedule, LiteSchedule, MemFindDue, PgFindDue, LiteFindDue, MemHandle,
       PgHandle, LiteHandle, MemFinish, PgDeleteDue, LiteFinish, Scheduled, FindDue, Handle, Finish, Begin, Resume
  <2>2. GoesOn(c)
    BY <1>1, <2>1, CommandFrame DEF GoesOn, Moves
  <2>. QED  BY <2>2 DEF Effect
<1>2. CASE BootStep(c)
  <2>1. "claimed" \notin Booting /\ (Booting \cup {"idle", "down"}) \cap {"numbered", "row", "loaded", "claimed"} = {}
        /\ Booting \cap {"row", "loaded"} = {}
    BY DEF Booting, Unpathed
  <2>2. GoesOn(c)
    BY <1>2, <2>1, BootFrame DEF GoesOn, Moves, tables
  <2>. QED  BY <2>2 DEF Effect
<1>3. CASE FileStep(c)
  <2>1. calls' \in {calls, calls + 1}
    BY <1>0, <1>3 DEF FileStep, ArtSpool, gc_expired, Judged, ArtResolve, ArtDeduplicate, ArtPlace, ArtMark, ArtRemoveBlob,
       ArtRemoveMeta, ArtOpen, ArtResolved, Begin, Resume
  <2>2. GoesOn(c)
    BY <1>3, <2>1, FileFrame DEF GoesOn, Moves, FilesOnly, tables
  <2>. QED  BY <2>2 DEF Effect
<1>4. CASE CallFails(c)
  BY <1>0, <1>4, IdleType DEF CallFails, Return, Effect, GoesOn, LetsGo, Moves, tables
<1>. QED  BY <1>1, <1>2, <1>3, <1>4

\* Every step is of one of these kinds.
LEMMA Effects ==
  ASSUME TypeOK, [Next]_vars
  PROVE  \/ \E c \in Clients : Effect(c)
         \/ UNCHANGED <<workflows, pointers, writes, sequences, calls, cl>>
<1>1. ASSUME NEW d \in Digests, ArtExpires(d)  PROVE UNCHANGED <<workflows, pointers, writes, sequences, calls, cl>>
  BY <1>1 DEF ArtExpires, FilesOnly, tables
<1>2. UNCHANGED vars => UNCHANGED <<workflows, pointers, writes, sequences, calls, cl>>
  BY DEF vars, tables
<1>. QED  BY <1>1, <1>2, NextCases, CommonEffect, OwnEffect, OtherEffect

LEMMA LoadsAnyStep ==
  ASSUME TypeOK, LoadInv, Locked = TRUE, [Next]_vars
  PROVE  LoadInv'
<1>1. ASSUME NEW c \in Clients, Draws(c) \/ LetsGo(c) \/ (\E s \in Subs : Claims(c, s))  PROVE LoadInv'
  <2>1. Moves(c, {"idle", "numbered", "claimed"}) /\ {"idle", "numbered", "claimed"} \cap {"row", "loaded"} = {}
    BY <1>1 DEF Draws, LetsGo, Claims, Moves
  <2>. QED  BY <1>1, <2>1, LoadsUntouched DEF Draws, LetsGo, Claims
<1>2. ASSUME NEW c \in Clients, GoesOn(c)  PROVE LoadInv'
  BY <1>2, LoadsUntouched DEF GoesOn, Moves, LoadInv
<1>3. ASSUME NEW c \in Clients, ReadsTree(c)  PROVE LoadInv'
  BY <1>3 DEF ReadsTree, Moves, LoadInv
<1>4. CASE UNCHANGED <<workflows, pointers, writes, sequences, calls, cl>>
  BY <1>4 DEF LoadInv
<1>. QED  BY <1>1, <1>2, <1>3, <1>4, Effects, LoadsStored, LoadsRead DEF Effect

\* The clients with a call under way that ends with a write.
Owing == {c \in Clients : cl[c].pc \in {"numbered", "row", "loaded"}}

\* No more is written than was called for.
CountInv == writes + Cardinality(Owing) <= calls

LEMMA OwingFinite == IsFiniteSet(Owing) /\ Cardinality(Owing) \in Nat
BY ClientsAssumption, FS_Subset, FS_CardinalityType DEF Owing

\* A step costs a call for each write that it makes or comes to owe.
LEMMA CountsFrame ==
  ASSUME TypeOK, TypeOK', CountInv, NEW c \in Clients, \A d \in Clients \ {c} : cl'[d] = cl[d],
         writes' + (IF c \in Owing' THEN 1 ELSE 0) + calls <= writes + (IF c \in Owing THEN 1 ELSE 0) + calls'
  PROVE  CountInv'
<1>0. {writes, writes', calls, calls'} \subseteq Nat
  BY TablesAssumption DEF TypeOK
<1>1. IsFiniteSet(Owing) /\ Cardinality(Owing) \in Nat
  BY OwingFinite
<1>2. Owing' \ {c} = Owing \ {c}
  BY DEF Owing
<1>3. CASE c \in Owing' /\ c \notin Owing
  <2>1. Owing' = Owing \cup {c}
    BY <1>2, <1>3
  <2>2. Cardinality(Owing \cup {c}) = Cardinality(Owing) + 1
    BY <1>1, <1>3, FS_AddElement
  <2>3. Cardinality(Owing') = Cardinality(Owing) + 1
    BY <2>1, <2>2
  <2>. QED  BY <1>0, <1>1, <1>3, <2>3 DEF CountInv
<1>4. CASE c \notin Owing' /\ c \in Owing
  <2>1. Owing' = Owing \ {c}
    BY <1>2, <1>4
  <2>2. Cardinality(Owing \ {c}) = Cardinality(Owing) - 1
    BY <1>1, <1>4, FS_RemoveElement
  <2>3. Cardinality(Owing') = Cardinality(Owing) - 1
    BY <2>1, <2>2
  <2>. QED  BY <1>0, <1>1, <1>4, <2>3 DEF CountInv
<1>5. CASE (c \in Owing') = (c \in Owing)
  <2>1. Owing' = Owing
    BY <1>2, <1>5
  <2>. QED  BY <1>0, <1>1, <1>5, <2>1 DEF CountInv
<1>. QED  BY <1>3, <1>4, <1>5

LEMMA CountsAnyStep ==
  ASSUME TypeOK, TypeOK', CountInv, [Next]_vars
  PROVE  CountInv'
<1>0. {writes, writes', calls, calls'} \subseteq Nat
  BY TablesAssumption DEF TypeOK
<1>1. ASSUME NEW c \in Clients, Effect(c)  PROVE CountInv'
  <2>1. \A d \in Clients \ {c} : cl'[d] = cl[d]
    BY <1>1 DEF Effect, StoresInstance, ReadsRow, ReadsTree, Draws, Claims, LetsGo, GoesOn, Moves
  <2>2. /\ c \in Owing <=> cl[c].pc \in {"numbered", "row", "loaded"}
        /\ c \in Owing' <=> cl'[c].pc \in {"numbered", "row", "loaded"}
    BY DEF Owing
  <2>3. CASE \E w \in Workflows : StoresInstance(c, w)
    <3>1. /\ c \notin Owing' /\ writes' = writes + 1
          /\ (c \in Owing /\ calls' = calls) \/ (c \notin Owing /\ calls' = calls + 1)
      BY <2>2, <2>3 DEF StoresInstance, Moves
    <3>. QED  BY <1>0, <2>1, <3>1, CountsFrame
  <2>4. CASE (\E w \in Workflows, P \in SUBSET {"row", "loaded"} : ReadsRow(c, w, P)) \/ Draws(c)
    <3>1. c \in Owing' /\ c \notin Owing /\ calls' = calls + 1 /\ writes' = writes
      BY <2>2, <2>4 DEF ReadsRow, Draws, Moves
    <3>. QED  BY <1>0, <2>1, <3>1, CountsFrame
  <2>5. CASE ReadsTree(c)
    <3>1. c \in Owing' /\ c \in Owing /\ calls' = calls /\ writes' = writes
      BY <2>2, <2>5 DEF ReadsTree, Moves
    <3>. QED  BY <1>0, <2>1, <3>1, CountsFrame
  <2>6. CASE (\E s \in Subs : Claims(c, s)) \/ LetsGo(c) \/ GoesOn(c)
    <3>1. c \notin Owing' /\ calls' \in {calls, calls + 1} /\ writes' = writes
      BY <2>2, <2>6 DEF Claims, LetsGo, GoesOn, Moves
    <3>. QED  BY <1>0, <2>1, <3>1, CountsFrame
  <2>7. ASSUME NEW w \in Workflows, ReadsRow(c, w, {"row"}) \/ ReadsRow(c, w, {"loaded"})  PROVE CountInv'
    BY <2>4, <2>7
  <2>. QED  BY <1>1, <2>3, <2>4, <2>5, <2>6, <2>7 DEF Effect
<1>2. CASE UNCHANGED <<workflows, pointers, writes, sequences, calls, cl>>
  BY <1>2 DEF CountInv, Owing
<1>. QED  BY <1>1, <1>2, Effects

\* The state of the contract that the state of the stores stands for.
Inst == [w \in Workflows |-> [v |-> workflows[w].v, tree |-> pointers[w]]]
Held == [c \in Clients |-> IF cl[c].pc = "loaded" THEN [v |-> cl[c].v, tree |-> cl[c].tree] ELSE [v |-> 0, tree |-> 0]]
Numbers == [c \in Clients |-> IF cl[c].pc = "numbered" THEN cl[c].n ELSE 0]
Holders == [s \in Subs |-> {c \in Clients : cl[c].pc = "claimed" /\ cl[c].s = s}]

LEMMA InstUnchanged ==
  ASSUME UNCHANGED <<workflows, pointers>>
  PROVE  Inst' = Inst
BY DEF Inst

LEMMA InstStored ==
  ASSUME NEW w \in Workflows, NEW v, workflows'[w].v = v, pointers'[w] = v,
         \A x \in Workflows \ {w} : workflows'[x] = workflows[x] /\ pointers'[x] = pointers[x]
  PROVE  Inst' = [Inst EXCEPT ![w] = [v |-> v, tree |-> v]]
BY DEF Inst

LEMMA HeldMoves ==
  ASSUME NEW c \in Clients, \A d \in Clients \ {c} : cl'[d] = cl[d]
  PROVE  /\ cl'[c].pc # "loaded" => Held' = [Held EXCEPT ![c] = [v |-> 0, tree |-> 0]]
         /\ cl'[c].pc = "loaded" => Held' = [Held EXCEPT ![c] = [v |-> cl'[c].v, tree |-> cl'[c].tree]]
         /\ cl[c].pc # "loaded" /\ cl'[c].pc # "loaded" => Held' = Held
BY DEF Held

LEMMA NumbersMoves ==
  ASSUME NEW c \in Clients, \A d \in Clients \ {c} : cl'[d] = cl[d]
  PROVE  /\ cl'[c].pc # "numbered" => Numbers' = [Numbers EXCEPT ![c] = 0]
         /\ cl'[c].pc = "numbered" => Numbers' = [Numbers EXCEPT ![c] = cl'[c].n]
         /\ cl[c].pc # "numbered" /\ cl'[c].pc # "numbered" => Numbers' = Numbers
BY DEF Numbers

LEMMA HoldersMoves ==
  ASSUME NEW c \in Clients, \A d \in Clients \ {c} : cl'[d] = cl[d], cl[c].pc # "claimed"
  PROVE  /\ cl'[c].pc # "claimed" => Holders' = Holders
         /\ \A s \in Subs : cl'[c].pc = "claimed" /\ cl'[c].s = s /\ Holders[s] = {} => Holders' = [Holders EXCEPT ![s] = {c}]
<1>1. ASSUME cl'[c].pc # "claimed"  PROVE Holders' = Holders
  <2>1. \A d \in Clients, s \in Subs : (cl'[d].pc = "claimed" /\ cl'[d].s = s) <=> (cl[d].pc = "claimed" /\ cl[d].s = s)
    BY <1>1
  <2>2. \A s \in Subs : {d \in Clients : cl'[d].pc = "claimed" /\ cl'[d].s = s} = {d \in Clients : cl[d].pc = "claimed" /\ cl[d].s = s}
    BY <2>1
  <2>. QED  BY <2>2 DEF Holders
<1>2. ASSUME NEW s \in Subs, cl'[c].pc = "claimed", cl'[c].s = s, Holders[s] = {}
      PROVE  Holders' = [Holders EXCEPT ![s] = {c}]
  <2>1. \A d \in Clients : ~(cl[d].pc = "claimed" /\ cl[d].s = s)
    BY <1>2 DEF Holders
  <2>2. {d \in Clients : cl'[d].pc = "claimed" /\ cl'[d].s = s} = {c}
    BY <1>2, <2>1
  <2>3. \A t \in Subs \ {s} : {d \in Clients : cl'[d].pc = "claimed" /\ cl'[d].s = t} = {d \in Clients : cl[d].pc = "claimed" /\ cl[d].s = t}
    BY <1>2
  <2>. QED  BY <2>2, <2>3 DEF Holders
<1>. QED  BY <1>1, <1>2

LEMMA HoldersLetGo ==
  ASSUME ClaimInv, NEW c \in Clients, \A d \in Clients \ {c} : cl'[d] = cl[d], cl[c].pc = "claimed", cl'[c].pc # "claimed",
         cl[c].s \in Subs
  PROVE  c \in Holders[cl[c].s] /\ Holders' = [Holders EXCEPT ![cl[c].s] = {}]
<1>. DEFINE s == cl[c].s
<1>1. {d \in Clients : cl'[d].pc = "claimed" /\ cl'[d].s = s} = {}
  BY DEF ClaimInv
<1>2. \A t \in Subs \ {s} : {d \in Clients : cl'[d].pc = "claimed" /\ cl'[d].s = t} = {d \in Clients : cl[d].pc = "claimed" /\ cl[d].s = t}
  OBVIOUS
<1>3. c \in Holders[s]
  BY DEF Holders
<1>4. DOMAIN Holders = Subs /\ DOMAIN Holders' = Subs
  BY DEF Holders
<1>5. Holders'[s] = {} /\ \A t \in Subs \ {s} : Holders'[t] = Holders[t]
  BY <1>1, <1>2 DEF Holders
<1>6. Holders' = [Holders EXCEPT ![s] = {}]
  <2>1. Holders' = [t \in Subs |-> Holders'[t]]
    BY DEF Holders
  <2>2. [Holders EXCEPT ![s] = {}] = [t \in Subs |-> IF t = s THEN {} ELSE Holders[t]]
    BY <1>4
  <2>. QED  BY <1>5, <2>1, <2>2
<1>. QED  BY <1>3, <1>6

\* The steps of the contract in these terms.
LEMMA ContractForgets ==
  ASSUME NEW c \in Clients, Inst' = Inst, sequences' = sequences, Holders' = Holders,
         Held' = [Held EXCEPT ![c] = [v |-> 0, tree |-> 0]], Numbers' = [Numbers EXCEPT ![c] = 0]
  PROVE  Contract!Next
BY DEF Contract!Next, Contract!Forget, Contract!Absent, Inst, Held, Numbers, Holders
LEMMA ContractStores ==
  ASSUME NEW c \in Clients, NEW w \in Workflows, NEW v \in 1..MaxCalls + 1,
         Inst' = [Inst EXCEPT ![w] = [v |-> v, tree |-> v]], sequences' = sequences, Holders' = Holders,
         Held' = [Held EXCEPT ![c] = [v |-> 0, tree |-> 0]], Numbers' = [Numbers EXCEPT ![c] = 0]
  PROVE  Contract!Next
BY DEF Contract!Next, Contract!Store, Contract!Absent, Inst, Held, Numbers, Holders
LEMMA ContractNumbers ==
  ASSUME NEW c \in Clients, Inst' = Inst, sequences' = sequences + 1, Holders' = Holders,
         Held' = Held, Numbers' = [Numbers EXCEPT ![c] = sequences']
  PROVE  Contract!Next
BY DEF Contract!Next, Contract!Number, Inst, Held, Numbers, Holders
LEMMA ContractLoads ==
  ASSUME NEW c \in Clients, NEW w \in Workflows, Inst[w] # [v |-> 0, tree |-> 0],
         Inst' = Inst, sequences' = sequences, Holders' = Holders,
         Held' = [Held EXCEPT ![c] = Inst[w]], Numbers' = Numbers
  PROVE  Contract!Next
BY DEF Contract!Next, Contract!Load, Contract!Absent, Inst, Held, Numbers, Holders
LEMMA ContractClaims ==
  ASSUME NEW c \in Clients, NEW s \in Subs, Holders[s] = {}, Holders' = [Holders EXCEPT ![s] = {c}],
         Inst' = Inst, sequences' = sequences, Held' = Held, Numbers' = Numbers
  PROVE  Contract!Next
BY DEF Contract!Next, Contract!Claim, Inst, Held, Numbers, Holders
LEMMA ContractUnclaims ==
  ASSUME NEW c \in Clients, NEW s \in Subs, c \in Holders[s], Holders' = [Holders EXCEPT ![s] = {}],
         Inst' = Inst, sequences' = sequences, Held' = Held, Numbers' = Numbers
  PROVE  Contract!Next
BY DEF Contract!Next, Contract!Unclaim, Inst, Held, Numbers, Holders

\* An unclaimed token has no claimer.
LEMMA NobodyClaims ==
  ASSUME TypeOK, ClaimInv, NEW c \in Clients, NEW s \in Subs, Claims(c, s)
  PROVE  Holders[s] = {}
<1>0. {"none", "__terminated__"} \cap Clients = {}
  BY NamesAssumption
<1>1. \A d \in Clients : cl[d].pc = "claimed" => cl[d].s # s
  BY <1>0 DEF ClaimInv, Token, Claims
<1>. QED  BY <1>1 DEF Holders

LEMMA ContractStep ==
  ASSUME TypeOK, TypeOK', ClaimInv, LoadInv, CountInv', NEW c \in Clients, Effect(c)
  PROVE  Contract!Next
<1>0. \A d \in Clients \ {c} : cl'[d] = cl[d]
  BY DEF Effect, StoresInstance, ReadsRow, ReadsTree, Draws, Claims, LetsGo, GoesOn, Moves
<1>1. ASSUME NEW w \in Workflows, StoresInstance(c, w)  PROVE Contract!Next
  <2>1. writes + 1 \in 1..MaxCalls + 1
    <3>1. writes' + Cardinality(Owing') <= calls' /\ Cardinality(Owing') \in Nat
      <4>1. (IsFiniteSet(Owing) /\ Cardinality(Owing) \in Nat)'
        BY OwingFinite, PTL
      <4>. QED  BY <4>1 DEF CountInv
    <3>2. writes' \in Nat /\ writes \in Nat /\ calls' \in 0..MaxCalls /\ MaxCalls \in Nat
      BY TablesAssumption DEF TypeOK
    <3>3. writes' = writes + 1
      BY <1>1 DEF StoresInstance
    <3>. QED  BY <3>1, <3>2, <3>3
  <2>2. Inst' = [Inst EXCEPT ![w] = [v |-> writes + 1, tree |-> writes + 1]]
    BY <1>1, InstStored DEF StoresInstance
  <2>3. cl'[c].pc \in {"idle", "subscribe"} /\ cl[c].pc # "claimed" /\ sequences' = sequences
    BY <1>1 DEF StoresInstance, Moves
  <2>4. Held' = [Held EXCEPT ![c] = [v |-> 0, tree |-> 0]] /\ Numbers' = [Numbers EXCEPT ![c] = 0] /\ Holders' = Holders
    BY <1>0, <2>3, HeldMoves, NumbersMoves, HoldersMoves
  <2>. QED  BY <2>1, <2>2, <2>3, <2>4, ContractStores
<1>2. ASSUME NEW w \in Workflows, ReadsRow(c, w, {"row"})  PROVE Contract!Next
  <2>1. cl'[c].pc = "row" /\ cl[c].pc = "idle" /\ UNCHANGED <<workflows, pointers, sequences>>
    BY <1>2 DEF ReadsRow, Moves
  <2>2. Held' = [Held EXCEPT ![c] = [v |-> 0, tree |-> 0]] /\ Numbers' = [Numbers EXCEPT ![c] = 0] /\ Holders' = Holders
    BY <1>0, <2>1, HeldMoves, NumbersMoves, HoldersMoves
  <2>. QED  BY <2>1, <2>2, InstUnchanged, ContractForgets
<1>3. ASSUME NEW w \in Workflows, cl[c].pc \in {"idle", "row"}, cl'[c].pc = "loaded", cl'[c].v = workflows[w].v,
             cl'[c].v # 0, cl'[c].tree = pointers[w], UNCHANGED <<workflows, pointers, sequences>>
      PROVE  Contract!Next
  <2>1. Held' = [Held EXCEPT ![c] = [v |-> cl'[c].v, tree |-> cl'[c].tree]] /\ Numbers' = Numbers /\ Holders' = Holders
    BY <1>0, <1>3, HeldMoves, NumbersMoves, HoldersMoves
  <2>2. Inst[w] = [v |-> cl'[c].v, tree |-> cl'[c].tree] /\ Inst[w] # [v |-> 0, tree |-> 0]
    BY <1>3 DEF Inst
  <2>. QED  BY <1>3, <2>1, <2>2, InstUnchanged, ContractLoads
<1>4. ASSUME NEW w \in Workflows, ReadsRow(c, w, {"loaded"}), cl'[c].tree = pointers[w]  PROVE Contract!Next
  <2>1. workflows[w].v # 0
    BY <1>4 DEF ReadsRow, LoadInv
  <2>. QED  BY <1>3, <1>4, <2>1 DEF ReadsRow, Moves
<1>5. CASE ReadsTree(c)
  <2>1. cl[c].w \in Workflows
    BY <1>5 DEF ReadsTree, TypeOK
  <2>2. cl[c].v = workflows[cl[c].w].v /\ cl[c].v # 0
    BY <1>5 DEF ReadsTree, LoadInv
  <2>. QED  BY <1>3, <1>5, <2>1, <2>2 DEF ReadsTree, Moves
<1>6. CASE Draws(c)
  <2>1. cl[c].pc = "idle" /\ cl'[c].pc = "numbered" /\ cl'[c].n = sequences' /\ sequences' = sequences + 1
        /\ UNCHANGED <<workflows, pointers>>
    BY <1>6 DEF Draws, Moves
  <2>2. Held' = Held /\ Numbers' = [Numbers EXCEPT ![c] = cl'[c].n] /\ Holders' = Holders
    BY <1>0, <2>1, HeldMoves, NumbersMoves, HoldersMoves
  <2>. QED  BY <2>1, <2>2, InstUnchanged, ContractNumbers
<1>7. ASSUME NEW s \in Subs, Claims(c, s)  PROVE Contract!Next
  <2>1. cl[c].pc = "idle" /\ cl'[c].pc = "claimed" /\ cl'[c].s = s /\ UNCHANGED <<workflows, pointers, sequences>>
    BY <1>7 DEF Claims, Moves
  <2>2. Holders[s] = {}
    BY <1>7, NobodyClaims
  <2>3. Held' = Held /\ Numbers' = Numbers /\ Holders' = [Holders EXCEPT ![s] = {c}]
    BY <1>0, <2>1, <2>2, HeldMoves, NumbersMoves, HoldersMoves
  <2>. QED  BY <2>1, <2>2, <2>3, InstUnchanged, ContractClaims
<1>8. CASE LetsGo(c)
  <2>1. cl[c].pc = "claimed" /\ cl'[c].pc = "idle" /\ cl[c].s \in Subs /\ UNCHANGED <<workflows, pointers, sequences>>
    BY <1>8 DEF LetsGo, Moves, TypeOK
  <2>2. Held' = Held /\ Numbers' = Numbers
    BY <1>0, <2>1, HeldMoves, NumbersMoves
  <2>3. c \in Holders[cl[c].s] /\ Holders' = [Holders EXCEPT ![cl[c].s] = {}]
    BY <1>0, <2>1, HoldersLetGo
  <2>. QED  BY <2>1, <2>2, <2>3, InstUnchanged, ContractUnclaims
<1>9. CASE GoesOn(c)
  <2>1. cl[c].pc # "claimed" /\ cl'[c].pc \notin {"numbered", "loaded", "claimed"} /\ UNCHANGED <<workflows, pointers, sequences>>
    BY <1>9 DEF GoesOn
  <2>2. Held' = [Held EXCEPT ![c] = [v |-> 0, tree |-> 0]] /\ Numbers' = [Numbers EXCEPT ![c] = 0] /\ Holders' = Holders
    BY <1>0, <2>1, HeldMoves, NumbersMoves, HoldersMoves
  <2>. QED  BY <2>1, <2>2, InstUnchanged, ContractForgets
<1>. QED  BY <1>1, <1>2, <1>4, <1>5, <1>6, <1>7, <1>8, <1>9 DEF Effect

\* Under the instance lock every provider keeps StoreContract: instances are
\* stored and loaded whole although two statements read them, a number is given
\* out once and a subscription has one claimer, whatever statements fail and
\* whoever dies.
THEOREM StoresKeepContract ==
  ASSUME Locked = TRUE
  PROVE  Spec => Implements
<1>. DEFINE Inv == TypeOK /\ ClaimInv /\ LoadInv /\ CountInv
<1>1. Init => ClaimInv /\ LoadInv /\ CountInv
  <2>. SUFFICES ASSUME Init  PROVE ClaimInv /\ LoadInv /\ CountInv
    OBVIOUS
  <2>1. ClaimInv /\ LoadInv
    BY NamesAssumption DEF Init, ClaimInv, LoadInv, Token, NoRow, Idle
  <2>2. Owing = {}
    BY DEF Init, Owing, Idle
  <2>3. Cardinality(Owing) = 0
    BY <2>2, FS_EmptySet
  <2>. QED  BY <2>1, <2>3 DEF Init, CountInv
<1>2. TypeOK /\ [Next]_vars => TypeOK'
  BY TypeStep
<1>3. Inv /\ [Next]_vars => ClaimInv' /\ LoadInv' /\ CountInv'
  BY <1>2, ClaimsAnyStep, LoadsAnyStep, CountsAnyStep
<1>4. Spec => []Inv
  BY <1>1, <1>3, StoresTypeCorrect, PTL DEF Spec
<1>5. Init => Contract!Init
  BY DEF Init, Contract!Init, Contract!Absent, NoRow, Idle
<1>6. Inv /\ Inv' /\ [Next]_vars => [Contract!Next]_(Contract!vars)
  <2>. SUFFICES ASSUME Inv, Inv', [Next]_vars  PROVE [Contract!Next]_(Contract!vars)
    OBVIOUS
  <2>1. UNCHANGED <<workflows, pointers, writes, sequences, calls, cl>> => UNCHANGED Contract!vars
    BY DEF Contract!vars
  <2>. QED  BY <2>1, Effects, ContractStep
<1>. QED  BY <1>4, <1>5, <1>6, PTL DEF Spec, Implements, Contract!Spec
=============================================================================
