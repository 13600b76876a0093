----------------------------- MODULE MemoryStore -----------------------------
(***************************************************************************)
(* InMemoryPersistenceProvider: maps behind one RwLock each.  A call that  *)
(* takes one lock is one step; persist_workflow_with_subscriptions takes   *)
(* two in a row, and process_commands lets go of its lock before the       *)
(* handlers run.                                                           *)
(***************************************************************************)
EXTENDS Tables

MemCreate(c) == Create(c, "memory", FALSE)
MemNextSequence(c) == Number(c, "memory")
MemPersist(c) == Persist(c, "memory")

\* The instance is stored here, its subscriptions in a second step.
MemPersistWaiting(c) ==
  /\ Resume(c, "memory", "loaded")
  /\ \E s \in Subs :
       /\ subs[s].state = "absent" /\ \A d \in Clients : cl[d].s # s
       /\ Stored(cl[c].w, cl[c].n, s)
       /\ cl' = [cl EXCEPT ![c] = [Idle EXCEPT !.pc = "subscribe", !.s = s]]
  /\ Aside /\ UNCHANGED <<subs, events, sequences, commands, handled>>
MemSubscribe(c) ==
  /\ Resume(c, "memory", "subscribe")
  /\ Subscription(c, cl[c].s, [state |-> "open", token |-> "none"])
  /\ Return(c)

\* Row and tree are one value in one map.
MemGet(c, w) ==
  /\ Begin(c, "memory") /\ Free(c, w) /\ workflows[w] # NoRow
  /\ cl' = [cl EXCEPT ![c] = [Idle EXCEPT !.pc = "loaded", !.w = w, !.v = workflows[w].v,
              !.tree = pointers[w], !.n = workflows[w].name]]
  /\ Aside /\ UNCHANGED <<tables, writes, handled>>

\* A terminated subscription stays, with a token nobody has.
MemTerminate(c, s) ==
  /\ Begin(c, "memory") /\ subs[s].state # "absent"
  /\ Subscription(c, s, [state |-> "terminated", token |-> "__terminated__"])
  /\ Return(c)
MemSetToken(c, s) == SetToken(c, "memory", s, subs[s].state # "absent" /\ subs[s].token = "none")
MemGetSubscriptions == {s \in Subs : subs[s].state # "absent" /\ subs[s].token = "none"}
MemClearToken(c) == ClearToken(c, "memory")

MemCreateEvent(c) == CreateEvent(c, "memory")
MemMarkEvent(c) == MarkEvent(c, "memory")

\* A command is appended, whatever is there already.
MemSchedule(c, k, due) == Scheduled(c, "memory", commands \cup {Command(k, due)})
MemFindDue(c) == FindDue(c, "memory", {r \in commands : ~r.due})
MemHandle(c, r) == Handle(c, "memory", r, {})
MemFinish(c) == Finish(c, "memory", {})

MemNext == \E c \in Clients :
  \/ MemNextSequence(c) \/ MemCreate(c)
  \/ MemPersist(c) \/ MemPersistWaiting(c) \/ MemSubscribe(c)
  \/ \E w \in Workflows : MemGet(c, w)
  \/ \E s \in Subs : MemTerminate(c, s) \/ MemSetToken(c, s)
  \/ MemClearToken(c)
  \/ MemCreateEvent(c) \/ MemMarkEvent(c)
  \/ \E k \in Commands, due \in BOOLEAN : MemSchedule(c, k, due)
  \/ MemFindDue(c) \/ MemFinish(c) \/ \E r \in cl[c].todo : MemHandle(c, r)
=============================================================================
