----------------------------- MODULE SqliteStore -----------------------------
(***************************************************************************)
(* SqlitePersistenceProvider.  The tables are created when the provider    *)
(* is, before anybody has it.  Terminated subscriptions stay, flagged; a   *)
(* command's row is deleted by its own id as soon as it is handled.        *)
(***************************************************************************)
EXTENDS Tables

LiteCreate(c) == Create(c, "sqlite", TRUE)
LiteNextSequence(c) == Number(c, "sqlite")
LitePersist(c) == Persist(c, "sqlite")
\* Slip: the transaction ends before the subscriptions are inserted.
LitePersistUnsubscribed(c) ==
  /\ Resume(c, "sqlite", "loaded")
  /\ \E s \in Subs : Stored(cl[c].w, cl[c].n, s)
  /\ Return(c) /\ Aside /\ UNCHANGED <<subs, events, sequences, commands, handled>>
LitePersistWaiting(c) == PersistWaiting(c, "sqlite")
LiteGetRow(c, w) == GetRow(c, "sqlite", w)
LiteGetPointers(c) == GetPointers(c, "sqlite")

LiteSubscribe(c, s) ==
  /\ Begin(c, "sqlite") /\ subs[s].state = "absent"
  /\ Subscription(c, s, [state |-> "open", token |-> "none"])
  /\ Return(c)
LiteTerminate(c, s) ==
  /\ Begin(c, "sqlite") /\ subs[s].state # "absent"
  /\ Subscription(c, s, [subs[s] EXCEPT !.state = "terminated"])
  /\ Return(c)
\* Asks for the token alone: a terminated subscription can be claimed.
LiteSetToken(c, s) == SetToken(c, "sqlite", s, subs[s].state # "absent" /\ subs[s].token = "none")
\* Asks for the flag alone: a claimed subscription is found.
LiteGetSubscriptions == {s \in Subs : subs[s].state = "open"}
LiteClearToken(c) == ClearToken(c, "sqlite")

LiteCreateEvent(c) == CreateEvent(c, "sqlite")
LiteMarkEvent(c) == MarkEvent(c, "sqlite")

\* INSERT OR IGNORE: a command that is there keeps its time.
LiteSchedule(c, k, due) ==
  Scheduled(c, "sqlite",
            IF \E r \in commands : r.key = k THEN commands ELSE commands \cup {Command(k, due)})
LiteFindDue(c) == FindDue(c, "sqlite", commands)
LiteHandle(c, r) == Handle(c, "sqlite", r, {r})
LiteFinish(c) == Finish(c, "sqlite", {})

LiteNext == \E c \in Clients :
  \/ LiteNextSequence(c) \/ LiteCreate(c)
  \/ LitePersist(c) \/ LitePersistWaiting(c)
  \/ LiteGetPointers(c) \/ \E w \in Workflows : LiteGetRow(c, w)
  \/ \E s \in Subs : LiteSubscribe(c, s) \/ LiteTerminate(c, s) \/ LiteSetToken(c, s)
  \/ LiteClearToken(c)
  \/ LiteCreateEvent(c) \/ LiteMarkEvent(c)
  \/ \E k \in Commands, due \in BOOLEAN : LiteSchedule(c, k, due)
  \/ LiteFindDue(c) \/ LiteFinish(c) \/ \E r \in cl[c].todo : LiteHandle(c, r)
=============================================================================
