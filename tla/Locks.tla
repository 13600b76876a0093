------------------------------- MODULE Locks --------------------------------
(***************************************************************************)
(* The lock providers, for one resource: a set in memory, a Valkey key     *)
(* with an expiry, and a key of a JetStream bucket that a heartbeat puts   *)
(* again and again while the host lists the lock as held.                  *)
(*                                                                         *)
(* Time passes in thirds of the lease.  Heartbeats are punctual and local  *)
(* steps take no time, a message may be lost.                              *)
(***************************************************************************)
EXTENDS Integers, Sequences, FiniteSets

CONSTANTS
  Hosts,
  Backends,     \* the backends considered
  Ttl,          \* lock_ttl_secs and lock_duration, in ticks
  MayOutlive,   \* whether a pass may outlive a lease that nobody renews
  MaxFaults     \* bound on lost messages and failed calls

ASSUME LocksAssumption ==
  {Ttl, MaxFaults} \subseteq Nat /\ Ttl # 0 /\ Backends \subseteq {"memory", "valkey", "nats"}

None == "nobody"
ASSUME NobodyAssumption == None \notin Hosts

VARIABLES
  backend,  \* the backend at hand
  key,      \* the holder that the key names
  left,     \* ticks until the key expires
  held,     \* held_locks: the hosts that list the lock
  beat,     \* per host the ticks until its heartbeat is due, or Putting or Off
  faults
locks == <<key, left, held, beat>>

Off == -1
Putting == -2   \* about to put the keys of its copy

\* Slip: the heartbeat sleeps for the whole lease.
Interval_whole == Ttl

\* interval: ttl / 3
Interval == Ttl \div 3

LocksInit ==
  /\ backend \in Backends
  /\ key = None /\ left = 0 /\ held = {} /\ faults = 0
  /\ beat = [h \in Hosts |-> IF backend = "nats" THEN Interval ELSE Off]

Fault == faults < MaxFaults /\ faults' = faults + 1
NoFault == UNCHANGED faults

\* insert, SET NX EX and create: they take the key if nobody has it.  In NATS
\* the host lists the lock afterwards.
acquire_lock(h) ==
  /\ key = None /\ key' = h
  /\ left' = IF backend = "memory" THEN 0 ELSE Ttl
  /\ UNCHANGED <<held, beat>>
Insert(h) == held' = held \cup {h} /\ UNCHANGED <<key, left, beat>>

\* release_lock in memory removes whatever is there; Valkey's script deletes the
\* key if it has the host's name.
MemRelease == key' = None /\ left' = 0 /\ UNCHANGED <<held, beat>>
ValkeyRelease(h) ==
  /\ key' = IF key = h THEN None ELSE key
  /\ left' = IF key = h THEN 0 ELSE left
  /\ UNCHANGED <<held, beat>>

\* In NATS: the key is read and, if it has the host's name, deleted, whatever it
\* has by then; at last the host strikes it from its list.
NatsOwns(h) == key = h
NatsDelete == key' = None /\ left' = 0 /\ UNCHANGED <<held, beat>>

\* Slip: only a lock that was deleted is struck from the list.
NatsForgetDeleted(h) ==
  /\ held' = IF key = None THEN held \ {h} ELSE held
  /\ UNCHANGED <<key, left, beat>>

NatsForget(h) == held' = held \ {h} /\ UNCHANGED <<key, left, beat>>

\* The heartbeat: when it is due it copies the list, then it puts the keys of
\* the copy, without looking whose they are.
HeartbeatCopy(h) ==
  CASE beat[h] = Off -> Off
    [] beat[h] > 1 -> beat[h] - 1
    [] OTHER -> IF h \in held THEN Putting ELSE Interval
HeartbeatPut(h, running) ==
  /\ beat[h] = Putting /\ UNCHANGED <<backend, held>>
  /\ beat' = [beat EXCEPT ![h] = IF running THEN Interval ELSE Off]
  /\ \/ key' = h /\ left' = Ttl /\ NoFault
     \/ Fault /\ UNCHANGED <<key, left>>

\* stop: a put under way is waited for.
HeartbeatsWithout(h) == [beat EXCEPT ![h] = IF @ = Putting THEN @ ELSE Off]

Tick(inserting, passing) ==
  /\ inserting = {} /\ \A h \in Hosts : beat[h] # Putting
  /\ ~MayOutlive => ~(backend = "valkey" /\ left = 1 /\ key \in passing)
  /\ left' = IF left = 0 THEN 0 ELSE left - 1
  /\ key' = IF left = 1 THEN None ELSE key
  /\ beat' = [h \in Hosts |-> HeartbeatCopy(h)]
  /\ UNCHANGED <<backend, held, faults>>
=============================================================================
