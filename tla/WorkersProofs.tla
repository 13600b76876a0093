--------------------------- MODULE WorkersProofs ----------------------------
(***************************************************************************)
(* Proofs about Workers, for any number of hosts, items, stops and crashes,*)
(* and as many faults as the lease outlasts.                               *)
(***************************************************************************)
EXTENDS Workers, TLAPS, FiniteSetTheorems

LEMMA IntervalType == Interval \in Nat /\ Interval <= Ttl
BY LocksAssumption DEF Interval

-----------------------------------------------------------------------------
(* Types.                                                                  *)

\* A step of a consumer on the side of locks and heartbeats.
LEMMA GoesType ==
  ASSUME TypeOK, NEW c \in Consumers, NEW from, NEW to \in Points, Goes(c, from, to)
  PROVE  pc' \in [Consumers -> Points]
BY DEF TypeOK, Goes

LEMMA OfHosts ==
  /\ \A c \in Consumers : Of(c) \in Hosts
  /\ \A h \in Hosts : <<h, "workflow">> \in Consumers /\ Of(<<h, "workflow">>) = h
  /\ \A h \in EventHosts : h \in Hosts /\ <<h, "event">> \in Consumers /\ Of(<<h, "event">>) = h
BY EventHostsAssumption DEF Consumers, Of

LEMMA FaultTypes ==
  ASSUME TypeOK, Fault \/ NoFault
  PROVE  faults' \in 0..MaxFaults
BY LocksAssumption DEF TypeOK, Fault, NoFault

LEMMA HostTypes ==
  ASSUME TypeOK, NEW h \in Hosts, Deliver(h) \/ Dequeue(h) \/ Reply(h) \/ ReplyLost(h) \/ (h \in EventHosts /\ Event(h))
  PROVE  TypeOK'
<1>0. {"idle", "popping", "have"} \subseteq Points
  BY DEF Points
<1>1. CASE Deliver(h)
  <2>1. Fault \/ NoFault
    BY <1>1 DEF Deliver, NatsDeliver
  <2>. QED  BY <1>1, <2>1, FaultTypes DEF Deliver, locks, consumers, TypeOK
<1>2. CASE Dequeue(h)
  <2>1. pc' \in [Consumers -> Points]
    BY <1>0, <1>2, GoesType, OfHosts DEF Dequeue
  <2>. QED  BY <1>2, <2>1 DEF Dequeue, Rest, locks, TypeOK
<1>3. CASE Reply(h)
  <2>1. pc' \in [Consumers -> Points]
    BY <1>0, <1>3, GoesType, OfHosts DEF Reply
  <2>. QED  BY <1>3, <2>1 DEF Reply, Rest, locks, TypeOK
<1>4. CASE ReplyLost(h)
  <2>1. pc' \in [Consumers -> Points] /\ faults' \in 0..MaxFaults
    BY <1>0, <1>4, GoesType, OfHosts, FaultTypes DEF ReplyLost
  <2>. QED  BY <1>4, <2>1 DEF ReplyLost, Rest, locks, TypeOK
<1>5. CASE h \in EventHosts /\ Event(h)
  <2>1. pc' \in [Consumers -> Points]
    BY <1>0, <1>5, GoesType, OfHosts DEF Event
  <2>. QED  BY <1>5, <2>1 DEF Event, Rest, locks, TypeOK
<1>. QED  BY <1>1, <1>2, <1>3, <1>4, <1>5

LEMMA ConsumerTypes ==
  ASSUME TypeOK, NEW c \in Consumers, Consumer(c) \/ AcquireFails(c)
  PROVE  TypeOK'
<1>0. 0 \in 0..Ttl /\ Ttl \in 0..Ttl /\ Of(c) \in Hosts /\ {"idle", "insert", "pass", "delete", "forget"} \subseteq Points
  BY LocksAssumption, OfHosts DEF Points
<1>4. CASE Acquire(c)
  <2>1. pc' \in [Consumers -> Points]
    BY <1>4, <1>0, GoesType DEF Acquire
  <2>. QED  BY <1>0, <1>4, <2>1 DEF Acquire, acquire_lock, NoFault, Rest, TypeOK
<1>5. CASE AcquireBusy(c)
  <2>1. pc' \in [Consumers -> Points]
    BY <1>5, <1>0, GoesType DEF AcquireBusy
  <2>. QED  BY <1>5, <2>1 DEF AcquireBusy, Rest, locks, TypeOK
<1>6. CASE AcquireFails(c)
  <2>1. pc' \in [Consumers -> Points]
    BY <1>6, <1>0, GoesType DEF AcquireFails
  <2>2. faults' \in 0..MaxFaults
    BY <1>6, FaultTypes DEF AcquireFails
  <2>. QED  BY <1>0, <1>6, <2>1, <2>2 DEF AcquireFails, acquire_lock, Rest, locks, TypeOK
<1>7. CASE ListLock(c)
  <2>1. pc' \in [Consumers -> Points]
    BY <1>7, <1>0, GoesType DEF ListLock
  <2>. QED  BY <1>0, <1>7, <2>1 DEF ListLock, Insert, Rest, TypeOK
<1>8. CASE Release(c)
  <2>1. pc' \in [Consumers -> Points]
    BY <1>8, <1>0, GoesType DEF Release
  <2>2. faults' \in 0..MaxFaults
    BY <1>8, FaultTypes DEF Release
  <2>3. key' \in Hosts \cup {None} /\ left' \in 0..Ttl /\ UNCHANGED <<held, beat>>
    BY <1>0, <1>8 DEF Release, MemRelease, ValkeyRelease, locks, TypeOK
  <2>. QED  BY <1>8, <2>1, <2>2, <2>3 DEF Release, Rest, TypeOK
<1>9. CASE Delete(c)
  <2>1. pc' \in [Consumers -> Points]
    BY <1>9, <1>0, GoesType DEF Delete
  <2>2. faults' \in 0..MaxFaults
    BY <1>9, FaultTypes DEF Delete
  <2>3. key' \in Hosts \cup {None} /\ left' \in 0..Ttl /\ UNCHANGED <<held, beat>>
    BY <1>0, <1>9 DEF Delete, NatsDelete, locks, TypeOK
  <2>. QED  BY <1>9, <2>1, <2>2, <2>3 DEF Delete, Rest, TypeOK
<1>10. CASE Forget(c)
  <2>1. pc' \in [Consumers -> Points]
    BY <1>10, <1>0, GoesType DEF Forget
  <2>. QED  BY <1>0, <1>10, <2>1 DEF Forget, NatsForget, Rest, TypeOK
<1>. QED  BY <1>4, <1>5, <1>6, <1>7, <1>8, <1>9, <1>10 DEF Consumer

LEMMA ClockTypes ==
  ASSUME TypeOK, Clock
  PROVE  TypeOK'
<1>0. 0 \in 0..Ttl /\ Ttl \in 0..Ttl /\ Interval \in 0..Interval /\ Interval \in Nat
  BY LocksAssumption, IntervalType
<1>1. ASSUME NEW h \in Hosts, HeartbeatPut(h, Running(h)), UNCHANGED <<queues, consumers>>  PROVE TypeOK'
  <2>1. faults' \in 0..MaxFaults
    BY <1>1, FaultTypes DEF HeartbeatPut
  <2>2. beat' \in [Hosts -> {Off, Putting} \cup 0..Interval]
    BY <1>0, <1>1 DEF HeartbeatPut, TypeOK
  <2>3. key' \in Hosts \cup {None} /\ left' \in 0..Ttl
    BY <1>0, <1>1 DEF HeartbeatPut, TypeOK
  <2>. QED  BY <1>1, <2>1, <2>2, <2>3 DEF HeartbeatPut, consumers, TypeOK
<1>2. ASSUME NEW I, NEW P, Tick(I, P), UNCHANGED <<queues, consumers>>  PROVE TypeOK'
  <2>1. \A h \in Hosts : HeartbeatCopy(h) \in {Off, Putting} \cup 0..Interval
    <3>. SUFFICES ASSUME NEW h \in Hosts  PROVE HeartbeatCopy(h) \in {Off, Putting} \cup 0..Interval
      OBVIOUS
    <3>0. Off = -1 /\ Putting = -2
      BY DEF Off, Putting
    <3>1. beat[h] \in {Off, Putting} \cup 0..Interval
      BY DEF TypeOK
    <3>2. CASE beat[h] = Off
      BY <3>0, <3>2 DEF HeartbeatCopy
    <3>3. CASE beat[h] # Off /\ beat[h] > 1
      <4>1. beat[h] - 1 \in 0..Interval
        BY <1>0, <3>0, <3>1, <3>3
      <4>2. HeartbeatCopy(h) = beat[h] - 1
        BY <3>3 DEF HeartbeatCopy
      <4>. QED  BY <4>1, <4>2
    <3>4. CASE beat[h] # Off /\ ~(beat[h] > 1)
      BY <1>0, <3>4 DEF HeartbeatCopy
    <3>. QED  BY <3>2, <3>3, <3>4
  <2>2. beat' \in [Hosts -> {Off, Putting} \cup 0..Interval]
    BY <1>2, <2>1 DEF Tick
  <2>3. key' \in Hosts \cup {None} /\ left' \in 0..Ttl
    BY LocksAssumption, <1>2 DEF Tick, TypeOK
  <2>. QED  BY <1>2, <2>2, <2>3 DEF Tick, consumers, TypeOK
<1>. QED  BY <1>1, <1>2 DEF Clock

LEMMA TypeStep ==
  ASSUME TypeOK, [Next]_all
  PROVE  TypeOK'
<1>1. ASSUME UNCHANGED <<backend, locks, faults, consumers>>  PROVE TypeOK'
  BY <1>1 DEF locks, consumers, TypeOK
<1>2. CASE Call
  BY <1>1, <1>2 DEF Call
<1>3. ASSUME NEW c \in Consumers, Requeue(c)  PROVE TypeOK'
  BY <1>1, <1>3 DEF Requeue
<1>4. ASSUME NEW h \in Hosts, Stop(h)  PROVE TypeOK'
  <2>1. beat' \in [Hosts -> {Off, Putting} \cup 0..Interval]
    BY <1>4 DEF Stop, HeartbeatsWithout, TypeOK
  <2>2. pc' \in [Consumers -> Points]
    BY <1>4 DEF Stop, TypeOK, Points
  <2>. QED  BY <1>4, <2>1, <2>2 DEF Stop, TypeOK
<1>5. ASSUME NEW h \in Hosts, Crash(h)  PROVE TypeOK'
  BY <1>5 DEF Crash, TypeOK
<1>6. CASE UNCHANGED all
  BY <1>1, <1>6 DEF all
<1>. QED  BY <1>2, <1>3, <1>4, <1>5, <1>6, OfHosts, HostTypes, ConsumerTypes, ClockTypes DEF Next

\* The state stays well formed.
THEOREM WorkersTypeCorrect == Spec => []TypeOK
<1>1. Init => TypeOK
  <2>1. Interval \in 0..Interval /\ 0 \in 0..Ttl /\ 0 \in 0..MaxFaults
    BY LocksAssumption, IntervalType
  <2>. QED  BY <2>1 DEF Init, LocksInit, TypeOK, Points
<1>2. TypeOK /\ [Next]_all => TypeOK'
  BY TypeStep
<1>. QED  BY <1>1, <1>2, PTL DEF Spec

-----------------------------------------------------------------------------
(* The lease.                                                              *)

\* No pass outlives a lease of Valkey, and a lease of NATS outlasts a refresh
\* that is lost as often as messages can be.
LeaseSuffices == MayOutlive = FALSE /\ Interval >= 1 /\ (MaxFaults + 1) * Interval < Ttl

\* The consumers that rely on the lock, and the ticks until a host's next refresh.
Holders == {c \in Consumers : Alive(Of(c)) /\ pc[c] \in {"insert", "pass", "delete"}}
Due(h) == IF beat[h] = Putting THEN 0 ELSE beat[h]

\* What has to be left for the refreshes that can still be lost.
Reserve(f) == (MaxFaults - f) * Interval

\* No host was stopped in the middle of its work or struck a lock it has.
Clean == dirty = {} /\ struck = {}

\* The key of a holder does not expire before its next refresh, nor before as
\* many more as can be lost; so nobody else becomes a holder.
LeaseInv ==
  /\ backend = "memory" => left = 0
  /\ backend # "memory" => (key = None <=> left = 0)
  /\ backend # "nats" => \A h \in Hosts : beat[h] = Off
  /\ backend # "nats" => \A c \in Consumers : pc[c] \notin {"insert", "delete"}
  /\ backend # "nats" => \A c \in Holders : key = Of(c)
  /\ \A c \in Consumers : Of(c) \in stopped => pc[c] = "idle" \/ Of(c) \in dirty
  /\ Clean /\ backend = "nats" =>
       /\ \A h \in Hosts : Running(h) => beat[h] # Off /\ beat[h] # 0
       /\ \A c \in Holders : (pc[c] # "insert" => Of(c) \in held) /\ left > Due(Of(c)) + Reserve(faults)
  /\ Clean \/ backend # "nats" => \A c, d \in Holders : c = d

LEMMA ReserveType ==
  ASSUME LeaseSuffices, NEW f \in 0..MaxFaults
  PROVE  /\ Reserve(f) \in Nat /\ Reserve(f) + Interval < Ttl
         /\ f < MaxFaults => Reserve(f) = Reserve(f + 1) + Interval
<1>0. MaxFaults \in Nat /\ Interval \in Nat /\ Ttl \in Nat /\ f \in Nat /\ MaxFaults - f \in Nat
  BY LocksAssumption, IntervalType
<1>1. (MaxFaults - f) * Interval \in Nat /\ f * Interval \in Nat
  BY <1>0
<1>2. (MaxFaults + 1) * Interval = (MaxFaults - f) * Interval + f * Interval + Interval
  BY <1>0
<1>3. (MaxFaults - f) * Interval = (MaxFaults - (f + 1)) * Interval + Interval
  BY <1>0
<1>. QED  BY <1>0, <1>1, <1>2, <1>3 DEF Reserve, LeaseSuffices

LEMMA ReserveFalls ==
  ASSUME LeaseSuffices, TypeOK, Fault \/ NoFault
  PROVE  Reserve(faults') <= Reserve(faults) /\ Reserve(faults') \in Nat /\ Reserve(faults) \in Nat
<1>1. faults \in 0..MaxFaults /\ faults' \in 0..MaxFaults /\ faults' \in {faults, faults + 1}
  BY LocksAssumption DEF TypeOK, Fault, NoFault
<1>2. Reserve(faults) \in Nat /\ Reserve(faults') \in Nat /\ Interval \in Nat
  BY <1>1, ReserveType, IntervalType
<1>3. CASE faults' = faults
  BY <1>2, <1>3
<1>4. CASE faults' = faults + 1
  <2>1. Reserve(faults) = Reserve(faults + 1) + Interval
    BY <1>1, <1>4, ReserveType, LocksAssumption
  <2>. QED  BY <1>2, <1>4, <2>1
<1>. QED  BY <1>1, <1>3, <1>4

LEMMA DueType ==
  ASSUME TypeOK, NEW h \in Hosts, beat[h] # Off
  PROVE  Due(h) \in 0..Interval
BY IntervalType DEF TypeOK, Due

\* A step that leaves the lock alone and makes no new holder.
LEMMA LeaseUntouched ==
  ASSUME LeaseSuffices, TypeOK, LeaseInv, Fault \/ NoFault,
         UNCHANGED <<backend, locks, stopped, crashed, dirty, struck>>,
         \A c \in Consumers : \/ pc'[c] = pc[c]
                              \/ /\ pc[c] # "idle" \/ Running(Of(c))
                                 /\ pc'[c] \notin {"insert", "pass", "delete"}
  PROVE  LeaseInv'
<1>0. \A c \in Consumers : Of(c) \in Hosts
  BY OfHosts
<1>1. Reserve(faults') <= Reserve(faults) /\ Reserve(faults') \in Nat /\ Reserve(faults) \in Nat
  BY ReserveFalls
<1>2. \A c \in Holders' : c \in Holders /\ pc'[c] = pc[c]
  BY DEF Holders, Alive
<1>3. \A c \in Consumers : Of(c) \in stopped' => pc'[c] = "idle" \/ Of(c) \in dirty'
  BY DEF LeaseInv, Running, TypeOK
<1>4. ASSUME Clean', backend' = "nats", NEW c \in Holders'
      PROVE  (pc'[c] # "insert" => Of(c) \in held') /\ left' > Due(Of(c))' + Reserve(faults')
  <2>0. Clean /\ backend = "nats"
    BY <1>4 DEF Clean
  <2>1. c \in Holders /\ c \in Consumers
    BY <1>2 DEF Holders
  <2>2. (pc[c] # "insert" => Of(c) \in held) /\ left > Due(Of(c)) + Reserve(faults)
    BY <2>0, <2>1 DEF LeaseInv
  <2>3. beat[Of(c)] # Off
    BY <1>0, <2>0, <2>1 DEF LeaseInv, Holders, Running, Alive, Clean
  <2>4. Due(Of(c)) \in Nat /\ left \in Nat /\ Due(Of(c))' = Due(Of(c)) /\ left' = left
    BY <1>0, <2>1, <2>3, DueType, LocksAssumption, IntervalType DEF TypeOK, Due, locks
  <2>. QED  BY <1>1, <1>2, <2>2, <2>4 DEF locks
<1>5. \A c \in Consumers : pc'[c] \in {"insert", "delete"} => pc[c] = pc'[c]
  OBVIOUS
<1>. QED  BY <1>2, <1>3, <1>4, <1>5 DEF LeaseInv, locks, Running, Clean

\* Without a host that stopped in the middle of its work, whoever works runs.
LEMMA WorkersRun ==
  ASSUME TypeOK, LeaseInv, Clean, NEW c \in Consumers, Alive(Of(c)), pc[c] # "idle"
  PROVE  Running(Of(c))
BY DEF LeaseInv, Running, Alive, Clean

\* Somebody with the lock has a key that has not expired.
LEMMA HoldersKey ==
  ASSUME LeaseSuffices, TypeOK, LeaseInv, NEW c \in Holders, Clean \/ backend # "nats"
  PROVE  key # None /\ (backend # "memory" => left > 0)
<1>0. c \in Consumers /\ Of(c) \in Hosts /\ Of(c) # None /\ Alive(Of(c)) /\ pc[c] # "idle" /\ left \in Nat
  BY NobodyAssumption, LocksAssumption, OfHosts DEF Holders, TypeOK
<1>1. CASE backend # "nats"
  BY <1>0, <1>1 DEF LeaseInv
<1>2. CASE backend = "nats" /\ Clean
  <2>1. beat[Of(c)] # Off
    BY <1>0, <1>2, WorkersRun DEF LeaseInv
  <2>2. Due(Of(c)) \in Nat /\ Reserve(faults) \in Nat
    BY <1>0, <2>1, DueType, IntervalType, ReserveType DEF TypeOK
  <2>3. left > Due(Of(c)) + Reserve(faults)
    BY <1>2 DEF LeaseInv
  <2>. QED  BY <1>0, <1>2, <2>2, <2>3 DEF LeaseInv
<1>. QED  BY <1>1, <1>2

\* After this nobody has the lock.
LEMMA LeaseFree ==
  ASSUME TypeOK, LeaseInv, UNCHANGED <<backend, beat, stopped, crashed, dirty, struck>>,
         Clean \/ backend # "nats" => Holders' = {},
         backend = "memory" => left' = 0,
         backend # "memory" => (key' = None <=> left' = 0),
         backend # "nats" => \A c \in Consumers : pc'[c] \notin {"insert", "delete"},
         \A c \in Consumers : Of(c) \in stopped => pc'[c] = "idle" \/ Of(c) \in dirty
  PROVE  LeaseInv'
BY DEF LeaseInv, Running, Clean

LEMMA LeaseAcquire ==
  ASSUME LeaseSuffices, TypeOK, LeaseInv, NEW c \in Consumers, Acquire(c)
  PROVE  LeaseInv'
<1>0. /\ key = None /\ key' = Of(c) /\ left' = (IF backend = "memory" THEN 0 ELSE Ttl) /\ UNCHANGED <<held, beat, faults>>
      /\ UNCHANGED <<backend, stopped, crashed, dirty, struck>>
      /\ pc[c] = "have" /\ Alive(Of(c)) /\ pc'[c] = (IF backend = "nats" THEN "insert" ELSE "pass")
      /\ \A d \in Consumers \ {c} : pc'[d] = pc[d]
  BY DEF Acquire, acquire_lock, NoFault, Goes, Rest, TypeOK
<1>1. Of(c) # None /\ Of(c) \in Hosts /\ Ttl \in Nat /\ Ttl # 0
  BY NobodyAssumption, LocksAssumption, OfHosts
<1>2. Clean \/ backend # "nats" => Holders = {}
  BY <1>0, HoldersKey
<1>3. Clean \/ backend # "nats" => Holders' = {c}
  BY <1>0, <1>2 DEF Holders, Alive
<1>4. ASSUME Clean, backend = "nats"  PROVE left' > Due(Of(c))' + Reserve(faults')
  <2>1. beat[Of(c)] # Off
    BY <1>0, <1>1, <1>4, WorkersRun DEF LeaseInv
  <2>2. Due(Of(c)) \in 0..Interval /\ Due(Of(c))' = Due(Of(c))
    BY <1>0, <1>1, <2>1, DueType DEF Due
  <2>3. Reserve(faults) \in Nat /\ Reserve(faults) + Interval < Ttl
    BY ReserveType DEF TypeOK
  <2>. QED  BY <1>0, <1>1, <1>4, <2>2, <2>3, IntervalType
<1>5. \A d \in Consumers : Of(d) \in stopped => pc'[d] = "idle" \/ Of(d) \in dirty
  BY <1>0 DEF LeaseInv, TypeOK
<1>6. backend # "nats" => \A d \in Consumers : pc'[d] \notin {"insert", "delete"}
  BY <1>0 DEF LeaseInv
<1>. QED  BY <1>0, <1>1, <1>3, <1>4, <1>5, <1>6 DEF LeaseInv, Running, Clean

\* The queue's tasks, and what comes to a consumer.
LEMMA LeaseHost ==
  ASSUME LeaseSuffices, TypeOK, LeaseInv, NEW h \in Hosts,
         Deliver(h) \/ Dequeue(h) \/ Reply(h) \/ ReplyLost(h) \/ (h \in EventHosts /\ Event(h))
  PROVE  LeaseInv'
<1>. DEFINE c == <<h, "workflow">>
<1>0. c \in Consumers /\ Of(c) = h
  BY OfHosts
<1>. HIDE DEF c
<1>1. CASE Deliver(h)
  <2>1. Fault \/ NoFault
    BY <1>1 DEF Deliver, NatsDeliver
  <2>. QED  BY <1>1, <2>1, LeaseUntouched DEF Deliver, consumers
<1>2. CASE Dequeue(h)
  <2>1. pc[c] = "idle" /\ Running(h) /\ pc'[c] \in {"popping", "have"} /\ \A d \in Consumers \ {c} : pc'[d] = pc[d]
    BY <1>0, <1>2 DEF Dequeue, Goes, TypeOK, c
  <2>. QED  BY <1>0, <1>2, <2>1, LeaseUntouched DEF Dequeue, Rest, NoFault
<1>3. CASE Reply(h)
  <2>1. pc[c] # "idle" /\ pc'[c] = "have" /\ \A d \in Consumers \ {c} : pc'[d] = pc[d]
    BY <1>0, <1>3 DEF Reply, Goes, TypeOK, c
  <2>. QED  BY <1>0, <1>3, <2>1, LeaseUntouched DEF Reply, Rest, NoFault
<1>4. CASE ReplyLost(h)
  <2>1. pc[c] # "idle" /\ pc'[c] = "idle" /\ \A d \in Consumers \ {c} : pc'[d] = pc[d]
    BY <1>0, <1>4 DEF ReplyLost, Goes, TypeOK, c
  <2>. QED  BY <1>0, <1>4, <2>1, LeaseUntouched DEF ReplyLost, Rest
<1>5. CASE h \in EventHosts /\ Event(h)
  <2>. DEFINE e == <<h, "event">>
  <2>0. e \in Consumers /\ Of(e) = h
    BY <1>5, OfHosts
  <2>1. pc[e] = "idle" /\ Running(h) /\ pc'[e] = "have" /\ \A d \in Consumers \ {e} : pc'[d] = pc[d]
    BY <1>5, <2>0 DEF Event, Goes, TypeOK
  <2>. HIDE DEF e
  <2>. QED  BY <1>5, <2>0, <2>1, LeaseUntouched DEF Event, Rest, NoFault
<1>. QED  BY <1>1, <1>2, <1>3, <1>4, <1>5

LEMMA LeaseConsumer ==
  ASSUME LeaseSuffices, TypeOK, LeaseInv, NEW c \in Consumers, Consumer(c) \/ AcquireFails(c)
  PROVE  LeaseInv'
<1>0. Of(c) \in Hosts /\ \A d \in Consumers : Of(d) \in Hosts
  BY OfHosts
<1>3. CASE AcquireBusy(c)
  <2>1. pc[c] # "idle" /\ pc'[c] = "idle" /\ \A d \in Consumers \ {c} : pc'[d] = pc[d]
    BY <1>3 DEF AcquireBusy, Goes, TypeOK
  <2>. QED  BY <1>3, <2>1, LeaseUntouched DEF AcquireBusy, Rest, NoFault
<1>4. CASE AcquireFails(c) /\ UNCHANGED locks
  <2>1. pc[c] # "idle" /\ pc'[c] = "idle" /\ \A d \in Consumers \ {c} : pc'[d] = pc[d]
    BY <1>4 DEF AcquireFails, Goes, TypeOK
  <2>. QED  BY <1>4, <2>1, LeaseUntouched DEF AcquireFails, Rest
<1>5. CASE AcquireFails(c) /\ acquire_lock(Of(c))
  <2>1. /\ key = None /\ key' = Of(c) /\ Of(c) # None /\ left' = Ttl /\ Ttl # 0 /\ backend # "memory" /\ UNCHANGED <<beat>>
        /\ UNCHANGED <<backend, stopped, crashed, dirty, struck>>
        /\ pc'[c] = "idle" /\ \A d \in Consumers \ {c} : pc'[d] = pc[d]
    BY <1>0, <1>5, NobodyAssumption, LocksAssumption DEF AcquireFails, acquire_lock, Goes, Rest, TypeOK
  <2>2. Clean \/ backend # "nats" => Holders = {}
    BY <2>1, HoldersKey
  <2>3. Holders' \subseteq Holders
    BY <2>1 DEF Holders, Alive
  <2>4. \A d \in Consumers : Of(d) \in stopped => pc'[d] = "idle" \/ Of(d) \in dirty
    BY <2>1 DEF LeaseInv, TypeOK
  <2>5. backend # "nats" => \A d \in Consumers : pc'[d] \notin {"insert", "delete"}
    BY <2>1 DEF LeaseInv
  <2>. QED  BY <2>1, <2>2, <2>3, <2>4, <2>5, LeaseFree
<1>6. CASE ListLock(c)
  <2>1. /\ UNCHANGED <<backend, key, left, beat, faults, stopped, crashed, dirty, struck>> /\ held' = held \cup {Of(c)}
        /\ pc[c] = "insert" /\ pc'[c] = "pass" /\ \A d \in Consumers \ {c} : pc'[d] = pc[d]
    BY <1>6 DEF ListLock, Insert, Goes, Rest, TypeOK
  <2>2. Holders' = Holders
    BY <2>1 DEF Holders, Alive
  <2>3. \A h \in Hosts : Due(h)' = Due(h)
    BY <2>1 DEF Due
  <2>4. \A d \in Consumers : Of(d) \in stopped => pc'[d] = "idle" \/ Of(d) \in dirty
    BY <2>1 DEF LeaseInv, TypeOK
  <2>5. backend = "nats"
    BY <2>1 DEF LeaseInv
  <2>6. \A d \in Holders : d \in Consumers
    BY DEF Holders
  <2>. QED  BY <1>0, <2>1, <2>2, <2>3, <2>4, <2>5, <2>6 DEF LeaseInv, Running, Clean
<1>7. CASE Release(c)
  <2>0. pc[c] = "pass" /\ Alive(Of(c)) /\ c \in Holders /\ UNCHANGED <<backend, stopped, crashed, dirty, struck, beat, held>>
        /\ \A d \in Consumers \ {c} : pc'[d] = pc[d]
    BY <1>7 DEF Release, Goes, Holders, Rest, MemRelease, ValkeyRelease, locks, TypeOK
  <2>1. \A d \in Consumers : Of(d) \in stopped => pc'[d] = "idle" \/ Of(d) \in dirty
    BY <2>0 DEF LeaseInv, TypeOK
  <2>2. CASE backend # "nats" /\ ~UNCHANGED locks
    <3>1. key = Of(c) /\ (\A d \in Holders : d = c)
      BY <2>0, <2>2 DEF LeaseInv
    <3>2. pc'[c] = "idle" /\ key' = None /\ left' = 0
      BY <2>2, <3>1, <1>7 DEF Release, Goes, MemRelease, ValkeyRelease, TypeOK
    <3>3. Holders' = {}
      BY <2>0, <3>1, <3>2 DEF Holders, Alive
    <3>4. \A d \in Consumers : pc'[d] \notin {"insert", "delete"}
      BY <2>0, <2>2, <3>2 DEF LeaseInv
    <3>. QED  BY <2>0, <2>1, <2>2, <3>2, <3>3, <3>4, LeaseFree
  <2>3. CASE UNCHANGED locks /\ pc'[c] # "delete"
    <3>1. pc'[c] \in {"idle", "forget"} /\ (Fault \/ NoFault)
      BY <2>3, <1>7 DEF Release, Goes, TypeOK
    <3>. QED  BY <2>0, <2>3, <3>1, LeaseUntouched
  <2>4. CASE UNCHANGED locks /\ pc'[c] = "delete"
    <3>1. backend = "nats" /\ faults' = faults
      BY <2>4, <1>7 DEF Release, Goes, NoFault, TypeOK
    <3>2. Holders' = Holders /\ \A h \in Hosts : Due(h)' = Due(h)
      BY <2>0, <2>4 DEF Holders, Alive, Due
    <3>3. \A d \in Holders : d \in Consumers
      BY DEF Holders
    <3>. QED  BY <1>0, <2>0, <2>1, <2>4, <3>1, <3>2, <3>3 DEF LeaseInv, Running, Clean, locks
  <2>5. backend # "nats" \/ UNCHANGED locks
    BY <1>7 DEF Release
  <2>. QED  BY <2>2, <2>3, <2>4, <2>5
<1>8. CASE Delete(c)
  <2>0. pc[c] = "delete" /\ Alive(Of(c)) /\ c \in Holders /\ UNCHANGED <<backend, stopped, crashed, dirty, struck, beat, held>>
        /\ pc'[c] = "forget" /\ \A d \in Consumers \ {c} : pc'[d] = pc[d]
    BY <1>8 DEF Delete, Goes, Holders, Rest, NatsDelete, locks, TypeOK
  <2>1. backend = "nats" /\ \A d \in Consumers : Of(d) \in stopped => pc'[d] = "idle" \/ Of(d) \in dirty
    BY <2>0 DEF LeaseInv, TypeOK
  <2>2. CASE NatsDelete
    <3>1. Clean => \A d \in Holders : d = c
      BY <2>0, <2>1 DEF LeaseInv
    <3>2. Clean => Holders' = {}
      BY <2>0, <3>1 DEF Holders, Alive
    <3>. QED  BY <2>0, <2>1, <2>2, <3>2, LeaseFree DEF NatsDelete
  <2>3. CASE UNCHANGED locks /\ Fault
    BY <2>0, <2>3, LeaseUntouched
  <2>. QED  BY <1>8, <2>2, <2>3 DEF Delete
<1>9. CASE Forget(c)
  <2>0. /\ pc[c] = "forget" /\ pc'[c] = "idle" /\ UNCHANGED <<backend, stopped, crashed, dirty, beat, key, left, faults>>
        /\ held' = held \ {Of(c)} /\ \A d \in Consumers \ {c} : pc'[d] = pc[d]
        /\ struck' = (IF \E d \in Consumers : Of(d) = Of(c) /\ pc[d] \in {"pass", "delete"}
                     THEN struck \cup {Of(c)} ELSE struck)
    BY <1>9 DEF Forget, NatsForget, Goes, Rest, TypeOK
  <2>1. Holders' = Holders /\ c \notin Holders /\ (\A d \in Holders : d \in Consumers) /\ \A h \in Hosts : Due(h)' = Due(h)
    BY <2>0 DEF Holders, Alive, Due
  <2>2. \A d \in Consumers : Of(d) \in stopped => pc'[d] = "idle" \/ Of(d) \in dirty
    BY <2>0 DEF LeaseInv, TypeOK
  <2>3. backend # "nats" => \A d \in Consumers : pc'[d] \notin {"insert", "delete"}
    BY <2>0 DEF LeaseInv
  <2>4. Clean' => Clean
    BY <2>0 DEF Clean
  <2>5. ASSUME Clean', NEW d \in Holders  PROVE pc'[d] = pc[d] /\ (pc[d] # "insert" => Of(d) # Of(c))
    BY <2>0, <2>1, <2>5 DEF Clean, Holders
  <2>. QED  BY <1>0, <2>0, <2>1, <2>2, <2>3, <2>4, <2>5 DEF LeaseInv, Running
<1>. QED  BY <1>3, <1>4, <1>5, <1>6, <1>7, <1>8, <1>9, LeaseAcquire DEF Consumer, AcquireFails

LEMMA LeasePut ==
  ASSUME LeaseSuffices, TypeOK, LeaseInv, NEW g \in Hosts, HeartbeatPut(g, Running(g)), UNCHANGED <<queues, consumers>>
  PROVE  LeaseInv'
<1>0. UNCHANGED <<backend, held, pc, stopped, crashed, dirty, struck>> /\ beat[g] = Putting
  BY DEF HeartbeatPut, consumers
<1>1. Putting # Off /\ Off # 0 /\ Putting # 0 /\ Ttl \in Nat /\ Ttl # 0 /\ g # None /\ Interval # 0 /\ Interval \in Nat
      /\ Interval # Off /\ Interval # Putting
  BY LocksAssumption, NobodyAssumption, IntervalType DEF Putting, Off, LeaseSuffices
<1>2. backend = "nats"
  BY <1>0, <1>1 DEF LeaseInv
<1>3. /\ Holders' = Holders /\ \A h \in Hosts : Running(h)' = Running(h)
      /\ \A c \in Holders : c \in Consumers /\ Of(c) \in Hosts /\ Alive(Of(c)) /\ pc[c] # "idle"
  BY <1>0, OfHosts DEF Holders, Alive, Running
<1>4. /\ beat'[g] = IF Running(g) THEN Interval ELSE Off
      /\ \A h \in Hosts \ {g} : beat'[h] = beat[h]
  BY DEF HeartbeatPut, TypeOK
<1>5. \/ key' = g /\ left' = Ttl /\ NoFault
      \/ Fault /\ UNCHANGED <<key, left>>
  BY DEF HeartbeatPut
<1>6. key' = None <=> left' = 0
  BY <1>1, <1>2, <1>5 DEF LeaseInv
<1>7. ASSUME Clean, NEW c \in Holders  PROVE left' > Due(Of(c))' + Reserve(faults')
  <2>. DEFINE h == Of(c)
  <2>0. Running(h) /\ beat[h] # Off /\ h \in Hosts
    BY <1>2, <1>3, <1>7, WorkersRun DEF LeaseInv
  <2>1. left > Due(h) + Reserve(faults) /\ left \in Nat
    BY <1>2, <1>7, LocksAssumption DEF LeaseInv, TypeOK
  <2>. HIDE DEF h
  <2>2. Due(h) \in 0..Interval
    BY <2>0, DueType
  <2>3. Due(h)' = (IF h = g THEN Interval ELSE Due(h)) /\ (h = g => Due(h) = 0)
    BY <1>0, <1>1, <1>4, <2>0 DEF Due
  <2>4. Reserve(faults') <= Reserve(faults) /\ Reserve(faults') \in Nat /\ Reserve(faults) \in Nat
    BY <1>5, ReserveFalls
  <2>5. CASE left' = Ttl /\ NoFault
    <3>1. faults' = faults /\ Reserve(faults) + Interval < Ttl
      BY <2>5, ReserveType DEF NoFault, TypeOK
    <3>. QED  BY <1>1, <2>2, <2>3, <2>4, <2>5, <3>1 DEF h
  <2>6. CASE Fault /\ left' = left
    <3>1. Reserve(faults) = Reserve(faults') + Interval
      BY <2>6, ReserveType, LocksAssumption DEF Fault, TypeOK
    <3>. QED  BY <1>1, <2>1, <2>2, <2>3, <2>4, <2>6, <3>1 DEF h
  <2>. QED  BY <1>5, <2>5, <2>6 DEF h
<1>8. Clean => \A h \in Hosts : Running(h) => beat'[h] # Off /\ beat'[h] # 0
  BY <1>1, <1>2, <1>4 DEF LeaseInv
<1>. QED  BY <1>0, <1>2, <1>3, <1>6, <1>7, <1>8 DEF LeaseInv, Clean

LEMMA LeaseTick ==
  ASSUME LeaseSuffices, TypeOK, LeaseInv, UNCHANGED <<queues, consumers>>,
         Tick({c \in Consumers : pc[c] = "insert" /\ Alive(Of(c))}, {Of(c) : c \in Passing})
  PROVE  LeaseInv'
<1>0. UNCHANGED <<backend, held, faults, pc, stopped, crashed, dirty, struck>>
  BY DEF Tick, consumers
<1>1. /\ Off = -1 /\ Putting = -2 /\ left \in Nat /\ Interval \in Nat /\ Interval >= 1
      /\ \A h \in Hosts : beat[h] \in {Off, Putting} \cup 0..Interval
      /\ key = None \/ key \in Hosts
  BY LocksAssumption, IntervalType DEF Off, Putting, LeaseSuffices, TypeOK
<1>2. /\ Holders' = Holders /\ \A h \in Hosts : Running(h)' = Running(h)
      /\ \A c \in Holders : c \in Consumers /\ Of(c) \in Hosts /\ Alive(Of(c)) /\ pc[c] # "idle"
  BY <1>0, OfHosts DEF Holders, Alive, Running
<1>3. (\A c \in Holders : pc[c] # "insert") /\ \A h \in Hosts : beat[h] # Putting
  BY DEF Tick, Holders
<1>4. left' = (IF left = 0 THEN 0 ELSE left - 1) /\ key' = (IF left = 1 THEN None ELSE key)
  BY DEF Tick
<1>5. \A h \in Hosts : beat'[h] = HeartbeatCopy(h)
  BY DEF Tick
<1>6. /\ \A h \in Hosts : beat[h] = Off => beat'[h] = Off
      /\ \A h \in Hosts : beat[h] # Off /\ beat[h] > 1 => beat'[h] = beat[h] - 1
      /\ \A h \in Hosts : beat[h] # Off /\ ~(beat[h] > 1) => beat'[h] = IF h \in held THEN Putting ELSE Interval
  BY <1>1, <1>5 DEF HeartbeatCopy
<1>7. backend = "memory" => left' = 0
  BY <1>4 DEF LeaseInv
<1>8. backend # "memory" => (key' = None <=> left' = 0)
  BY <1>1, <1>4 DEF LeaseInv
<1>9. backend # "nats" => \A c \in Holders : key' = Of(c)
  <2>. SUFFICES ASSUME backend # "nats", NEW c \in Holders  PROVE key' = Of(c)
    OBVIOUS
  <2>1. key = Of(c) /\ c \in Passing
    BY <1>2 DEF LeaseInv, Holders, Passing
  <2>2. CASE backend = "memory"
    BY <1>4, <2>1, <2>2 DEF LeaseInv
  <2>3. CASE backend # "memory"
    <3>1. backend = "valkey"
      BY <2>3, LocksAssumption DEF TypeOK
    <3>2. left # 1
      BY <2>1, <3>1 DEF Tick, LeaseSuffices
    <3>. QED  BY <1>4, <2>1, <3>2
  <2>. QED  BY <2>2, <2>3
<1>10. ASSUME Clean, backend = "nats", NEW c \in Holders
       PROVE  Of(c) \in held' /\ left' > Due(Of(c))' + Reserve(faults')
  <2>. DEFINE h == Of(c)
  <2>0. Running(h) /\ beat[h] # Off /\ beat[h] # 0 /\ h \in Hosts /\ h \in held /\ beat[h] \in 1..Interval
    BY <1>1, <1>2, <1>3, <1>10, WorkersRun DEF LeaseInv
  <2>1. left > beat[h] + Reserve(faults) /\ Reserve(faults) \in Nat
    BY <1>3, <1>10, <2>0, ReserveType DEF LeaseInv, Due, TypeOK
  <2>. HIDE DEF h
  <2>2. left' = left - 1
    BY <1>1, <1>4, <2>0, <2>1
  <2>3. CASE beat[h] > 1
    <3>1. Due(h)' = beat[h] - 1
      BY <1>1, <1>6, <2>0, <2>3 DEF Due
    <3>. QED  BY <1>0, <1>1, <2>0, <2>1, <2>2, <3>1 DEF h
  <2>4. CASE beat[h] = 1
    <3>1. Due(h)' = 0
      BY <1>1, <1>6, <2>0, <2>4 DEF Due
    <3>. QED  BY <1>0, <1>1, <2>0, <2>1, <2>2, <2>4, <3>1 DEF h
  <2>. QED  BY <2>0, <2>3, <2>4, <1>1 DEF h
<1>11. Clean /\ backend = "nats" => \A h \in Hosts : Running(h) => beat'[h] # Off /\ beat'[h] # 0
  <2>. SUFFICES ASSUME Clean, backend = "nats", NEW h \in Hosts, Running(h)  PROVE beat'[h] # Off /\ beat'[h] # 0
    OBVIOUS
  <2>1. beat[h] \in 1..Interval
    BY <1>1, <1>3 DEF LeaseInv
  <2>. QED  BY <1>1, <1>6, <2>1
<1>12. backend # "nats" => \A h \in Hosts : beat'[h] = Off
  BY <1>6 DEF LeaseInv
<1>. QED  BY <1>0, <1>2, <1>7, <1>8, <1>9, <1>10, <1>11, <1>12 DEF LeaseInv, Clean

LEMMA LeaseStop ==
  ASSUME LeaseSuffices, TypeOK, LeaseInv, NEW g \in Hosts, Stop(g)
  PROVE  LeaseInv'
<1>0. /\ UNCHANGED <<backend, key, left, held, faults, crashed, struck>> /\ stopped' = stopped \cup {g} /\ Running(g)
      /\ beat'[g] = (IF beat[g] = Putting THEN Putting ELSE Off) /\ \A h \in Hosts \ {g} : beat'[h] = beat[h]
      /\ dirty' = (IF \A c \in Consumers : Of(c) = g => pc[c] \in {"idle", "popping"} THEN dirty ELSE dirty \cup {g})
      /\ \A c \in Consumers : pc'[c] = (IF Of(c) = g /\ pc[c] = "popping" THEN "idle" ELSE pc[c])
  BY DEF Stop, HeartbeatsWithout, TypeOK
<1>1. \A c \in Consumers : Of(c) \in stopped' => pc'[c] = "idle" \/ Of(c) \in dirty'
  BY <1>0 DEF LeaseInv, TypeOK
<1>2. Holders' = Holders /\ (\A c \in Holders : c \in Consumers /\ Of(c) \in Hosts /\ pc'[c] = pc[c])
  BY <1>0, OfHosts DEF Holders, Alive
<1>3. backend # "nats" => (\A h \in Hosts : beat'[h] = Off) /\ \A c \in Consumers : pc'[c] \notin {"insert", "delete"}
  <2>1. Putting # Off
    BY DEF Putting, Off
  <2>. QED  BY <1>0, <2>1 DEF LeaseInv
<1>4. ASSUME Clean', backend = "nats"  PROVE Clean /\ \A c \in Holders : Of(c) # g
  BY <1>0, <1>4 DEF Holders, Clean
<1>5. ASSUME Clean', backend = "nats", NEW c \in Holders
      PROVE  (pc'[c] # "insert" => Of(c) \in held') /\ left' > Due(Of(c))' + Reserve(faults')
  <2>1. Due(Of(c))' = Due(Of(c))
    BY <1>0, <1>2, <1>4, <1>5 DEF Due
  <2>. QED  BY <1>0, <1>2, <1>4, <1>5, <2>1 DEF LeaseInv
<1>6. ASSUME Clean', backend = "nats", NEW h \in Hosts, Running(h)'  PROVE beat'[h] # Off /\ beat'[h] # 0
  BY <1>0, <1>4, <1>6 DEF LeaseInv, Running
<1>. QED  BY <1>0, <1>1, <1>2, <1>3, <1>4, <1>5, <1>6 DEF LeaseInv

LEMMA LeaseCrash ==
  ASSUME LeaseSuffices, TypeOK, LeaseInv, NEW g \in Hosts, Crash(g)
  PROVE  LeaseInv'
<1>0. /\ UNCHANGED <<backend, key, left, held, faults, stopped, pc, dirty, struck>> /\ crashed' = crashed \cup {g}
      /\ beat'[g] = Off /\ \A h \in Hosts \ {g} : beat'[h] = beat[h]
  BY DEF Crash, TypeOK
<1>1. \A c \in Holders' : c \in Holders /\ Of(c) # g /\ Of(c) \in Hosts
  BY <1>0, OfHosts DEF Holders, Alive
<1>2. \A c \in Holders' : Due(Of(c))' = Due(Of(c))
  BY <1>0, <1>1 DEF Due
<1>3. \A h \in Hosts : Running(h)' => Running(h) /\ h # g
  BY <1>0 DEF Running
<1>. QED  BY <1>0, <1>1, <1>2, <1>3 DEF LeaseInv, Clean

LEMMA LeaseStep ==
  ASSUME LeaseSuffices, TypeOK, LeaseInv, [Next]_all
  PROVE  LeaseInv'
<1>1. ASSUME UNCHANGED <<backend, locks, faults, consumers>>  PROVE LeaseInv'
  BY <1>1, LeaseUntouched DEF consumers, NoFault
<1>2. CASE Call \/ UNCHANGED all
  BY <1>1, <1>2 DEF Call, all
<1>3. ASSUME NEW c \in Consumers, Requeue(c)  PROVE LeaseInv'
  BY <1>1, <1>3 DEF Requeue
<1>4. CASE Clock
  BY <1>4, LeasePut, LeaseTick DEF Clock
<1>. QED  BY <1>2, <1>3, <1>4, OfHosts, LeaseHost, LeaseConsumer, LeaseStop, LeaseCrash DEF Next

\* However many hosts share an instance, at most one consumer of any of them
\* changes it at a time: with the memory backend, with Valkey as long as no pass
\* outlives its lease, with NATS as long as fewer refreshes are lost in a row
\* than the lease outlasts (one, with a heartbeat every third of it), no host is
\* stopped with an item in hand, and none strikes from its list a lock that its
\* other consumer has just acquired.  Hosts may crash at any point.
THEOREM OneHostPasses ==
  ASSUME LeaseSuffices
  PROVE  Spec => []OnePass
<1>1. Init => LeaseInv
  <2>. SUFFICES ASSUME Init  PROVE LeaseInv
    OBVIOUS
  <2>1. Holders = {}
    BY DEF Init, Holders
  <2>2. Interval # Off /\ Interval # 0
    BY IntervalType DEF Off, LeaseSuffices
  <2>. QED  BY <2>1, <2>2 DEF Init, LocksInit, LeaseInv, Running
<1>2. TypeOK /\ LeaseInv /\ [Next]_all => LeaseInv'
  BY LeaseStep
<1>3. TypeOK /\ LeaseInv => OnePass
  <2>. SUFFICES ASSUME TypeOK, LeaseInv, Clean  PROVE Cardinality(Passing) <= 1
    BY DEF OnePass, Clean
  <2>1. \A g, h \in Holders : g = h
    BY DEF LeaseInv
  <2>2. \A g, h \in Passing : g = h
    BY <2>1 DEF Passing, Holders
  <2>3. CASE Passing = {}
    BY <2>3, FS_EmptySet
  <2>4. CASE Passing # {}
    <3>1. PICK c : c \in Passing
      BY <2>4
    <3>2. Passing = {c}
      BY <2>2, <3>1
    <3>3. Cardinality({c}) = 1
      BY FS_Singleton
    <3>. QED  BY <3>2, <3>3
  <2>. QED  BY <2>3, <2>4
<1>. QED  BY <1>1, <1>2, <1>3, WorkersTypeCorrect, PTL DEF Spec
=============================================================================
