---------------------------- MODULE ServerProofs ----------------------------
(***************************************************************************)
(* Proofs about Server, for every number of callers, clients, steps and    *)
(* faults and every capacity: types, the order in which a client sees what *)
(* is written, and what a redelivered webhook starts.                      *)
(***************************************************************************)
EXTENDS Server, SequenceTheorems, FiniteSetTheorems, TLAPS

\* An instance of the store, and where a handler can be.
StoredInstance ==
    [by: Calls, try: Nat, why: Triggers \cup {NoTrigger}, queued: BOOLEAN]

CallPcs == {"idle", "publish", "announce", "triggers", "create", "queue", "load", "done"}

(***************************************************************************)
(* What the log store keeps for an instance.  The channel carries chunks   *)
(* of the history, in the order of their numbers; at most one chunk is in  *)
(* the history and not yet broadcast, and it is the newest.                *)
(***************************************************************************)
Rising(s) == \A j, k \in DOMAIN s : j < k => s[j].n < s[k].n

Unsent(i) == Written(i) \ Range(live[i])

LogInOrder(i) ==
    /\ Rising(live[i])
    /\ Range(live[i]) \subseteq Written(i)
    /\ \A y \in Written(i) : y.n <= chunks
    /\ \A y, z \in Unsent(i) : y = z
    /\ \A x \in Range(live[i]), y \in Unsent(i) : x.n < y.n

LogsInOrder == \A i \in DOMAIN instances : LogInOrder(i)

\* A lifecycle event carries its place on the bus.
BusNumbered == \A k \in DOMAIN bus : bus[k].n = k

(***************************************************************************)
(* What a stream has sent, and how it compares with what may still come.   *)
(***************************************************************************)
Seen(reader) == reader.got \o reader.chan

Ordered(s) == \A j, k \in DOMAIN s : j <= k => s[j].n <= s[k].n

Repeats(s) == {k \in 1..Len(s) - 1 : s[k] = s[k + 1]}

OneRepeat(s) == \A j, k \in Repeats(s) : j = k

\* Chunks that a following stream can still get from the channel.
Pending(reader) ==
    Written(reader.wf) \ {live[reader.wf][k] : k \in 1..reader.at}

\* While the history is replayed everything still to be sent is newer than
\* what was sent.
ReplayOK(reader) ==
    /\ Rising(Seen(reader)) /\ Rising(reader.replay)
    /\ Range(Seen(reader)) \cup Range(reader.replay) \subseteq Written(reader.wf)
    /\ \A x \in Range(Seen(reader)), y \in Range(reader.replay) : x.n < y.n

\* Once the stream follows, what the channel still brings is newer than what
\* was sent; only as long as nothing was sent twice, it may be just as new.
FollowOK(reader) ==
    /\ reader.at <= Len(live[reader.wf])
    /\ Range(Seen(reader)) \subseteq Written(reader.wf)
    /\ \/ /\ Rising(Seen(reader))
          /\ \A x \in Range(Seen(reader)), y \in Pending(reader) : x.n <= y.n
       \/ \A x \in Range(Seen(reader)), y \in Pending(reader) : x.n < y.n

\* A watcher has been sent events from before its place on the bus.
WatchOK(reader) ==
    /\ reader.at <= Len(bus)
    /\ Rising(Seen(reader))
    /\ \A x \in Range(Seen(reader)) : x.n <= reader.at

ReaderInOrder(reader) ==
    /\ Ordered(Seen(reader)) /\ OneRepeat(Seen(reader))
    /\ reader.phase \in {"idle", "history"} => Seen(reader) = <<>>
    /\ reader.phase \in {"history", "replay"} => reader.kind # "watch"
    /\ reader.phase = "replay" => ReplayOK(reader)
    /\ reader.phase = "live" /\ reader.kind # "watch" => FollowOK(reader)
    /\ reader.phase = "live" /\ reader.kind = "watch" => WatchOK(reader)

ReadersInOrder == \A r \in Readers : ReaderInOrder(readers[r])

(***************************************************************************)
(* What the attempt at hand of a delivery has started.  An attempt that    *)
(* can still fail, or has not reached its triggers, has started nothing;   *)
(* the triggers still to be started, and the one at hand, are not among    *)
(* those it started; and what was started before was started by an attempt *)
(* that was cut off.                                                       *)
(***************************************************************************)
Started(c) ==
    {instances[i].why : i \in {j \in DOMAIN instances :
                        instances[j].by = c /\ instances[j].try = calls[c].tries}}

Before(c) ==
    \A i \in DOMAIN instances : instances[i].by = c =>
        /\ instances[i].try <= calls[c].tries
        /\ instances[i].try # calls[c].tries => instances[i].try \in calls[c].cut

DeliveryOK(c) ==
    /\ calls[c].pc # "load"
    /\ calls[c].pc \in {"idle", "publish", "announce"} => Started(c) = {}
    /\ calls[c].pc = "done" /\ calls[c].answer \in {"error", "refused"} => Started(c) = {}
    /\ calls[c].pc = "done" /\ calls[c].answer = "gone" => calls[c].tries \in calls[c].cut
    /\ calls[c].left \cap Started(c) = {}
    /\ calls[c].pc = "create" =>
        calls[c].why \notin calls[c].left \cup Started(c)
    /\ Before(c)

DeliveriesOK == \A c \in Calls : calls[c].want.door = "forge" => DeliveryOK(c)

-----------------------------------------------------------------------------
(* Sequences of numbered items.                                            *)

LEMMA SeqRange ==
  ASSUME NEW S, NEW s \in Seq(S)
  PROVE  /\ Range(s) = {s[k] : k \in 1..Len(s)}
         /\ Range(s) \subseteq S
         /\ Len(s) \in Nat /\ DOMAIN s = 1..Len(s)
         /\ \A k \in 1..Len(s) : s[k] \in Range(s)
<1>1. Len(s) \in Nat /\ DOMAIN s = 1..Len(s) /\ \A k \in 1..Len(s) : s[k] \in S
  BY LenProperties, ElementOfSeq
<1>. QED  BY <1>1 DEF Range

LEMMA SeqAppend ==
  ASSUME NEW S, NEW s \in Seq(S), NEW x \in S
  PROVE  /\ Append(s, x) \in Seq(S)
         /\ Len(Append(s, x)) = Len(s) + 1
         /\ DOMAIN Append(s, x) = 1..Len(s) + 1
         /\ \A k \in 1..Len(s) : Append(s, x)[k] = s[k]
         /\ Append(s, x)[Len(s) + 1] = x
         /\ Range(Append(s, x)) = Range(s) \cup {x}
<1>1. /\ Append(s, x) \in Seq(S)
      /\ Len(Append(s, x)) = Len(s) + 1
      /\ \A k \in 1..Len(s) : Append(s, x)[k] = s[k]
      /\ Append(s, x)[Len(s) + 1] = x
      /\ Len(s) \in Nat
  OBVIOUS
<1>2. DOMAIN Append(s, x) = 1..Len(s) + 1
  BY <1>1, SeqRange
<1>3. 1..Len(s) + 1 = 1..Len(s) \cup {Len(s) + 1}
  BY <1>1
<1>4. Range(Append(s, x)) = Range(s) \cup {x}
  BY <1>1, <1>2, <1>3, SeqRange DEF Range
<1>. QED  BY <1>1, <1>2, <1>4

\* Items whose numbers rise are pairwise different, so they can be counted.
LEMMA RisingCounts ==
  ASSUME NEW s \in Seq(Item), Rising(s)
  PROVE  /\ IsFiniteSet(Range(s)) /\ Cardinality(Range(s)) = Len(s)
         /\ \A j, k \in 1..Len(s) : j # k => s[j] # s[k]
<1>1. Len(s) \in Nat /\ DOMAIN s = 1..Len(s) /\ s \in [1..Len(s) -> Range(s)]
  BY LenProperties DEF Range
<1>2. \A k \in 1..Len(s) : s[k].n \in Nat
  <2>1. \A k \in 1..Len(s) : s[k] \in Item  BY ElementOfSeq
  <2>. QED  BY <2>1 DEF Item
<1>3. ASSUME NEW j \in 1..Len(s), NEW k \in 1..Len(s), j # k
      PROVE  s[j] # s[k]
  <2>1. CASE j < k  BY <1>1, <1>2, <2>1 DEF Rising
  <2>2. CASE k < j  BY <1>1, <1>2, <2>2 DEF Rising
  <2>. QED  BY <1>1, <1>3, <2>1, <2>2
<1>4. s \in Bijection(1..Len(s), Range(s))
  <2>1. s \in Injection(1..Len(s), Range(s))
    BY <1>1, <1>3 DEF Injection, IsInjective
  <2>2. s \in Surjection(1..Len(s), Range(s))
    <3>1. \A x \in Range(s) : \E k \in 1..Len(s) : s[k] = x
      BY <1>1 DEF Range
    <3>. QED  BY <1>1, <3>1 DEF Surjection
  <2>. QED  BY <2>1, <2>2 DEF Bijection
<1>5. ExistsBijection(1..Len(s), Range(s))
  BY <1>4 DEF ExistsBijection
<1>. QED  BY <1>1, <1>3, <1>5, FS_NatBijection, FS_CountingElements

\* A newer item at the end keeps the numbers rising.
LEMMA RisingAppend ==
  ASSUME NEW s \in Seq(Item), Rising(s), NEW x \in Item,
         \A y \in Range(s) : y.n < x.n
  PROVE  Rising(Append(s, x))
<1>1. SUFFICES ASSUME NEW j \in 1..Len(s) + 1, NEW k \in 1..Len(s) + 1, j < k
               PROVE  Append(s, x)[j].n < Append(s, x)[k].n
  BY SeqAppend DEF Rising
<1>2. Len(s) \in Nat /\ DOMAIN s = 1..Len(s) /\ j \in 1..Len(s)
  BY <1>1, SeqRange
<1>3. Append(s, x)[j] = s[j] /\ s[j] \in Range(s)
  BY <1>2, SeqAppend, SeqRange
<1>4. CASE k = Len(s) + 1
  BY <1>3, <1>4, SeqAppend
<1>5. CASE k \in 1..Len(s)
  BY <1>1, <1>2, <1>3, <1>5, SeqAppend DEF Rising
<1>. QED  BY <1>2, <1>4, <1>5

LEMMA RisingTail ==
  ASSUME NEW s \in Seq(Item), s # <<>>, Rising(s)
  PROVE  /\ Tail(s) \in Seq(Item) /\ Head(s) \in Item /\ Rising(Tail(s))
         /\ Range(Tail(s)) \cup {Head(s)} = Range(s)
         /\ \A y \in Range(Tail(s)) : Head(s).n < y.n
<1>1. /\ Head(s) \in Item /\ Tail(s) \in Seq(Item) /\ Len(Tail(s)) = Len(s) - 1
      /\ \A k \in 1..Len(Tail(s)) : Tail(s)[k] = s[k + 1]
      /\ Head(s) = s[1] /\ Len(s) \in Nat \ {0}
  BY HeadTailProperties, EmptySeq
<1>2. DOMAIN s = 1..Len(s) /\ DOMAIN Tail(s) = 1..Len(s) - 1
  BY <1>1, SeqRange
<1>3. Rising(Tail(s))
  <2>1. SUFFICES ASSUME NEW j \in 1..Len(s) - 1, NEW k \in 1..Len(s) - 1, j < k
                 PROVE  Tail(s)[j].n < Tail(s)[k].n
    BY <1>2 DEF Rising
  <2>2. j + 1 \in 1..Len(s) /\ k + 1 \in 1..Len(s) /\ j + 1 < k + 1
    BY <1>1, <2>1
  <2>. QED  BY <1>1, <1>2, <2>1, <2>2 DEF Rising
<1>4. ASSUME NEW y \in Range(s) PROVE y \in Range(Tail(s)) \/ y = Head(s)
  <2>1. PICK k \in 1..Len(s) : y = s[k]  BY <1>2 DEF Range
  <2>2. CASE k = 1  BY <1>1, <2>1, <2>2
  <2>3. CASE k # 1
    <3>1. k - 1 \in 1..Len(s) - 1 /\ (k - 1) + 1 = k  BY <1>1, <2>3
    <3>. QED  BY <1>1, <1>2, <2>1, <3>1 DEF Range
  <2>. QED  BY <2>2, <2>3
<1>5. ASSUME NEW y \in Range(Tail(s)) PROVE y \in Range(s) /\ Head(s).n < y.n
  <2>1. PICK k \in 1..Len(s) - 1 : y = Tail(s)[k]  BY <1>2 DEF Range
  <2>2. k + 1 \in 1..Len(s) /\ 1 \in 1..Len(s) /\ 1 < k + 1 /\ y = s[k + 1]
    BY <1>1, <2>1
  <2>. QED  BY <1>1, <1>2, <2>2 DEF Range, Rising
<1>6. Head(s) \in Range(s)
  <2>1. 1 \in 1..Len(s)  BY <1>1
  <2>. QED  BY <1>1, <1>2, <2>1 DEF Range
<1>. QED  BY <1>1, <1>3, <1>4, <1>5, <1>6

\* Sending at most as old an item keeps the order; rising numbers mean that
\* nothing is there twice.
LEMMA OrderedAppend ==
  ASSUME NEW s \in Seq(Item), Ordered(s), NEW x \in Item,
         \A y \in Range(s) : y.n <= x.n
  PROVE  Ordered(Append(s, x))
<1>1. SUFFICES ASSUME NEW j \in 1..Len(s) + 1, NEW k \in 1..Len(s) + 1, j <= k
               PROVE  Append(s, x)[j].n <= Append(s, x)[k].n
  BY SeqAppend DEF Ordered
<1>2. Len(s) \in Nat /\ DOMAIN s = 1..Len(s) /\ x.n \in Nat
  BY SeqRange DEF Item
<1>3. CASE j = Len(s) + 1
  <2>1. k = j  BY <1>1, <1>2, <1>3
  <2>. QED  BY <1>2, <1>3, <2>1, SeqAppend
<1>4. CASE j \in 1..Len(s)
  <2>1. Append(s, x)[j] = s[j] /\ s[j] \in Range(s)
    BY <1>2, <1>4, SeqAppend, SeqRange
  <2>2. CASE k = Len(s) + 1
    BY <2>1, <2>2, SeqAppend
  <2>3. CASE k \in 1..Len(s)
    BY <1>1, <1>2, <1>4, <2>1, <2>3, SeqAppend DEF Ordered
  <2>. QED  BY <1>2, <2>2, <2>3
<1>. QED  BY <1>2, <1>3, <1>4

LEMMA RisingIsOrdered ==
  ASSUME NEW s \in Seq(Item), Rising(s)
  PROVE  Ordered(s) /\ Repeats(s) = {} /\ OneRepeat(s)
<1>1. Len(s) \in Nat /\ DOMAIN s = 1..Len(s)
  BY SeqRange
<1>2. \A k \in 1..Len(s) : s[k].n \in Nat
  <2>1. \A k \in 1..Len(s) : s[k] \in Item  BY ElementOfSeq
  <2>. QED  BY <2>1 DEF Item
<1>3. Ordered(s)
  BY <1>1, <1>2 DEF Rising, Ordered
<1>4. ASSUME NEW k \in Repeats(s) PROVE FALSE
  <2>1. k \in 1..Len(s) /\ k + 1 \in 1..Len(s) /\ k # k + 1 /\ s[k] = s[k + 1]
    BY <1>1, <1>4 DEF Repeats
  <2>. QED  BY <2>1, RisingCounts
<1>. QED  BY <1>3, <1>4 DEF OneRepeat

\* Nothing but the last item can be repeated by one that is sent now.
LEMMA RepeatsAppend ==
  ASSUME NEW s \in Seq(Item), NEW x \in Item
  PROVE  /\ Repeats(Append(s, x)) \subseteq Repeats(s) \cup {Len(s)}
         /\ (\A y \in Range(s) : y # x) => Repeats(Append(s, x)) = Repeats(s)
<1>. DEFINE t == Append(s, x)
<1>1. /\ Len(s) \in Nat /\ Len(t) = Len(s) + 1 /\ DOMAIN s = 1..Len(s)
      /\ \A k \in 1..Len(s) : t[k] = s[k]
      /\ t[Len(s) + 1] = x
  BY SeqRange, SeqAppend
<1>. HIDE DEF t
<1>2. ASSUME NEW k \in 1..Len(s) - 1
      PROVE  t[k] = t[k + 1] <=> s[k] = s[k + 1]
  <2>1. k \in 1..Len(s) /\ k + 1 \in 1..Len(s)  BY <1>1
  <2>. QED  BY <1>1, <2>1
<1>3. Len(t) - 1 = Len(s)
  BY <1>1
<1>4. Repeats(t) = {k \in 1..Len(s) : t[k] = t[k + 1]}
  BY <1>3 DEF Repeats
<1>5. Len(s) \in Nat
  BY <1>1
<1>6. /\ \A k \in 1..Len(s) : k \in 1..Len(s) - 1 \/ k = Len(s)
      /\ \A k \in 1..Len(s) - 1 : k \in 1..Len(s)
  BY <1>5
<1>7. Repeats(t) \subseteq Repeats(s) \cup {Len(s)}
  BY <1>2, <1>4, <1>6 DEF Repeats
<1>8. Repeats(s) \subseteq Repeats(t)
  BY <1>2, <1>4, <1>6 DEF Repeats
<1>9. ASSUME \A y \in Range(s) : y # x, Len(s) \in Repeats(t)
      PROVE  FALSE
  <2>1. Len(s) \in 1..Len(s) /\ t[Len(s)] = x
    BY <1>1, <1>4, <1>9
  <2>. QED  BY <1>1, <1>9, <2>1 DEF Range
<1>. QED  BY <1>7, <1>8, <1>9 DEF t

-----------------------------------------------------------------------------
(* The history, by time.                                                   *)

LEMMA LogTypes ==
  ASSUME TypeOK, NEW i \in DOMAIN instances
  PROVE  /\ i \in DOMAIN history /\ i \in DOMAIN live
         /\ history[i] \in [Steps -> Seq(Item)] /\ live[i] \in Seq(Item)
         /\ Written(i) \subseteq Item
<1>1. /\ Len(instances) \in Nat /\ DOMAIN instances = 1..Len(instances)
      /\ DOMAIN history = 1..Len(history) /\ DOMAIN live = 1..Len(live)
  BY LenProperties DEF TypeOK
<1>2. /\ i \in 1..Len(history) /\ i \in 1..Len(live)
      /\ history \in Seq([Steps -> Seq(Item)]) /\ live \in Seq(Seq(Item))
  BY <1>1 DEF TypeOK
<1>3. history[i] \in [Steps -> Seq(Item)] /\ live[i] \in Seq(Item)
  BY <1>2, ElementOfSeq
<1>4. \A s \in Steps : Range(history[i][s]) \subseteq Item
  BY <1>3, SeqRange
<1>. QED  BY <1>1, <1>2, <1>3, <1>4 DEF Written

\* get_history orders the chunks of an instance, leaves none out and repeats
\* none: the chunks that were broadcast, then the one that was not.
LEMMA HistorySorted ==
  ASSUME TypeOK, NEW i \in DOMAIN instances, LogInOrder(i)
  PROVE  /\ get_history(i) \in Seq(Item)
         /\ Rising(get_history(i))
         /\ Range(get_history(i)) = Written(i)
<1>1. live[i] \in Seq(Item) /\ Written(i) \subseteq Item
  BY LogTypes
<1>2. \E w \in Seq(Item) : Rising(w) /\ Range(w) = Written(i)
  <2>1. CASE Unsent(i) = {}
    <3>1. Range(live[i]) = Written(i)
      BY <2>1 DEF LogInOrder, Unsent
    <3>. QED  BY <1>1, <3>1 DEF LogInOrder
  <2>2. ASSUME NEW y \in Unsent(i) PROVE \E w \in Seq(Item) : Rising(w) /\ Range(w) = Written(i)
    <3>1. y \in Item /\ Range(live[i]) \cup {y} = Written(i)
      BY <1>1, <2>2 DEF LogInOrder, Unsent
    <3>2. Rising(Append(live[i], y))
      BY <1>1, <2>2, <3>1, RisingAppend DEF LogInOrder
    <3>3. live[i] \in Seq(Item) /\ y \in Item
      BY <1>1, <3>1
    <3>4. /\ Append(live[i], y) \in Seq(Item)
          /\ Range(Append(live[i], y)) = Range(live[i]) \cup {y}
      BY <3>3, SeqAppend
    <3>. QED  BY <3>1, <3>2, <3>4
  <2>. QED  BY <2>1, <2>2
<1>3. PICK w \in Seq(Item) : Rising(w) /\ Range(w) = Written(i)
  BY <1>2
<1>. DEFINE D == 1..Cardinality(Written(i))
<1>4. /\ IsFiniteSet(Written(i)) /\ Cardinality(Written(i)) = Len(w)
      /\ \A j, k \in 1..Len(w) : j # k => w[j] # w[k]
  BY <1>3, RisingCounts
<1>5. w \in [D -> Written(i)] /\ \A j, k \in D : j # k => w[j] # w[k]
  <2>1. w \in [1..Len(w) -> Range(w)]  BY <1>3, LenProperties DEF Range
  <2>. QED  BY <1>3, <1>4, <2>1
<1>6. w \in SetToSeqs(Written(i)) /\ \A j, k \in DOMAIN w : j < k => w[j].n < w[k].n
  BY <1>3, <1>5 DEF SetToSeqs, Rising
<1>. DEFINE s == get_history(i)
<1>7. s \in SetToSeqs(Written(i)) /\ \A j, k \in DOMAIN s : j < k => s[j].n < s[k].n
  BY <1>6 DEF get_history
<1>8. s \in [D -> Written(i)] /\ \A j, k \in D : j # k => s[j] # s[k]
  BY <1>7 DEF SetToSeqs
<1>. HIDE DEF s
<1>9. Len(w) \in Nat /\ s \in [1..Len(w) -> Item]
  BY <1>1, <1>3, <1>4, <1>8, LenProperties
<1>10. s \in Seq(Item) /\ DOMAIN s = D /\ Len(s) = Len(w)
  BY <1>4, <1>9, SeqDef
<1>11. Rising(s)
  BY <1>7 DEF Rising
<1>12. Range(s) \subseteq Written(i)
  BY <1>8, <1>10 DEF Range
<1>13. Range(s) = Written(i)
  <2>1. Cardinality(Range(s)) = Cardinality(Written(i))
    BY <1>4, <1>10, <1>11, RisingCounts
  <2>. QED  BY <1>4, <1>12, <2>1, FS_Subset
<1>. QED  BY <1>10, <1>11, <1>13 DEF s

-----------------------------------------------------------------------------
(* Types.                                                                  *)

\* The steps of the system.
LEMMA NextCases ==
  ASSUME Next
  PROVE  \/ BuildProviders \/ load_yaml_definitions \/ StartEngine \/ AuthNew
         \/ Shutdown \/ Restart
         \/ \E c \in Calls : Cut(c)
         \/ \E c \in Calls : Receive(c) \/ Retry(c)
         \/ \E c \in Calls : Publish(c) \/ Announce(c) \/ NextTrigger(c)
         \/ \E c \in Calls : CreateInstance(c) \/ QueueInstance(c) \/ LoadBack(c)
         \/ \E i \in DOMAIN instances : WriteHistory(i) \/ WriteLive(i)
         \/ \E r \in Readers : Open(r) \/ Stream(r) \/ Leave(r)
BY DEF Next, Serve, Handle

\* What every reader starts with and ends as.
LEMMA IdleTypes ==
  /\ IdleReader \in Reader /\ IdleReader.phase = "idle"
  /\ GoneReader \in Reader /\ GoneReader.phase = "closed"
  /\ Seen(IdleReader) = <<>> /\ Seen(GoneReader) = <<>>
<1>1. <<>> \in Seq(Item)
  OBVIOUS
<1>2. IdleReader \in Reader
  BY <1>1 DEF IdleReader, Reader, None, All
<1>3. GoneReader \in Reader /\ GoneReader.phase = "closed" /\ IdleReader.phase = "idle"
  BY <1>1, <1>2 DEF IdleReader, GoneReader, Reader
<1>4. /\ IdleReader.got = <<>> /\ IdleReader.chan = <<>>
      /\ GoneReader.got = <<>> /\ GoneReader.chan = <<>>
  BY DEF IdleReader, GoneReader
<1>. QED  BY <1>1, <1>2, <1>3, <1>4, ConcatEmptySeq DEF Seen

\* What is left of the streams when the process has ended.
LEMMA DisconnectedTypes ==
  /\ Disconnected \in [Readers -> Reader]
  /\ \A r \in Readers : /\ Disconnected[r].phase \in {"idle", "closed"}
                         /\ Seen(Disconnected[r]) = <<>>
BY IdleTypes DEF Disconnected

\* A caller's record, whichever of its fields a step writes.
LEMMA CallTypes ==
  ASSUME NEW call \in Call, NEW pc \in CallPcs
  PROVE  /\ [call EXCEPT !.pc = pc] \in Call
         /\ \A a \in {None, "ok", "error", "refused", "gone"} :
              [call EXCEPT !.pc = pc, !.answer = a] \in Call
         /\ \A wf \in Nat : [call EXCEPT !.pc = pc, !.wf = wf] \in Call
         /\ [call EXCEPT !.pc = pc, !.why = NoTrigger, !.wf = 0] \in Call
         /\ [call EXCEPT !.pc = pc, !.answer = None, !.tries = @ + 1] \in Call
         /\ \A left \in SUBSET Triggers :
              [call EXCEPT !.pc = pc, !.left = left] \in Call
         /\ \A t \in Triggers :
              [call EXCEPT !.pc = pc, !.why = t, !.left = @ \ {t}] \in Call
         /\ Lost(call) \in Call
<1>1. [call EXCEPT !.pc = pc] \in Call
  BY DEF Call, CallPcs
<1>2. ASSUME NEW a \in {None, "ok", "error", "refused", "gone"}
      PROVE  [call EXCEPT !.pc = pc, !.answer = a] \in Call
  BY <1>2 DEF Call, CallPcs
<1>3. ASSUME NEW wf \in Nat PROVE [call EXCEPT !.pc = pc, !.wf = wf] \in Call
  BY <1>3 DEF Call, CallPcs
<1>4. [call EXCEPT !.pc = pc, !.why = NoTrigger, !.wf = 0] \in Call
  BY DEF Call, CallPcs
<1>5. [call EXCEPT !.pc = pc, !.answer = None, !.tries = @ + 1] \in Call
  <2>1. call.tries + 1 \in Nat  BY DEF Call
  <2>. QED  BY <2>1 DEF Call, CallPcs
<1>6. ASSUME NEW left \in SUBSET Triggers
      PROVE  [call EXCEPT !.pc = pc, !.left = left] \in Call
  BY <1>6 DEF Call, CallPcs
<1>7. ASSUME NEW t \in Triggers
      PROVE  [call EXCEPT !.pc = pc, !.why = t, !.left = @ \ {t}] \in Call
  <2>1. call.left \ {t} \in SUBSET Triggers  BY DEF Call
  <2>. QED  BY <1>7, <2>1 DEF Call, CallPcs
<1>8. Lost(call) \in Call
  <2>1. call.cut \cup {call.tries} \in SUBSET Nat  BY DEF Call
  <2>. QED  BY <2>1 DEF Call, Lost
<1>. QED  BY <1>1, <1>2, <1>3, <1>4, <1>5, <1>6, <1>7, <1>8

\* One caller's record changes, to a caller's record.
CallMoves(c, call) == call \in Call /\ calls' = [calls EXCEPT ![c] = call]

LEMMA AnswerMoves ==
  ASSUME calls \in [Calls -> Call], NEW c \in Calls
  PROVE  /\ \A a \in {"ok", "error", "refused", "gone"} : Answer(c, a) =>
              CallMoves(c, [calls[c] EXCEPT !.pc = "done", !.answer = a])
         /\ \A pc \in CallPcs : Goto(c, pc) =>
              CallMoves(c, [calls[c] EXCEPT !.pc = pc])
         /\ StartFailed(c) =>
              CallMoves(c, IF calls[c].want.door = "forge"
                           THEN [calls[c] EXCEPT !.pc = "triggers"]
                           ELSE [calls[c] EXCEPT !.pc = "done", !.answer = "error"])
<1>1. calls[c] \in Call /\ {"done", "triggers"} \subseteq CallPcs
  BY DEF CallPcs
<1>2. ASSUME NEW a \in {"ok", "error", "refused", "gone"}, Answer(c, a)
      PROVE  CallMoves(c, [calls[c] EXCEPT !.pc = "done", !.answer = a])
  <2>1. [calls[c] EXCEPT !.pc = "done", !.answer = a] \in Call
    BY <1>1, <1>2, CallTypes
  <2>2. calls' = [calls EXCEPT ![c] = [calls[c] EXCEPT !.pc = "done", !.answer = a]]
    BY <1>2 DEF Answer
  <2>. QED  BY <2>1, <2>2 DEF CallMoves
<1>3. ASSUME NEW pc \in CallPcs, Goto(c, pc)
      PROVE  CallMoves(c, [calls[c] EXCEPT !.pc = pc])
  <2>1. [calls[c] EXCEPT !.pc = pc] \in Call
    BY <1>1, <1>3, CallTypes
  <2>2. calls' = [calls EXCEPT ![c] = [calls[c] EXCEPT !.pc = pc]]
    BY <1>3 DEF Goto
  <2>. QED  BY <2>1, <2>2 DEF CallMoves
<1>4. ASSUME StartFailed(c)
      PROVE  CallMoves(c, IF calls[c].want.door = "forge"
                          THEN [calls[c] EXCEPT !.pc = "triggers"]
                          ELSE [calls[c] EXCEPT !.pc = "done", !.answer = "error"])
  <2>1. CASE calls[c].want.door = "forge"
    <3>1. Goto(c, "triggers")  BY <1>4, <2>1 DEF StartFailed
    <3>2. CallMoves(c, [calls[c] EXCEPT !.pc = "triggers"])  BY <1>1, <1>3, <3>1
    <3>. QED  BY <2>1, <3>2
  <2>2. CASE calls[c].want.door # "forge"
    <3>1. Answer(c, "error")  BY <1>4, <2>2 DEF StartFailed
    <3>2. CallMoves(c, [calls[c] EXCEPT !.pc = "done", !.answer = "error"])  BY <1>2, <3>1
    <3>. QED  BY <2>2, <3>2
  <2>. QED  BY <2>1, <2>2
<1>. QED  BY <1>2, <1>3, <1>4

\* What the record of a caller keeps in a step, its attempt but for a retry.
Keeps(old, new) ==
    /\ new.want = old.want /\ old.cut \subseteq new.cut /\ old.tries <= new.tries

\* The steps of a caller change its record alone.
LEMMA CallerMoves ==
  ASSUME calls \in [Calls -> Call], instances \in Seq(StoredInstance), NEW c \in Calls,
         \/ Receive(c) \/ Cut(c) \/ Retry(c) \/ Publish(c) \/ Announce(c)
         \/ NextTrigger(c) \/ CreateInstance(c) \/ QueueInstance(c) \/ LoadBack(c)
  PROVE  \E call : CallMoves(c, call) /\ Keeps(calls[c], call)
                    /\ (~Retry(c) => call.tries = calls[c].tries)
<1>1. calls[c] \in Call /\ calls[c].tries \in Nat /\ calls[c].left \subseteq Triggers /\ Len(instances) + 1 \in Nat
  BY DEF Call
<1>. USE DEF CallPcs
<1>. DEFINE Same(call) == /\ call.want = calls[c].want /\ call.cut = calls[c].cut
                          /\ call.tries = calls[c].tries
            Goal == \E call : CallMoves(c, call) /\ Keeps(calls[c], call)
                               /\ (~Retry(c) => call.tries = calls[c].tries)
<1>. SUFFICES Goal  OBVIOUS
<1>a. ASSUME NEW call, call \in Call, calls' = [calls EXCEPT ![c] = call], Same(call)
      PROVE  Goal
  <2>1. Keeps(calls[c], call)  BY <1>1, <1>a DEF Keeps
  <2>. QED  BY <1>a, <2>1 DEF CallMoves
<1>. HIDE DEF Goal
<1>2. CASE Receive(c)
  <2>. DEFINE x == [calls[c] EXCEPT !.pc = FirstStep(calls[c].want), !.why = NoTrigger,
                                    !.wf = 0]
              y == [calls[c] EXCEPT !.pc = "done", !.answer = "refused"]
  <2>1. FirstStep(calls[c].want) \in {"create", "publish"}
    BY DEF FirstStep
  <2>2. x \in Call /\ y \in Call /\ Same(x) /\ Same(y)
    <3>1. x \in Call  BY <1>1, <2>1, CallTypes
    <3>2. y \in Call  BY <1>1, CallTypes
    <3>3. Same(x) /\ Same(y)  BY <1>1 DEF Call
    <3>. QED  BY <3>1, <3>2, <3>3
  <2>3. calls' = [calls EXCEPT ![c] = x] \/ calls' = [calls EXCEPT ![c] = y]
    BY <1>2 DEF Receive
  <2>. HIDE DEF x, y, Same
  <2>. QED  BY <1>a, <2>2, <2>3
<1>b. CASE Cut(c)
  <2>. DEFINE x == Lost(calls[c])
  <2>1. x \in Call
    <3>1. "done" \in CallPcs  OBVIOUS
    <3>. QED  BY <1>1, <3>1, CallTypes
  <2>2. Keeps(calls[c], x) /\ x.tries = calls[c].tries  BY <1>1 DEF Call, Lost, Keeps
  <2>3. calls' = [calls EXCEPT ![c] = x]  BY <1>b DEF Cut
  <2>. HIDE DEF x
  <2>. QED  BY <2>1, <2>2, <2>3 DEF CallMoves, Goal
<1>3. CASE Retry(c)
  <2>. DEFINE x == [calls[c] EXCEPT !.pc = "idle", !.answer = None, !.tries = @ + 1]
  <2>1. x \in Call  BY <1>1, CallTypes
  <2>2. x.want = calls[c].want /\ x.cut = calls[c].cut /\ x.tries = calls[c].tries + 1
    BY <1>1 DEF Call
  <2>3. calls' = [calls EXCEPT ![c] = x]  BY <1>3 DEF Retry
  <2>. HIDE DEF x
  <2>4. Keeps(calls[c], x)  BY <1>1, <2>2 DEF Keeps
  <2>. QED  BY <1>3, <2>1, <2>3, <2>4 DEF CallMoves, Goal
<1>4. ASSUME NEW call, CallMoves(c, call),
             \/ \E a : call = [calls[c] EXCEPT !.pc = "done", !.answer = a]
             \/ \E pc : call = [calls[c] EXCEPT !.pc = pc]
      PROVE  Goal
  <2>1. Same(call)  BY <1>1, <1>4 DEF Call
  <2>. HIDE DEF Same
  <2>. QED  BY <1>a, <1>4, <2>1 DEF CallMoves
<1>5. CASE Publish(c)
  BY <1>4, <1>5, AnswerMoves DEF Publish
<1>6. CASE Announce(c)
  <2>. DEFINE left == {t \in Triggers : TriggerMatches(t, calls[c].want)}
              x == [calls[c] EXCEPT !.pc = "triggers", !.left = left]
              y == [calls[c] EXCEPT !.pc = "done", !.answer = "ok"]
  <2>1. \/ calls' = [calls EXCEPT ![c] = x] \/ calls' = [calls EXCEPT ![c] = y]
        \/ Answer(c, "error")
    BY <1>6 DEF Announce, AnnounceTo
  <2>2. x \in Call /\ y \in Call
    <3>1. left \in SUBSET Triggers  OBVIOUS
    <3>. HIDE DEF left
    <3>2. x \in Call  BY <1>1, <3>1, CallTypes
    <3>3. y \in Call  BY <1>1, CallTypes
    <3>. QED  BY <3>2, <3>3
  <2>3. Same(x) /\ Same(y)
    BY <1>1 DEF Call
  <2>. HIDE DEF x, y, Same
  <2>4. CASE Answer(c, "error")  BY <1>4, <2>4, AnswerMoves
  <2>. QED  BY <1>a, <2>1, <2>2, <2>3, <2>4
<1>7. CASE NextTrigger(c)
  <2>1. CASE Answer(c, "ok")  BY <1>4, <2>1, AnswerMoves
  <2>2. ASSUME NEW t \in calls[c].left,
               calls' = [calls EXCEPT ![c].pc = "create", ![c].why = t, ![c].left = @ \ {t}]
        PROVE  Goal
    <3>. DEFINE x == [calls[c] EXCEPT !.pc = "create", !.why = t, !.left = @ \ {t}]
    <3>1. t \in Triggers  BY <1>1, <2>2
    <3>2. x \in Call  BY <1>1, <3>1, CallTypes
    <3>3. Same(x)  BY <1>1 DEF Call
    <3>4. calls' = [calls EXCEPT ![c] = x]  BY <2>2
    <3>. HIDE DEF x, Same
    <3>. QED  BY <1>a, <3>2, <3>3, <3>4
  <2>. QED  BY <1>7, <2>1, <2>2 DEF NextTrigger
<1>8. CASE CreateInstance(c)
  <2>1. CASE StartFailed(c)
    BY <1>4, <2>1, AnswerMoves
  <2>2. CASE calls' = [calls EXCEPT ![c].pc = "queue", ![c].wf = Len(instances) + 1]
    <3>. DEFINE x == [calls[c] EXCEPT !.pc = "queue", !.wf = Len(instances) + 1]
    <3>1. x \in Call  BY <1>1, CallTypes
    <3>2. Same(x)  BY <1>1 DEF Call
    <3>3. calls' = [calls EXCEPT ![c] = x]  BY <2>2
    <3>. HIDE DEF x, Same
    <3>. QED  BY <1>a, <3>1, <3>2, <3>3
  <2>. QED  BY <1>8, <2>1, <2>2 DEF CreateInstance
<1>9. CASE QueueInstance(c)
  <2>1. CASE StartFailed(c)
    BY <1>4, <2>1, AnswerMoves
  <2>2. CASE Goto(c, IF calls[c].want.door = "forge" THEN "triggers" ELSE "load")
    BY <1>4, <2>2, AnswerMoves
  <2>. QED  BY <1>9, <2>1, <2>2 DEF QueueInstance
<1>10. CASE LoadBack(c)
  BY <1>4, <1>10, AnswerMoves DEF LoadBack
<1>. QED  BY <1>2, <1>b, <1>3, <1>5, <1>6, <1>7, <1>8, <1>9, <1>10

\* The rest of TypeOK, when the records of callers and readers keep their types
\* and the store grows.
LEMMA BootTypes ==
  ASSUME TypeOK, BuildProviders \/ load_yaml_definitions \/ StartEngine \/ AuthNew
  PROVE  TypeOK'
<1>1. UNCHANGED <<calls, storeVars, logVars, bus, readers, faults>>
  BY DEF BuildProviders, load_yaml_definitions, StartEngine, AuthNew, BootTo
<1>2. /\ boot' \in {"providers", "definitions", "engine", "auth", "listening", "stopped",
                    "dead"}
      /\ jwks' \subseteq Credentials /\ registered' \in BOOLEAN
  BY DEF TypeOK, BuildProviders, load_yaml_definitions, StartEngine, AuthNew, BootTo,
         Credentials
<1>. QED  BY <1>1, <1>2 DEF TypeOK, storeVars, logVars

LEMMA ShutdownTypes ==
  ASSUME TypeOK, Shutdown
  PROVE  TypeOK'
<1>1. UNCHANGED <<jwks, registered, storeVars, logVars, bus, faults>> /\ boot' = "stopped"
  BY DEF Shutdown
<1>2. ASSUME NEW c \in Calls
      PROVE  calls'[c] \in Call /\ (calls'[c].pc = "queue" => calls'[c].wf \in DOMAIN instances)
  <2>1. calls[c] \in Call
    BY DEF TypeOK
  <2>2. CASE calls[c].pc \in {"idle", "done"}
    <3>1. calls'[c] = calls[c]  BY <2>2 DEF Shutdown
    <3>. QED  BY <2>1, <2>2, <3>1
  <2>3. CASE calls[c].pc \notin {"idle", "done"}
    <3>1. calls'[c] = Lost(calls[c])
      BY <2>3 DEF Shutdown
    <3>2. "done" \in CallPcs  BY DEF CallPcs
    <3>3. Lost(calls[c]) \in Call
      BY <2>1, <3>2, CallTypes
    <3>4. calls'[c].pc = "done"  BY <2>1, <3>1 DEF Call, Lost
    <3>. QED  BY <3>1, <3>3, <3>4
  <2>. QED  BY <2>2, <2>3
<1>3. calls' \in [Calls -> Call]
  <2>1. calls' = [c \in Calls |->
            IF calls[c].pc \in {"idle", "done"} THEN calls[c] ELSE Lost(calls[c])]
    BY DEF Shutdown
  <2>. QED  BY <1>2, <2>1
<1>4. readers' = Disconnected
  BY DEF Shutdown
<1>5. readers' \in [Readers -> Reader] /\ \A r \in Readers : readers'[r].phase \in {"idle", "closed"}
  BY <1>4, DisconnectedTypes
<1>. QED  BY <1>1, <1>2, <1>3, <1>5 DEF TypeOK, storeVars, logVars

\* A new process has a history and a channel for every instance of the store.
LEMMA RestartTypes ==
  ASSUME TypeOK, Restart
  PROVE  /\ TypeOK' /\ bus' = <<>> /\ instances' = instances /\ calls' = calls
         /\ \A i \in DOMAIN instances' : Written(i)' = {} /\ live'[i] = <<>>
<1>1. /\ boot' = "providers" /\ jwks' = {} /\ registered' = FALSE
      /\ calls' = calls /\ events' = events /\ instances' = instances
      /\ chunks' = chunks /\ bus' = <<>> /\ readers' = Disconnected
      /\ history' = [i \in DOMAIN instances |-> [s \in Steps |-> <<>>]]
      /\ live' = [i \in DOMAIN instances |-> <<>>]
  BY DEF Restart, storeVars
<1>2. faults' \in 0..MaxFaults
  <2>1. faults' = faults \/ (faults < MaxFaults /\ faults' = faults + 1)
    BY DEF Restart, Fault, NoFault
  <2>2. faults \in 0..MaxFaults /\ MaxFaults \in Nat
    BY BoundsAssumption DEF TypeOK
  <2>. QED  BY <2>1, <2>2
<1>3. Len(instances) \in Nat /\ DOMAIN instances = 1..Len(instances)
  <2>1. instances \in Seq(StoredInstance)  BY DEF TypeOK, StoredInstance
  <2>. QED  BY <2>1, LenProperties
<1>4. /\ history' \in Seq([Steps -> Seq(Item)]) /\ Len(history') = Len(instances)
      /\ live' \in Seq(Seq(Item)) /\ Len(live') = Len(instances)
  <2>. DEFINE H == [Steps -> Seq(Item)]
              L == Seq(Item)
  <2>1. [s \in Steps |-> <<>>] \in H /\ <<>> \in L
    OBVIOUS
  <2>2. /\ history' \in [1..Len(instances) -> H] /\ DOMAIN history' = 1..Len(instances)
        /\ live' \in [1..Len(instances) -> L] /\ DOMAIN live' = 1..Len(instances)
    BY <1>1, <1>3, <2>1
  <2>. HIDE DEF H, L
  <2>3. history' \in Seq(H) /\ live' \in Seq(L)
    BY <1>3, <2>2, SeqDef
  <2>4. Len(history') = Len(instances) /\ Len(live') = Len(instances)
    BY <1>3, <2>2, <2>3, LenProperties
  <2>. QED  BY <2>3, <2>4 DEF H, L
<1>5. readers' \in [Readers -> Reader] /\ \A r \in Readers : readers'[r].phase \in {"idle", "closed"}
  BY <1>1, DisconnectedTypes
<1>6. TypeOK'
  <2>1. <<>> \in Seq(Item) /\ {} \subseteq Credentials
    OBVIOUS
  <2>. QED  BY <1>1, <1>2, <1>4, <1>5, <2>1 DEF TypeOK
<1>7. \A i \in DOMAIN instances' : Written(i)' = {} /\ live'[i] = <<>>
  <2>1. Range(<<>>) = {}  BY DEF Range
  <2>2. \A i \in DOMAIN instances : \A s \in Steps : history'[i][s] = <<>>
    BY <1>1
  <2>. QED  BY <1>1, <2>1, <2>2 DEF Written
<1>. QED  BY <1>1, <1>6, <1>7

\* The store as a caller's step leaves it: instances are added at the end.
LEMMA CallStores ==
  ASSUME TypeOK, NEW c \in Calls,
         \/ Receive(c) \/ Cut(c) \/ Retry(c) \/ Publish(c) \/ Announce(c)
         \/ NextTrigger(c) \/ CreateInstance(c) \/ QueueInstance(c) \/ LoadBack(c)
  PROVE  /\ UNCHANGED <<serverVars, readers, chunks>>
         /\ events' \in Seq([by: Calls, queued: BOOLEAN])
         /\ faults' \in 0..MaxFaults
         /\ bus' = bus \/ bus' = Append(bus, [n |-> Len(bus) + 1, wf |-> calls[c].wf,
                                              step |-> None])
         /\ \/ UNCHANGED <<instances, history, live>>
            \/ /\ calls[c].pc = "create" /\ CreateInstance(c)
               /\ instances' = Append(instances,
                    [by |-> c, try |-> calls[c].tries, why |-> calls[c].why, queued |-> FALSE])
               /\ history' = Append(history, [s \in Steps |-> <<>>])
               /\ live' = Append(live, <<>>)
            \/ /\ calls[c].pc = "queue" /\ QueueInstance(c)
               /\ instances' = [instances EXCEPT ![calls[c].wf].queued = TRUE]
               /\ UNCHANGED <<history, live>>
<1>. DEFINE Ev == [by: Calls, queued: BOOLEAN]
<1>1. UNCHANGED <<serverVars, readers, chunks>>
  BY DEF Receive, Cut, Retry, Publish, Announce, AnnounceTo, NextTrigger, CreateInstance,
         QueueInstance, LoadBack, logVars
<1>2. events' \in Seq(Ev)
  <2>0. events \in Seq(Ev)  BY DEF TypeOK
  <2>1. CASE Publish(c)
    <3>1. [by |-> c, queued |-> FALSE] \in Ev  OBVIOUS
    <3>2. Append(events, [by |-> c, queued |-> FALSE]) \in Seq(Ev)
      BY <2>0, <3>1, SeqAppend
    <3>. QED  BY <2>0, <2>1, <3>2 DEF Publish
  <2>2. CASE Announce(c)
    <3>1. ASSUME NEW e \in DOMAIN events, events' = [events EXCEPT ![e].queued = TRUE]
          PROVE  events' \in Seq(Ev)
      <4>1. e \in 1..Len(events)  BY <2>0, <3>1, LenProperties
      <4>2. events[e] \in Ev
        <5>. HIDE DEF Ev
        <5>. QED  BY <2>0, <4>1, ElementOfSeq
      <4>. DEFINE x == [events[e] EXCEPT !.queued = TRUE]
      <4>3. x \in Ev  BY <4>2
      <4>4. events' = [events EXCEPT ![e] = x]  BY <3>1
      <4>. HIDE DEF x, Ev
      <4>. QED  BY <2>0, <4>1, <4>3, <4>4, ExceptSeq
    <3>. HIDE DEF Ev
    <3>. QED  BY <2>0, <2>2, <3>1 DEF Announce, AnnounceTo
  <2>3. CASE ~Publish(c) /\ ~Announce(c)
    <3>1. events' = events
      BY <2>3 DEF Receive, Cut, Retry, NextTrigger, CreateInstance, QueueInstance, LoadBack,
                  storeVars
    <3>. QED  BY <2>0, <3>1
  <2>. QED  BY <2>1, <2>2, <2>3
<1>3. faults' \in 0..MaxFaults
  <2>1. faults' = faults \/ (faults < MaxFaults /\ faults' = faults + 1)
    BY DEF Receive, Cut, Retry, Publish, Announce, AnnounceTo, NextTrigger, CreateInstance,
           QueueInstance, LoadBack, Fault, NoFault
  <2>2. faults \in 0..MaxFaults /\ MaxFaults \in Nat
    BY BoundsAssumption DEF TypeOK
  <2>. QED  BY <2>1, <2>2
<1>4. CASE CreateInstance(c)
  <2>1. bus' = bus /\ calls[c].pc = "create"  BY <1>4 DEF CreateInstance
  <2>2. \/ UNCHANGED <<instances, history, live>>
        \/ /\ instances' = Append(instances,
                [by |-> c, try |-> calls[c].tries, why |-> calls[c].why, queued |-> FALSE])
           /\ history' = Append(history, [s \in Steps |-> <<>>])
           /\ live' = Append(live, <<>>)
    BY <1>4 DEF CreateInstance
  <2>. QED  BY <1>1, <1>2, <1>3, <1>4, <2>1, <2>2
<1>5. CASE QueueInstance(c)
  <2>1. UNCHANGED <<history, live>> /\ calls[c].pc = "queue"
    BY <1>5 DEF QueueInstance, logVars
  <2>2. \/ UNCHANGED <<instances, bus>>
        \/ /\ instances' = [instances EXCEPT ![calls[c].wf].queued = TRUE]
           /\ bus' = Append(bus, [n |-> Len(bus) + 1, wf |-> calls[c].wf, step |-> None])
    BY <1>5 DEF QueueInstance, Broadcast
  <2>. QED  BY <1>1, <1>2, <1>3, <1>5, <2>1, <2>2
<1>6. CASE ~CreateInstance(c) /\ ~QueueInstance(c)
  <2>1. UNCHANGED <<instances, history, live, bus>>
    BY <1>6 DEF Receive, Cut, Retry, Publish, Announce, AnnounceTo, NextTrigger, LoadBack,
                storeVars, logVars
  <2>. QED  BY <1>1, <1>2, <1>3, <2>1
<1>. QED  BY <1>4, <1>5, <1>6

\* Storing an instance, or queueing one, leaves the others as they are.
LEMMA StoreGrows ==
  ASSUME TypeOK, NEW c \in Calls,
         \/ Receive(c) \/ Cut(c) \/ Retry(c) \/ Publish(c) \/ Announce(c)
         \/ NextTrigger(c) \/ CreateInstance(c) \/ QueueInstance(c) \/ LoadBack(c)
  PROVE  /\ instances' \in Seq(StoredInstance)
         /\ history' \in Seq([Steps -> Seq(Item)]) /\ Len(history') = Len(instances')
         /\ live' \in Seq(Seq(Item)) /\ Len(live') = Len(instances')
         /\ DOMAIN instances \subseteq DOMAIN instances'
         /\ \A i \in DOMAIN instances :
              /\ instances'[i].by = instances[i].by
              /\ instances'[i].try = instances[i].try
              /\ instances'[i].why = instances[i].why
              /\ history'[i] = history[i] /\ live'[i] = live[i]
         /\ \A i \in DOMAIN instances' \ DOMAIN instances :
              /\ calls[c].pc = "create"
              /\ i = Len(instances) + 1
              /\ CreateInstance(c)
              /\ instances'[i].by = c /\ instances'[i].why = calls[c].why
              /\ instances'[i].try = calls[c].tries
              /\ history'[i] = [s \in Steps |-> <<>>] /\ live'[i] = <<>>
<1>1. /\ instances \in Seq(StoredInstance)
      /\ history \in Seq([Steps -> Seq(Item)]) /\ Len(history) = Len(instances)
      /\ live \in Seq(Seq(Item)) /\ Len(live) = Len(instances)
      /\ Len(instances) \in Nat
      /\ DOMAIN instances = 1..Len(instances)
  BY LenProperties DEF TypeOK, StoredInstance
<1>2. CASE UNCHANGED <<instances, history, live>>
  BY <1>1, <1>2
<1>3. CASE /\ calls[c].pc = "create" /\ CreateInstance(c)
           /\ instances' = Append(instances,
                [by |-> c, try |-> calls[c].tries, why |-> calls[c].why, queued |-> FALSE])
           /\ history' = Append(history, [s \in Steps |-> <<>>])
           /\ live' = Append(live, <<>>)
  <2>. DEFINE x == [by |-> c, try |-> calls[c].tries, why |-> calls[c].why,
                    queued |-> FALSE]
              h == [s \in Steps |-> <<>>]
  <2>1. /\ x \in StoredInstance /\ x.by = c /\ x.why = calls[c].why
        /\ x.try = calls[c].tries
    BY DEF TypeOK, Call, StoredInstance
  <2>2. h \in [Steps -> Seq(Item)] /\ <<>> \in Seq(Item)
    OBVIOUS
  <2>. HIDE DEF x, h
  <2>3. instances' = Append(instances, x) /\ history' = Append(history, h)
    BY <1>3 DEF x, h
  <2>4. /\ instances' \in Seq(StoredInstance) /\ Len(instances') = Len(instances) + 1
        /\ DOMAIN instances' = 1..Len(instances) + 1
        /\ \A i \in 1..Len(instances) : instances'[i] = instances[i]
        /\ instances'[Len(instances) + 1] = x
    BY <1>1, <2>1, <2>3, SeqAppend
  <2>5. /\ history' \in Seq([Steps -> Seq(Item)]) /\ Len(history') = Len(history) + 1
        /\ \A i \in 1..Len(history) : history'[i] = history[i]
        /\ history'[Len(history) + 1] = h
    BY <1>1, <2>2, <2>3, SeqAppend
  <2>6. /\ live' \in Seq(Seq(Item)) /\ Len(live') = Len(live) + 1
        /\ \A i \in 1..Len(live) : live'[i] = live[i]
        /\ live'[Len(live) + 1] = <<>>
    BY <1>1, <1>3, <2>2, SeqAppend
  <2>7. \A i \in DOMAIN instances' \ DOMAIN instances : i = Len(instances) + 1
    BY <1>1, <2>4
  <2>8. DOMAIN instances \subseteq DOMAIN instances'
    BY <1>1, <2>4
  <2>9. \A i \in DOMAIN instances :
              /\ instances'[i].by = instances[i].by
              /\ instances'[i].try = instances[i].try
              /\ instances'[i].why = instances[i].why
              /\ history'[i] = history[i] /\ live'[i] = live[i]
    BY <1>1, <2>4, <2>5, <2>6
  <2>10. \A i \in DOMAIN instances' \ DOMAIN instances :
              /\ calls[c].pc = "create"
              /\ i = Len(instances) + 1
              /\ CreateInstance(c)
              /\ instances'[i].by = c /\ instances'[i].why = calls[c].why
              /\ instances'[i].try = calls[c].tries
              /\ history'[i] = [s \in Steps |-> <<>>] /\ live'[i] = <<>>
    BY <1>1, <1>3, <2>1, <2>4, <2>5, <2>6, <2>7 DEF h
  <2>11. Len(history') = Len(instances') /\ Len(live') = Len(instances')
    BY <1>1, <2>4, <2>5, <2>6
  <2>. QED  BY <2>4, <2>5, <2>6, <2>8, <2>9, <2>10, <2>11
<1>4. CASE /\ calls[c].pc = "queue"
           /\ instances' = [instances EXCEPT ![calls[c].wf].queued = TRUE]
           /\ UNCHANGED <<history, live>>
  <2>. DEFINE w == calls[c].wf
              x == [instances[w] EXCEPT !.queued = TRUE]
  <2>1. w \in 1..Len(instances)
    BY <1>1, <1>4 DEF TypeOK
  <2>2. instances[w] \in StoredInstance
    BY <1>1, <2>1, ElementOfSeq
  <2>3. /\ x \in StoredInstance /\ x.by = instances[w].by /\ x.why = instances[w].why
        /\ x.try = instances[w].try
    BY <2>2 DEF StoredInstance
  <2>4. instances' = [instances EXCEPT ![w] = x]
    BY <1>4
  <2>. HIDE DEF w, x
  <2>5. /\ instances' \in Seq(StoredInstance) /\ Len(instances') = Len(instances)
        /\ \A i \in 1..Len(instances) : instances'[i] = IF i = w THEN x ELSE instances[i]
    BY <1>1, <2>1, <2>3, <2>4, ExceptSeq
  <2>6. DOMAIN instances' = DOMAIN instances
    BY <1>1, <2>5, LenProperties
  <2>. QED  BY <1>1, <1>4, <2>3, <2>5, <2>6
<1>. QED  BY <1>2, <1>3, <1>4, CallStores

LEMMA CallStepTypes ==
  ASSUME TypeOK, NEW c \in Calls,
         \/ Receive(c) \/ Cut(c) \/ Retry(c) \/ Publish(c) \/ Announce(c)
         \/ NextTrigger(c) \/ CreateInstance(c) \/ QueueInstance(c) \/ LoadBack(c)
  PROVE  TypeOK'
<1>1. calls \in [Calls -> Call] /\ instances \in Seq(StoredInstance)
  BY DEF TypeOK, StoredInstance
<1>2. PICK call : CallMoves(c, call)
  BY <1>1, CallerMoves
<1>3. calls' \in [Calls -> Call]
  BY <1>1, <1>2 DEF CallMoves
<1>4. bus' \in Seq(Item)
  <2>. DEFINE x == [n |-> Len(bus) + 1, wf |-> calls[c].wf, step |-> None]
  <2>1. bus \in Seq(Item) /\ Len(bus) + 1 \in Nat /\ calls[c].wf \in Nat
    BY <1>1 DEF TypeOK, Call
  <2>2. x \in Item  BY <2>1 DEF Item
  <2>3. bus' = bus \/ bus' = Append(bus, x)  BY CallStores
  <2>. HIDE DEF x
  <2>4. Append(bus, x) \in Seq(Item)  BY <2>1, <2>2, SeqAppend
  <2>. QED  BY <2>1, <2>3, <2>4
<1>5. ASSUME NEW d \in Calls, calls'[d].pc = "queue"
      PROVE  calls'[d].wf \in DOMAIN instances'
  <2>1. CASE d # c
    <3>1. calls'[d] = calls[d]  BY <1>1, <1>2, <2>1 DEF CallMoves
    <3>2. calls[d].wf \in DOMAIN instances  BY <1>5, <3>1 DEF TypeOK
    <3>. QED  BY <3>1, <3>2, StoreGrows
  <2>2. CASE d = c /\ CreateInstance(c)
    <3>1. CASE StartFailed(c)
      <4>1. calls'[c].pc \in {"triggers", "done"}
        BY <1>1, <3>1 DEF StartFailed, Goto, Answer, Call
      <4>. QED  BY <1>5, <2>2, <4>1
    <3>2. CASE /\ calls' = [calls EXCEPT ![c].pc = "queue", ![c].wf = Len(instances) + 1]
               /\ instances' = Append(instances,
                    [by |-> c, try |-> calls[c].tries, why |-> calls[c].why, queued |-> FALSE])
      <4>1. calls'[c].wf = Len(instances) + 1  BY <1>1, <3>2 DEF Call
      <4>2. Len(instances') = Len(instances) + 1 /\ DOMAIN instances' = 1..Len(instances')
            /\ Len(instances) \in Nat
        BY <1>1, <3>2, StoreGrows, LenProperties
      <4>. QED  BY <2>2, <4>1, <4>2
    <3>. QED  BY <2>2, <3>1, <3>2 DEF CreateInstance
  <2>3. CASE d = c /\ ~CreateInstance(c)
    <3>1. calls[c] \in Call  BY <1>1
    <3>2. CASE Receive(c)
      BY <1>1, <1>5, <2>3, <3>1, <3>2 DEF Receive, FirstStep, Call
    <3>a. CASE Cut(c)
      BY <1>1, <1>5, <2>3, <3>1, <3>a DEF Cut, Lost, Call
    <3>3. CASE Retry(c)
      BY <1>1, <1>5, <2>3, <3>1, <3>3 DEF Retry, Call
    <3>4. CASE Publish(c)
      BY <1>1, <1>5, <2>3, <3>1, <3>4 DEF Publish, Goto, Answer, Call
    <3>5. CASE Announce(c)
      <4>. DEFINE left == {t \in Triggers : TriggerMatches(t, calls[c].want)}
                  x == [calls[c] EXCEPT !.pc = "triggers", !.left = left]
                  y == [calls[c] EXCEPT !.pc = "done", !.answer = "ok"]
      <4>1. \/ calls' = [calls EXCEPT ![c] = x] \/ calls' = [calls EXCEPT ![c] = y]
            \/ Answer(c, "error")
        BY <3>5 DEF Announce, AnnounceTo
      <4>2. x.pc = "triggers" /\ y.pc = "done"  BY <3>1 DEF Call
      <4>. HIDE DEF x, y
      <4>3. calls'[c].pc \in {"triggers", "done"}
        BY <1>1, <4>1, <4>2 DEF Answer, Call
      <4>. QED  BY <1>5, <2>3, <4>3
    <3>6. CASE NextTrigger(c)
      <4>1. CASE Answer(c, "ok")
        BY <1>1, <1>5, <2>3, <3>1, <4>1 DEF Answer, Call
      <4>2. ASSUME NEW t, calls' = [calls EXCEPT ![c].pc = "create", ![c].why = t,
                                                 ![c].left = @ \ {t}]
            PROVE  FALSE
        <5>. DEFINE x == [calls[c] EXCEPT !.pc = "create", !.why = t, !.left = @ \ {t}]
        <5>1. calls' = [calls EXCEPT ![c] = x] /\ x.pc = "create"
          BY <3>1, <4>2 DEF Call
        <5>. HIDE DEF x
        <5>. QED  BY <1>1, <1>5, <2>3, <5>1
      <4>. QED  BY <3>6, <4>1, <4>2 DEF NextTrigger
    <3>7. CASE QueueInstance(c)
      <4>1. CASE StartFailed(c)
        <5>1. calls'[c].pc \in {"triggers", "done"}
          BY <1>1, <4>1 DEF StartFailed, Goto, Answer, Call
        <5>. QED  BY <1>5, <2>3, <5>1
      <4>2. CASE Goto(c, IF calls[c].want.door = "forge" THEN "triggers" ELSE "load")
        <5>1. calls'[c].pc \in {"triggers", "load"}
          BY <1>1, <4>2 DEF Goto, Call
        <5>. QED  BY <1>5, <2>3, <5>1
      <4>. QED  BY <3>7, <4>1, <4>2 DEF QueueInstance
    <3>8. CASE LoadBack(c)
      BY <1>1, <1>5, <2>3, <3>1, <3>8 DEF LoadBack, Answer, Call
    <3>. QED  BY <2>3, <3>2, <3>a, <3>3, <3>4, <3>5, <3>6, <3>7, <3>8
  <2>. QED  BY <2>1, <2>2, <2>3
<1>6. /\ UNCHANGED <<serverVars, readers, chunks>>
      /\ events' \in Seq([by: Calls, queued: BOOLEAN]) /\ faults' \in 0..MaxFaults
  BY CallStores
<1>7. /\ instances' \in Seq(StoredInstance)
      /\ history' \in Seq([Steps -> Seq(Item)]) /\ Len(history') = Len(instances')
      /\ live' \in Seq(Seq(Item)) /\ Len(live') = Len(instances')
      /\ DOMAIN instances \subseteq DOMAIN instances'
  BY StoreGrows
<1>8. \A r \in Readers :
        /\ readers'[r].phase \in {"history", "replay", "live"}
        /\ readers'[r].kind # "watch"
        => readers'[r].wf \in DOMAIN instances'
  BY <1>6, <1>7 DEF TypeOK
<1>9. /\ boot' = boot /\ jwks' = jwks /\ registered' = registered
      /\ readers' = readers /\ chunks' = chunks
  BY <1>6 DEF serverVars
<1>. QED  BY <1>3, <1>4, <1>5, <1>6, <1>7, <1>8, <1>9 DEF TypeOK, StoredInstance

\* A chunk in the history, and then on the channel.
LEMMA WriteTypes ==
  ASSUME TypeOK, NEW i \in DOMAIN instances
  PROVE  /\ WriteHistory(i) =>
              /\ TypeOK'
              /\ \E y \in Item :
                   /\ y.n = chunks + 1 /\ chunks' = chunks + 1
                   /\ Written(i)' = Written(i) \cup {y}
                   /\ Cardinality(Written(i)) = Len(live[i])
                   /\ \A j \in DOMAIN instances \ {i} : Written(j)' = Written(j)
                   /\ UNCHANGED <<instances, live, bus, readers>>
         /\ WriteLive(i) =>
              /\ TypeOK'
              /\ \E y \in Unsent(i) :
                   /\ live' = [live EXCEPT ![i] = Append(live[i], y)]
                   /\ live'[i] = Append(live[i], y)
                   /\ \A j \in DOMAIN instances \ {i} : live'[j] = live[j]
                   /\ UNCHANGED <<instances, history, chunks, bus, readers>>
<1>1. /\ i \in DOMAIN history /\ i \in DOMAIN live
      /\ history[i] \in [Steps -> Seq(Item)] /\ live[i] \in Seq(Item)
      /\ Written(i) \subseteq Item
  BY LogTypes
<1>2. /\ history \in Seq([Steps -> Seq(Item)]) /\ live \in Seq(Seq(Item))
      /\ i \in 1..Len(history) /\ i \in 1..Len(live)
      /\ Len(history) = Len(instances) /\ Len(live) = Len(instances)
  BY <1>1, LenProperties DEF TypeOK
<1>3. chunks \in 0..MaxChunks /\ MaxChunks \in Nat /\ DOMAIN instances = 1..Len(instances)
      /\ Len(instances) \in Nat
  BY BoundsAssumption, LenProperties DEF TypeOK
<1>4. ASSUME WriteHistory(i)
      PROVE  /\ TypeOK'
             /\ \E y \in Item :
                  /\ y.n = chunks + 1 /\ chunks' = chunks + 1
                  /\ Written(i)' = Written(i) \cup {y}
                  /\ Cardinality(Written(i)) = Len(live[i])
                  /\ \A j \in DOMAIN instances \ {i} : Written(j)' = Written(j)
                  /\ UNCHANGED <<instances, live, bus, readers>>
  <2>1. PICK s \in Steps :
          history' = [history EXCEPT ![i][s] =
              Append(@, [n |-> chunks + 1, wf |-> i, step |-> s])]
    BY <1>4 DEF WriteHistory
  <2>. DEFINE y == [n |-> chunks + 1, wf |-> i, step |-> s]
              h == [history[i] EXCEPT ![s] = Append(history[i][s], y)]
  <2>2. y \in Item /\ y.n = chunks + 1
    BY <1>2, <1>3 DEF Item
  <2>. HIDE DEF y
  <2>3. /\ Append(history[i][s], y) \in Seq(Item)
        /\ Range(Append(history[i][s], y)) = Range(history[i][s]) \cup {y}
    <3>1. history[i][s] \in Seq(Item)  BY <1>1
    <3>. QED  BY <2>2, <3>1, SeqAppend
  <2>4. /\ h \in [Steps -> Seq(Item)]
        /\ h[s] = Append(history[i][s], y)
        /\ \A t \in Steps \ {s} : h[t] = history[i][t]
    BY <1>1, <2>3
  <2>5. history' = [history EXCEPT ![i] = h]
    BY <2>1 DEF y
  <2>. HIDE DEF h
  <2>6. /\ history' \in Seq([Steps -> Seq(Item)]) /\ Len(history') = Len(history)
        /\ history'[i] = h
        /\ \A j \in 1..Len(history) : j # i => history'[j] = history[j]
    BY <1>2, <2>4, <2>5, ExceptSeq
  <2>7. Written(i)' = UNION {Range(h[t]) : t \in Steps}
    BY <2>6 DEF Written
  <2>8. Written(i)' = Written(i) \cup {y}
    <3>0. \A t \in Steps : Range(history[i][t]) \subseteq Written(i)
      BY DEF Written
    <3>1. ASSUME NEW t \in Steps PROVE Range(h[t]) \subseteq Written(i) \cup {y}
      <4>1. CASE t = s
        <5>1. Range(h[s]) = Range(history[i][s]) \cup {y}  BY <2>3, <2>4
        <5>. QED  BY <3>0, <4>1, <5>1
      <4>2. CASE t # s  BY <2>4, <3>0, <4>2
      <4>. QED  BY <4>1, <4>2
    <3>2. y \in Range(h[s])
      <4>1. Range(h[s]) = Range(history[i][s]) \cup {y}  BY <2>3, <2>4
      <4>. QED  BY <4>1
    <3>3. \A t \in Steps : Range(history[i][t]) \subseteq Range(h[t])
      BY <2>3, <2>4
    <3>. QED  BY <2>7, <3>1, <3>2, <3>3 DEF Written
  <2>9. \A j \in DOMAIN instances \ {i} : Written(j)' = Written(j)
    BY <1>2, <1>3, <2>6 DEF Written
  <2>10. /\ chunks' = chunks + 1 /\ chunks < MaxChunks
         /\ Cardinality(Written(i)) = Len(live[i])
         /\ UNCHANGED <<serverVars, calls, storeVars, live, bus, readers, faults>>
    BY <1>4 DEF WriteHistory
  <2>11. TypeOK'
    <3>1. chunks' \in 0..MaxChunks
      <4>1. chunks \in 0..MaxChunks /\ MaxChunks \in Nat
        BY BoundsAssumption DEF TypeOK
      <4>. QED  BY <2>10, <4>1
    <3>2. /\ boot' = boot /\ jwks' = jwks /\ registered' = registered /\ calls' = calls
          /\ events' = events /\ instances' = instances /\ live' = live /\ bus' = bus
          /\ readers' = readers /\ faults' = faults
      BY <2>10 DEF serverVars, storeVars
    <3>3. history' \in Seq([Steps -> Seq(Item)]) /\ Len(history') = Len(instances)
      BY <1>2, <2>6 DEF TypeOK
    <3>. QED  BY <3>1, <3>2, <3>3 DEF TypeOK
  <2>. QED  BY <2>2, <2>8, <2>9, <2>10, <2>11 DEF storeVars
<1>5. ASSUME WriteLive(i)
      PROVE  /\ TypeOK'
             /\ \E y \in Unsent(i) :
                  /\ live' = [live EXCEPT ![i] = Append(live[i], y)]
                  /\ live'[i] = Append(live[i], y)
                  /\ \A j \in DOMAIN instances \ {i} : live'[j] = live[j]
                  /\ UNCHANGED <<instances, history, chunks, bus, readers>>
  <2>1. PICK y \in Written(i) :
          y \notin Range(live[i]) /\ live' = [live EXCEPT ![i] = Append(@, y)]
    BY <1>5 DEF WriteLive
  <2>2. y \in Item /\ y \in Unsent(i)
    BY <1>1, <2>1 DEF Unsent
  <2>3. Append(live[i], y) \in Seq(Item)
    BY <1>1, <2>2, SeqAppend
  <2>4. /\ live' \in Seq(Seq(Item)) /\ Len(live') = Len(live)
        /\ live'[i] = Append(live[i], y)
        /\ \A j \in 1..Len(live) : j # i => live'[j] = live[j]
    <3>. DEFINE q == Append(live[i], y)
    <3>1. live' = [live EXCEPT ![i] = q] /\ q \in Seq(Item)  BY <2>1, <2>3
    <3>. HIDE DEF q
    <3>2. /\ live' \in Seq(Seq(Item)) /\ Len(live') = Len(live)
          /\ live'[i] = q
          /\ \A j \in 1..Len(live) : j # i => live'[j] = live[j]
      BY <1>2, <3>1, ExceptSeq
    <3>. QED  BY <3>2 DEF q
  <2>5. UNCHANGED <<serverVars, calls, storeVars, history, chunks, bus, readers, faults>>
    BY <1>5 DEF WriteLive
  <2>6. TypeOK'
    <3>1. /\ boot' = boot /\ jwks' = jwks /\ registered' = registered /\ calls' = calls
          /\ events' = events /\ instances' = instances /\ history' = history
          /\ chunks' = chunks /\ bus' = bus /\ readers' = readers /\ faults' = faults
      BY <2>5 DEF serverVars, storeVars
    <3>2. live' \in Seq(Seq(Item)) /\ Len(live') = Len(instances)
      BY <1>2, <2>4 DEF TypeOK
    <3>. QED  BY <3>1, <3>2 DEF TypeOK
  <2>. QED  BY <1>2, <1>3, <2>1, <2>2, <2>4, <2>5, <2>6 DEF storeVars
<1>. QED  BY <1>4, <1>5

-----------------------------------------------------------------------------
(* The log store and the bus stay in order.                                *)

LEMMA LogSame ==
  ASSUME NEW i, LogInOrder(i), history'[i] = history[i], live'[i] = live[i],
         chunks' = chunks
  PROVE  LogInOrder(i)' /\ Written(i)' = Written(i)
<1>1. Written(i)' = Written(i) /\ Unsent(i)' = Unsent(i)
  BY DEF Written, Unsent
<1>. QED  BY <1>1 DEF LogInOrder

LEMMA HistoryInOrder ==
  ASSUME TypeOK, LogsInOrder, NEW i \in DOMAIN instances, WriteHistory(i)
  PROVE  LogsInOrder'
<1>1. PICK y \in Item :
        /\ y.n = chunks + 1 /\ chunks' = chunks + 1
        /\ Written(i)' = Written(i) \cup {y}
        /\ Cardinality(Written(i)) = Len(live[i])
        /\ \A j \in DOMAIN instances \ {i} : Written(j)' = Written(j)
        /\ UNCHANGED <<instances, live, bus, readers>>
  BY WriteTypes
<1>2. chunks \in Nat
  BY BoundsAssumption DEF TypeOK
<1>3. \A j \in DOMAIN instances : \A z \in Written(j) : z.n \in Nat /\ z.n <= chunks
  BY LogTypes DEF LogsInOrder, LogInOrder, Item
<1>4. ASSUME NEW j \in DOMAIN instances, j # i PROVE LogInOrder(j)'
  <2>1. Written(j)' = Written(j) /\ live'[j] = live[j] /\ chunks' = chunks + 1
    BY <1>1, <1>4
  <2>2. Unsent(j)' = Unsent(j)  BY <2>1 DEF Unsent
  <2>3. \A z \in Written(j) : z.n <= chunks + 1  BY <1>2, <1>3
  <2>. QED  BY <2>1, <2>2, <2>3 DEF LogsInOrder, LogInOrder
<1>5. LogInOrder(i)'
  <2>1. live[i] \in Seq(Item) /\ LogInOrder(i)
    BY LogTypes DEF LogsInOrder
  <2>2. Written(i) = Range(live[i])
    <3>1. Cardinality(Range(live[i])) = Len(live[i]) /\ IsFiniteSet(Range(live[i]))
      BY <2>1, RisingCounts DEF LogInOrder
    <3>2. IsFiniteSet(Written(i))
      <4>1. CASE Unsent(i) = {}
        <5>1. Written(i) = Range(live[i])  BY <2>1, <4>1 DEF LogInOrder, Unsent
        <5>. QED  BY <3>1, <5>1
      <4>2. ASSUME NEW z \in Unsent(i) PROVE IsFiniteSet(Written(i))
        <5>1. Written(i) = Range(live[i]) \cup {z}
          BY <2>1, <4>2 DEF LogInOrder, Unsent
        <5>2. IsFiniteSet(Range(live[i]) \cup {z})  BY <3>1, FS_AddElement
        <5>. QED  BY <5>1, <5>2
      <4>. QED  BY <4>1, <4>2
    <3>3. Range(live[i]) \subseteq Written(i)  BY <2>1 DEF LogInOrder
    <3>. QED  BY <1>1, <3>1, <3>2, <3>3, FS_Subset
  <2>3. \A z \in Range(live[i]) : z.n < y.n
    <3>1. \A z \in Range(live[i]) : z.n \in Nat /\ z.n <= chunks  BY <1>3, <2>2
    <3>. QED  BY <1>1, <1>2, <3>1
  <2>4. y \notin Range(live[i])
    BY <1>1, <1>2, <2>3
  <2>5. Unsent(i)' = {y}
    BY <1>1, <2>2, <2>4 DEF Unsent
  <2>6. \A z \in Written(i)' : z.n <= chunks'
    BY <1>1, <1>2, <1>3
  <2>7. live'[i] = live[i] /\ Range(live[i]) \subseteq Written(i)'
    BY <1>1, <2>2
  <2>. QED  BY <2>1, <2>3, <2>5, <2>6, <2>7 DEF LogInOrder
<1>. QED  BY <1>1, <1>4, <1>5 DEF LogsInOrder

LEMMA LiveInOrder ==
  ASSUME TypeOK, LogsInOrder, NEW i \in DOMAIN instances, WriteLive(i)
  PROVE  LogsInOrder'
<1>1. PICK y \in Unsent(i) :
        /\ live'[i] = Append(live[i], y)
        /\ \A j \in DOMAIN instances \ {i} : live'[j] = live[j]
        /\ UNCHANGED <<instances, history, chunks, bus, readers>>
  BY WriteTypes
<1>2. live[i] \in Seq(Item) /\ Written(i) \subseteq Item /\ LogInOrder(i)
  BY LogTypes DEF LogsInOrder
<1>3. y \in Item /\ y \in Written(i)
  BY <1>2 DEF Unsent
<1>4. \A j : Written(j)' = Written(j)
  BY <1>1 DEF Written
<1>5. Rising(live[i])'
  BY <1>1, <1>2, <1>3, RisingAppend DEF LogInOrder
<1>6. Range(live'[i]) = Range(live[i]) \cup {y}
  BY <1>1, <1>2, <1>3, SeqAppend
<1>7. Unsent(i)' = {}
  BY <1>2, <1>4, <1>6 DEF Unsent, LogInOrder
<1>8. LogInOrder(i)'
  BY <1>1, <1>2, <1>3, <1>4, <1>5, <1>6, <1>7 DEF LogInOrder
<1>9. ASSUME NEW j \in DOMAIN instances, j # i PROVE LogInOrder(j)'
  BY <1>1, <1>9, LogSame DEF LogsInOrder
<1>. QED  BY <1>1, <1>8, <1>9 DEF LogsInOrder

LEMMA CallKeepsOrder ==
  ASSUME TypeOK, LogsInOrder, BusNumbered, NEW c \in Calls,
         \/ Receive(c) \/ Cut(c) \/ Retry(c) \/ Publish(c) \/ Announce(c)
         \/ NextTrigger(c) \/ CreateInstance(c) \/ QueueInstance(c) \/ LoadBack(c)
  PROVE  LogsInOrder' /\ BusNumbered'
<1>1. chunks' = chunks
  BY CallStores
<1>2. ASSUME NEW i \in DOMAIN instances PROVE LogInOrder(i)'
  <2>1. history'[i] = history[i] /\ live'[i] = live[i]  BY StoreGrows
  <2>. QED  BY <1>1, <2>1, LogSame DEF LogsInOrder
<1>3. ASSUME NEW i \in DOMAIN instances' \ DOMAIN instances PROVE LogInOrder(i)'
  <2>1. history'[i] = [s \in Steps |-> <<>>] /\ live'[i] = <<>>  BY StoreGrows
  <2>2. Range(<<>>) = {}  BY DEF Range
  <2>3. Written(i)' = {}  BY <2>1, <2>2 DEF Written
  <2>4. Rising(<<>>)  BY DEF Rising
  <2>. QED  BY <2>1, <2>2, <2>3, <2>4 DEF LogInOrder, Unsent
<1>4. BusNumbered'
  <2>. DEFINE x == [n |-> Len(bus) + 1, wf |-> calls[c].wf, step |-> None]
  <2>1. CASE bus' = bus  BY <2>1 DEF BusNumbered
  <2>2. CASE bus' = Append(bus, x)
    <3>1. bus \in Seq(Item) /\ calls[c].wf \in Nat /\ Len(bus) \in Nat
          /\ Len(bus) + 1 \in Nat
      BY DEF TypeOK, Call
    <3>2. x \in Item /\ x.n = Len(bus) + 1  BY <3>1 DEF Item
    <3>. HIDE DEF x
    <3>3. /\ DOMAIN bus' = 1..Len(bus) + 1 /\ DOMAIN bus = 1..Len(bus)
          /\ \A k \in 1..Len(bus) : bus'[k] = bus[k]
          /\ bus'[Len(bus) + 1] = x
      BY <2>2, <3>1, <3>2, SeqAppend, SeqRange
    <3>. QED  BY <3>1, <3>2, <3>3 DEF BusNumbered
  <2>. QED  BY <2>1, <2>2, CallStores
<1>. QED  BY <1>2, <1>3, <1>4 DEF LogsInOrder

-----------------------------------------------------------------------------
(* What a stream sends.                                                    *)

\* A reader that can be continued from the present logs and bus.
GoodReader(reader) ==
    /\ reader \in Reader
    /\ reader.phase \in {"history", "replay", "live"} /\ reader.kind # "watch" =>
        reader.wf \in DOMAIN instances
    /\ ReaderInOrder(reader)

LEMMA SeenType ==
  ASSUME NEW reader \in Reader
  PROVE  /\ reader.got \in Seq(Item) /\ reader.chan \in Seq(Item)
         /\ reader.replay \in Seq(Item) /\ reader.at \in Nat
         /\ Seen(reader) \in Seq(Item)
         /\ Range(Seen(reader)) \subseteq Item
<1>1. /\ reader.got \in Seq(Item) /\ reader.chan \in Seq(Item)
      /\ reader.replay \in Seq(Item) /\ reader.at \in Nat
  BY DEF Reader
<1>2. Seen(reader) \in Seq(Item)
  BY <1>1, ConcatProperties DEF Seen
<1>. QED  BY <1>1, <1>2, SeqRange

\* An empty stream is in order whatever it goes on with.
LEMMA NothingSeen ==
  ASSUME NEW reader \in Reader, Seen(reader) = <<>>
  PROVE  /\ Ordered(Seen(reader)) /\ OneRepeat(Seen(reader)) /\ Rising(Seen(reader))
         /\ Range(Seen(reader)) = {}
<1>1. Rising(<<>>) /\ Range(<<>>) = {} /\ <<>> \in Seq(Item)
  BY DEF Rising, Range
<1>. QED  BY <1>1, RisingIsOrdered

\* Two sequences, and an item that joins the second or goes over to the first.
LEMMA ConcatAppend ==
  ASSUME NEW s \in Seq(Item), NEW t \in Seq(Item), NEW x \in Item
  PROVE  s \o Append(t, x) = Append(s \o t, x)
<1>1. <<x>> \in Seq(Item) /\ s \o t \in Seq(Item)
  BY ConcatProperties
<1>2. Append(t, x) = t \o <<x>> /\ Append(s \o t, x) = (s \o t) \o <<x>>
  BY <1>1, AppendIsConcat
<1>3. (s \o t) \o <<x>> = s \o (t \o <<x>>)
  BY <1>1, ConcatAssociative
<1>. QED  BY <1>2, <1>3

LEMMA ConcatHead ==
  ASSUME NEW s \in Seq(Item), NEW t \in Seq(Item), t # <<>>
  PROVE  Append(s, Head(t)) \o Tail(t) = s \o t
<1>1. Head(t) \in Item /\ Tail(t) \in Seq(Item) /\ Len(t) \in Nat \ {0} /\ Head(t) = t[1]
  BY HeadTailProperties, EmptySeq
<1>2. <<Head(t)>> \in Seq(Item)
  BY <1>1
<1>3. Append(s, Head(t)) = s \o <<Head(t)>>
  BY <1>1, AppendIsConcat
<1>4. (s \o <<Head(t)>>) \o Tail(t) = s \o (<<Head(t)>> \o Tail(t))
  BY <1>1, <1>2, ConcatAssociative
<1>5. 1 \in 1..Len(t) /\ Len(t) \in 1..Len(t) /\ 1 + 1 = 2
  BY <1>1
<1>6. SubSeq(t, 1, Len(t)) = <<t[1]>> \o SubSeq(t, 1 + 1, Len(t))
  BY <1>5, SubSeqRecursiveFirst
<1>7. SubSeq(t, 1, Len(t)) = t /\ Tail(t) = SubSeq(t, 2, Len(t))
  BY SubSeqFull, TailIsSubSeq
<1>8. <<Head(t)>> \o Tail(t) = t
  BY <1>1, <1>5, <1>6, <1>7
<1>. QED  BY <1>3, <1>4, <1>8

\* tx.send puts one item behind what was sent.
LEMMA SendAppends ==
  ASSUME NEW reader \in Reader, NEW item \in Item
  PROVE  LET new == [reader EXCEPT !.chan = Append(@, item)] IN
         /\ new \in Reader
         /\ Seen(new) = Append(Seen(reader), item)
         /\ new.phase = reader.phase /\ new.kind = reader.kind /\ new.wf = reader.wf
         /\ new.at = reader.at /\ new.replay = reader.replay
<1>. DEFINE new == [reader EXCEPT !.chan = Append(@, item)]
            q == Append(reader.chan, item)
<1>1. reader.got \in Seq(Item) /\ reader.chan \in Seq(Item)
  BY SeenType
<1>2. q \in Seq(Item)
  BY <1>1, SeqAppend
<1>3. new = [reader EXCEPT !.chan = q]
  OBVIOUS
<1>. HIDE DEF q
<1>4. new \in Reader /\ new.got = reader.got /\ new.chan = q
  BY <1>2, <1>3 DEF Reader
<1>5. /\ new.phase = reader.phase /\ new.kind = reader.kind /\ new.wf = reader.wf
      /\ new.at = reader.at /\ new.replay = reader.replay
  BY <1>3 DEF Reader
<1>6. Seen(new) = reader.got \o Append(reader.chan, item)
  BY <1>4 DEF Seen, q
<1>7. reader.got \o Append(reader.chan, item) = Append(reader.got \o reader.chan, item)
  BY <1>1, ConcatAppend
<1>. QED  BY <1>4, <1>5, <1>6, <1>7 DEF Seen

\* Taking an item from the channel leaves what was sent.
LEMMA ConsumeKeeps ==
  ASSUME NEW reader \in Reader, reader.chan # <<>>
  PROVE  LET new == [reader EXCEPT !.got = Append(@, Head(reader.chan)), !.chan = Tail(@)] IN
         /\ new \in Reader
         /\ Seen(new) = Seen(reader)
         /\ new.phase = reader.phase /\ new.kind = reader.kind /\ new.wf = reader.wf
         /\ new.at = reader.at /\ new.replay = reader.replay
<1>. DEFINE new == [reader EXCEPT !.got = Append(@, Head(reader.chan)), !.chan = Tail(@)]
            g == Append(reader.got, Head(reader.chan))
            q == Tail(reader.chan)
<1>1. reader.got \in Seq(Item) /\ reader.chan \in Seq(Item)
  BY SeenType
<1>2. q \in Seq(Item) /\ Head(reader.chan) \in Item
  BY <1>1, HeadTailProperties
<1>3. g \in Seq(Item)
  BY <1>1, <1>2, SeqAppend
<1>4. new = [reader EXCEPT !.got = g, !.chan = q]
  OBVIOUS
<1>5. g \o q = reader.got \o reader.chan
  BY <1>1, ConcatHead
<1>. HIDE DEF g, q
<1>6. new \in Reader /\ new.got = g /\ new.chan = q
  BY <1>2, <1>3, <1>4 DEF Reader
<1>7. /\ new.phase = reader.phase /\ new.kind = reader.kind /\ new.wf = reader.wf
      /\ new.at = reader.at /\ new.replay = reader.replay
  BY <1>4 DEF Reader
<1>. QED  BY <1>5, <1>6, <1>7 DEF Seen

LEMMA GoneIsGood == GoodReader(GoneReader)
<1>1. GoneReader \in Reader /\ GoneReader.phase = "closed" /\ Seen(GoneReader) = <<>>
  BY IdleTypes
<1>2. Ordered(Seen(GoneReader)) /\ OneRepeat(Seen(GoneReader))
  BY <1>1, NothingSeen
<1>. QED  BY <1>1, <1>2 DEF GoodReader, ReaderInOrder

\* The order is about what was sent and what is left to send.
LEMMA SameStream ==
  ASSUME NEW reader, GoodReader(reader), NEW new \in Reader, Seen(new) = Seen(reader),
         new.phase = reader.phase, new.kind = reader.kind, new.wf = reader.wf,
         new.at = reader.at, new.replay = reader.replay
  PROVE  GoodReader(new)
BY DEF GoodReader, ReaderInOrder, ReplayOK, FollowOK, WatchOK, Pending

LEMMA OpenGood ==
  ASSUME TypeOK, NEW r \in Readers, GoodReader(readers[r]), Open(r)
  PROVE  \E new : GoodReader(new) /\ ReaderStep(r, new)
<1>. DEFINE rd == readers[r]
<1>1. rd \in Reader /\ rd.phase = "idle" /\ Seen(rd) = <<>>
  BY DEF TypeOK, Open, GoodReader, ReaderInOrder
<1>2. PICK kind \in {"logs", "follow", "watch"}, wf \in All..Len(instances) + 1,
           step \in Steps \cup {None} :
        LET known == wf \in DOMAIN instances \/ (kind = "watch" /\ wf = All)
            reader == [rd EXCEPT !.kind = kind, !.wf = wf, !.step = step, !.here = TRUE]
        IN  ReaderStep(r, IF ~known THEN GoneReader
                          ELSE IF kind = "watch" THEN Subscribed(reader, bus)
                          ELSE [reader EXCEPT !.phase = "history"])
  BY DEF Open
<1>. DEFINE reader == [rd EXCEPT !.kind = kind, !.wf = wf, !.step = step, !.here = TRUE]
            watcher == Subscribed(reader, bus)
            log == [reader EXCEPT !.phase = "history"]
<1>3. wf \in Nat /\ Len(bus) \in Nat
  BY DEF TypeOK, All
<1>4. CASE kind = "watch" /\ (wf = All \/ wf \in DOMAIN instances)
  <2>1. watcher \in Reader /\ watcher.kind = "watch" /\ watcher.phase = "live"
        /\ watcher.at = Len(bus)
    BY <1>1, <1>3, <1>4 DEF Subscribed, Reader
  <2>2. Seen(watcher) = <<>>
    <3>1. watcher.got = rd.got /\ watcher.chan = rd.chan
      BY <1>1 DEF Subscribed, Reader
    <3>. QED  BY <1>1, <3>1 DEF Seen
  <2>. HIDE DEF watcher
  <2>3. WatchOK(watcher)
    BY <1>3, <2>1, <2>2, NothingSeen DEF WatchOK
  <2>4. GoodReader(watcher)
    BY <2>1, <2>2, <2>3, NothingSeen DEF GoodReader, ReaderInOrder
  <2>5. ReaderStep(r, watcher)
    BY <1>2, <1>4 DEF watcher
  <2>. QED  BY <2>4, <2>5
<1>5. CASE kind # "watch" /\ wf \in DOMAIN instances
  <2>1. log \in Reader /\ log.kind = kind /\ log.phase = "history" /\ log.wf = wf
    BY <1>1, <1>3 DEF Reader
  <2>2. Seen(log) = <<>>
    <3>1. log.got = rd.got /\ log.chan = rd.chan
      BY <1>1 DEF Reader
    <3>. QED  BY <1>1, <3>1 DEF Seen
  <2>. HIDE DEF log
  <2>3. GoodReader(log)
    BY <1>5, <2>1, <2>2, NothingSeen DEF GoodReader, ReaderInOrder
  <2>4. ReaderStep(r, log)
    BY <1>2, <1>5 DEF log
  <2>. QED  BY <2>3, <2>4
<1>6. CASE wf \notin DOMAIN instances /\ ~(kind = "watch" /\ wf = All)
  BY <1>2, <1>6, GoneIsGood
<1>. QED  BY <1>4, <1>5, <1>6

LEMMA ReadHistoryGood ==
  ASSUME TypeOK, LogsInOrder, NEW r \in Readers, GoodReader(readers[r]), ReadHistory(r)
  PROVE  \E new : GoodReader(new) /\ ReaderStep(r, new)
<1>. DEFINE rd == readers[r]
            h == get_history(rd.wf)
            new == [rd EXCEPT !.phase = "replay", !.replay = h]
<1>1. /\ rd \in Reader /\ rd.phase = "history" /\ Seen(rd) = <<>> /\ rd.kind # "watch"
      /\ rd.wf \in DOMAIN instances
  BY DEF TypeOK, ReadHistory, GoodReader, ReaderInOrder
<1>2. h \in Seq(Item) /\ Rising(h) /\ Range(h) = Written(rd.wf)
  BY <1>1, HistorySorted DEF LogsInOrder
<1>3. ReaderStep(r, new)
  BY DEF ReadHistory
<1>. HIDE DEF h
<1>4. /\ new \in Reader /\ new.phase = "replay" /\ new.replay = h /\ new.wf = rd.wf
      /\ new.kind = rd.kind /\ new.got = rd.got /\ new.chan = rd.chan
  BY <1>1, <1>2 DEF Reader
<1>5. Seen(new) = <<>>
  BY <1>1, <1>4 DEF Seen
<1>. HIDE DEF new
<1>6. ReplayOK(new)
  BY <1>2, <1>4, <1>5, NothingSeen DEF ReplayOK
<1>7. GoodReader(new)
  BY <1>1, <1>4, <1>5, <1>6, NothingSeen DEF GoodReader, ReaderInOrder
<1>. QED  BY <1>3, <1>7

LEMMA ReplayGood ==
  ASSUME TypeOK, NEW r \in Readers, GoodReader(readers[r]), Replay(r)
  PROVE  \E new : GoodReader(new) /\ ReaderStep(r, new)
<1>. DEFINE rd == readers[r]
            x == Head(rd.replay)
            t == Tail(rd.replay)
            reader == [rd EXCEPT !.replay = t]
            sent == [reader EXCEPT !.chan = Append(@, x)]
<1>1. /\ rd \in Reader /\ rd.phase = "replay" /\ rd.kind # "watch" /\ rd.replay # <<>>
      /\ rd.wf \in DOMAIN instances /\ ReplayOK(rd)
  BY DEF TypeOK, Replay, GoodReader, ReaderInOrder
<1>2. rd.replay \in Seq(Item) /\ Seen(rd) \in Seq(Item) /\ Range(Seen(rd)) \subseteq Item
  BY <1>1, SeenType
<1>3. /\ t \in Seq(Item) /\ x \in Item /\ Rising(t)
      /\ Range(t) \cup {x} = Range(rd.replay)
      /\ \A y \in Range(t) : x.n < y.n
  BY <1>1, <1>2, RisingTail DEF ReplayOK
<1>4. \/ ReaderStep(r, GoneReader) \/ ReaderStep(r, reader) \/ ReaderStep(r, sent)
  BY DEF Replay, Send
<1>. HIDE DEF t, x
<1>5. /\ reader \in Reader /\ reader.phase = "replay" /\ reader.replay = t
      /\ reader.wf = rd.wf /\ reader.kind = rd.kind
      /\ reader.got = rd.got /\ reader.chan = rd.chan
  BY <1>1, <1>3 DEF Reader
<1>6. Seen(reader) = Seen(rd)
  BY <1>5 DEF Seen
<1>. HIDE DEF reader
<1>7. /\ sent \in Reader /\ Seen(sent) = Append(Seen(rd), x)
      /\ sent.phase = "replay" /\ sent.replay = t /\ sent.wf = rd.wf /\ sent.kind = rd.kind
  <2>1. reader \in Reader /\ x \in Item  BY <1>3, <1>5
  <2>2. /\ sent \in Reader /\ Seen(sent) = Append(Seen(reader), x)
        /\ sent.phase = reader.phase /\ sent.replay = reader.replay
        /\ sent.wf = reader.wf /\ sent.kind = reader.kind
    BY <2>1, SendAppends
  <2>. HIDE DEF sent
  <2>. QED  BY <1>5, <1>6, <2>2
<1>. HIDE DEF sent
<1>8. GoodReader(reader)
  <2>1. ReplayOK(reader)
    BY <1>1, <1>3, <1>5, <1>6 DEF ReplayOK
  <2>. QED  BY <1>1, <1>5, <1>6, <2>1 DEF GoodReader, ReaderInOrder
<1>9. GoodReader(sent)
  <2>1. \A y \in Range(Seen(rd)) : y.n < x.n
    BY <1>1, <1>3 DEF ReplayOK
  <2>2. Rising(Seen(sent)) /\ Seen(sent) \in Seq(Item)
    BY <1>1, <1>2, <1>3, <1>7, <2>1, RisingAppend, SeqAppend DEF ReplayOK
  <2>3. Range(Seen(sent)) = Range(Seen(rd)) \cup {x}
    BY <1>2, <1>3, <1>7, SeqAppend
  <2>4. ReplayOK(sent)
    BY <1>1, <1>3, <1>7, <2>2, <2>3 DEF ReplayOK
  <2>5. Ordered(Seen(sent)) /\ OneRepeat(Seen(sent))
    BY <2>2, RisingIsOrdered
  <2>. QED  BY <1>1, <1>7, <2>4, <2>5 DEF GoodReader, ReaderInOrder
<1>. QED  BY <1>4, <1>8, <1>9, GoneIsGood

\* What was in the history and not on the channel is at least as new as all
\* that was replayed.
LEMMA SwitchGood ==
  ASSUME TypeOK, LogsInOrder, NEW r \in Readers, GoodReader(readers[r]), Switch(r)
  PROVE  \E new : GoodReader(new) /\ ReaderStep(r, new)
<1>. DEFINE rd == readers[r]
            i == rd.wf
            follower == Subscribed(rd, live[i])
            ended == [rd EXCEPT !.phase = "closed"]
<1>1. /\ rd \in Reader /\ rd.phase = "replay" /\ rd.kind # "watch"
      /\ i \in DOMAIN instances /\ ReplayOK(rd)
      /\ Ordered(Seen(rd)) /\ OneRepeat(Seen(rd))
  BY DEF TypeOK, Switch, GoodReader, ReaderInOrder
<1>2. live[i] \in Seq(Item) /\ Written(i) \subseteq Item /\ LogInOrder(i)
      /\ Len(live[i]) \in Nat
  BY <1>1, LogTypes, SeqRange DEF LogsInOrder
<1>3. ReaderStep(r, follower) \/ ReaderStep(r, ended)
  BY <1>1 DEF Switch, Channel
<1>4. GoodReader(ended)
  <2>1. ended \in Reader /\ ended.phase = "closed" /\ ended.got = rd.got
        /\ ended.chan = rd.chan
    BY <1>1 DEF Reader
  <2>2. Seen(ended) = Seen(rd)  BY <2>1 DEF Seen
  <2>. HIDE DEF ended
  <2>. QED  BY <1>1, <2>1, <2>2 DEF GoodReader, ReaderInOrder
<1>5. GoodReader(follower)
  <2>1. /\ follower \in Reader /\ follower.phase = "live" /\ follower.at = Len(live[i])
        /\ follower.wf = i /\ follower.kind = rd.kind
        /\ follower.got = rd.got /\ follower.chan = rd.chan
    BY <1>1, <1>2 DEF Subscribed, Reader
  <2>2. Seen(follower) = Seen(rd)  BY <2>1 DEF Seen
  <2>. HIDE DEF follower
  <2>3. Pending(follower) = Unsent(i)
    BY <1>2, <2>1, SeqRange DEF Pending, Unsent
  <2>4. ASSUME NEW x \in Range(Seen(rd)), NEW y \in Unsent(i) PROVE x.n <= y.n
    <3>1. x \in Written(i) /\ y \in Written(i)
      BY <1>1 DEF ReplayOK, Unsent
    <3>2. x \in Range(live[i]) \/ x = y
      BY <1>2, <3>1 DEF LogInOrder, Unsent
    <3>3. x.n \in Nat /\ y.n \in Nat
      BY <1>2, <3>1 DEF Item
    <3>. QED  BY <1>2, <3>2, <3>3 DEF LogInOrder
  <2>5. FollowOK(follower)
    BY <1>1, <1>2, <2>1, <2>2, <2>3, <2>4 DEF FollowOK, ReplayOK
  <2>. QED  BY <1>1, <2>1, <2>2, <2>5 DEF GoodReader, ReaderInOrder
<1>. QED  BY <1>3, <1>4, <1>5

\* The next entry of the channel is as new as anything a follower was sent, and
\* older than whatever comes after it.
LEMMA NextEntry ==
  ASSUME TypeOK, LogsInOrder, NEW rd, GoodReader(rd), rd.phase = "live",
         rd.kind # "watch", rd.at < Len(live[rd.wf])
  PROVE  LET x == live[rd.wf][rd.at + 1]
             next == [rd EXCEPT !.at = @ + 1]
         IN  /\ x \in Item /\ x \in Pending(rd) /\ x \in Written(rd.wf)
             /\ next \in Reader /\ Seen(next) = Seen(rd) /\ next.at = rd.at + 1
             /\ next.phase = "live" /\ next.kind = rd.kind /\ next.wf = rd.wf
             /\ next.at <= Len(live[rd.wf])
             /\ Pending(next) \subseteq Pending(rd)
             /\ \A y \in Pending(next) : x.n < y.n
<1>. DEFINE i == rd.wf
            x == live[i][rd.at + 1]
            next == [rd EXCEPT !.at = @ + 1]
<1>1. /\ rd \in Reader /\ i \in DOMAIN instances /\ rd.at \in Nat /\ rd.at + 1 \in Nat
  BY DEF GoodReader, Reader
<1>2. /\ live[i] \in Seq(Item) /\ Written(i) \subseteq Item /\ LogInOrder(i)
      /\ Len(live[i]) \in Nat /\ DOMAIN live[i] = 1..Len(live[i])
  BY <1>1, LogTypes, SeqRange DEF LogsInOrder
<1>3. rd.at + 1 \in 1..Len(live[i])
  BY <1>1, <1>2
<1>4. x \in Range(live[i]) /\ x \in Item /\ x \in Written(i)
  BY <1>2, <1>3, SeqRange DEF LogInOrder
<1>5. \A k \in 1..rd.at : live[i][k] # x
  <2>1. ASSUME NEW k \in 1..rd.at PROVE live[i][k] # x
    <3>1. k \in 1..Len(live[i]) /\ k # rd.at + 1
      BY <1>1, <1>2, <1>3
    <3>. QED  BY <1>2, <1>3, <3>1, RisingCounts DEF LogInOrder
  <2>. QED  BY <2>1
<1>6. x \in Pending(rd)
  BY <1>4, <1>5 DEF Pending
<1>7. /\ next \in Reader /\ next.at = rd.at + 1
      /\ next.phase = "live" /\ next.kind = rd.kind /\ next.wf = i
      /\ next.got = rd.got /\ next.chan = rd.chan
  BY <1>1 DEF Reader
<1>8. Seen(next) = Seen(rd)
  BY <1>7 DEF Seen
<1>. HIDE DEF next
<1>9. Pending(next) \subseteq Pending(rd)
  <2>1. \A k \in 1..rd.at : k \in 1..rd.at + 1  BY <1>1
  <2>. QED  BY <1>7, <2>1 DEF Pending
<1>10. ASSUME NEW y \in Pending(next) PROVE x.n < y.n
  <2>1. y \in Written(i) /\ \A k \in 1..rd.at + 1 : live[i][k] # y
    BY <1>7, <1>10 DEF Pending
  <2>2. CASE y \in Unsent(i)
    BY <1>2, <1>4, <2>2 DEF LogInOrder
  <2>3. CASE y \in Range(live[i])
    <3>1. PICK k \in 1..Len(live[i]) : y = live[i][k]
      BY <1>2, <2>3 DEF Range
    <3>2. rd.at + 1 < k
      BY <1>1, <1>2, <2>1, <3>1
    <3>. QED  BY <1>2, <1>3, <3>1, <3>2 DEF LogInOrder, Rising
  <2>. QED  BY <2>1, <2>2, <2>3 DEF Unsent
<1>11. next.at <= Len(live[i])
  BY <1>1, <1>2, <1>3, <1>7
<1>. QED  BY <1>4, <1>6, <1>7, <1>8, <1>9, <1>10, <1>11 DEF next

\* A follower skips an entry or passes it on: at most the first one that comes
\* over the channel repeats the last one replayed.
LEMMA RelayFollowGood ==
  ASSUME TypeOK, LogsInOrder, NEW r \in Readers, GoodReader(readers[r]), Relay(r),
         readers[r].kind # "watch"
  PROVE  \E new : GoodReader(new) /\ ReaderStep(r, new)
<1>. DEFINE rd == readers[r]
            i == rd.wf
            x == live[i][rd.at + 1]
            next == [rd EXCEPT !.at = @ + 1]
            sent == [next EXCEPT !.chan = Append(@, x)]
<1>1. /\ rd \in Reader /\ rd.phase = "live" /\ rd.kind # "watch" /\ rd.at \in Nat
      /\ i \in DOMAIN instances /\ FollowOK(rd)
      /\ Ordered(Seen(rd)) /\ OneRepeat(Seen(rd))
  BY DEF TypeOK, Relay, GoodReader, ReaderInOrder, Reader
<1>2. rd.at < Len(live[i])
  <2>1. Len(live[i]) - rd.at \in 1..Capacity
    BY <1>1 DEF Relay, Behind, Channel
  <2>2. Len(live[i]) \in Nat /\ Capacity \in Nat
    BY <1>1, LogTypes, SeqRange, BoundsAssumption
  <2>. QED  BY <1>1, <2>1, <2>2
<1>3. /\ x \in Item /\ x \in Pending(rd) /\ x \in Written(i)
      /\ next \in Reader /\ Seen(next) = Seen(rd) /\ next.at = rd.at + 1
      /\ next.phase = "live" /\ next.kind = rd.kind /\ next.wf = i
      /\ next.at <= Len(live[i])
      /\ Pending(next) \subseteq Pending(rd)
      /\ \A y \in Pending(next) : x.n < y.n
  BY <1>1, <1>2, NextEntry
<1>4. ReaderStep(r, GoneReader) \/ ReaderStep(r, next) \/ ReaderStep(r, sent)
  BY <1>1 DEF Relay, Channel, Send
<1>. HIDE DEF next, x
<1>5. /\ sent \in Reader /\ Seen(sent) = Append(Seen(rd), x)
      /\ sent.phase = "live" /\ sent.kind = rd.kind /\ sent.wf = i /\ sent.at = next.at
  BY <1>3, SendAppends
<1>. HIDE DEF sent
<1>6. Pending(sent) = Pending(next)
  BY <1>3, <1>5 DEF Pending
<1>7. Seen(rd) \in Seq(Item) /\ Range(Seen(rd)) \subseteq Item
      /\ Range(Seen(rd)) \subseteq Written(i) /\ Written(i) \subseteq Item
  BY <1>1, SeenType, LogTypes DEF FollowOK
<1>8. /\ \A y \in Range(Seen(rd)) : y.n \in Nat
      /\ x.n \in Nat
      /\ \A y \in Pending(next) : y.n \in Nat
      /\ \A y \in Range(Seen(rd)) : y.n <= x.n
  <2>1. /\ \A y \in Range(Seen(rd)) : y.n \in Nat
        /\ x.n \in Nat
    BY <1>3, <1>7 DEF Item
  <2>2. \A y \in Pending(next) : y.n \in Nat
    BY <1>3, <1>7 DEF Pending, Item
  <2>3. \A y \in Range(Seen(rd)) : y.n <= x.n
    BY <1>1, <1>3, <2>1 DEF FollowOK
  <2>. QED  BY <2>1, <2>2, <2>3
<1>9. \A z \in Range(Seen(rd)), y \in Pending(next) : z.n < y.n
  BY <1>3, <1>8
<1>10. GoodReader(next)
  <2>1. FollowOK(next)
    BY <1>3, <1>7, <1>9 DEF FollowOK
  <2>. QED  BY <1>1, <1>3, <2>1 DEF GoodReader, ReaderInOrder
<1>11. GoodReader(sent)
  <2>1. Range(Seen(sent)) = Range(Seen(rd)) \cup {x}
    BY <1>3, <1>5, <1>7, SeqAppend
  <2>2. FollowOK(sent)
    BY <1>3, <1>5, <1>6, <1>7, <1>9, <2>1 DEF FollowOK
  <2>3. Ordered(Seen(sent))
    BY <1>1, <1>3, <1>5, <1>7, <1>8, OrderedAppend
  <2>4. CASE Rising(Seen(rd))
    <3>1. Repeats(Seen(rd)) = {}  BY <1>7, <2>4, RisingIsOrdered
    <3>2. Repeats(Seen(sent)) \subseteq {Len(Seen(rd))}
      BY <1>3, <1>5, <1>7, <3>1, RepeatsAppend
    <3>3. OneRepeat(Seen(sent))  BY <3>2 DEF OneRepeat
    <3>. QED  BY <1>1, <1>5, <2>2, <2>3, <3>3 DEF GoodReader, ReaderInOrder
  <2>5. CASE \A z \in Range(Seen(rd)), y \in Pending(rd) : z.n < y.n
    <3>1. \A z \in Range(Seen(rd)) : z.n < x.n  BY <1>3, <2>5
    <3>2. \A z \in Range(Seen(rd)) : z # x  BY <1>8, <3>1
    <3>3. Repeats(Seen(sent)) = Repeats(Seen(rd))
      BY <1>3, <1>5, <1>7, <3>2, RepeatsAppend
    <3>4. OneRepeat(Seen(sent))  BY <1>1, <3>3 DEF OneRepeat
    <3>. QED  BY <1>1, <1>5, <2>2, <2>3, <3>4 DEF GoodReader, ReaderInOrder
  <2>. QED  BY <1>1, <2>4, <2>5 DEF FollowOK
<1>. QED  BY <1>4, <1>10, <1>11, GoneIsGood

LEMMA RelayWatchGood ==
  ASSUME TypeOK, BusNumbered, NEW r \in Readers, GoodReader(readers[r]), Relay(r),
         readers[r].kind = "watch"
  PROVE  \E new : GoodReader(new) /\ ReaderStep(r, new)
<1>. DEFINE rd == readers[r]
            x == bus[rd.at + 1]
            next == [rd EXCEPT !.at = @ + 1]
            sent == [next EXCEPT !.chan = Append(@, x)]
<1>1. /\ rd \in Reader /\ rd.phase = "live" /\ rd.kind = "watch"
      /\ rd.at \in Nat /\ rd.at + 1 \in Nat /\ WatchOK(rd)
  BY DEF TypeOK, Relay, GoodReader, ReaderInOrder, Reader
<1>2. bus \in Seq(Item) /\ Len(bus) \in Nat /\ DOMAIN bus = 1..Len(bus)
  BY SeqRange DEF TypeOK
<1>3. rd.at + 1 \in 1..Len(bus)
  <2>1. Len(bus) - rd.at \in 1..Capacity
    BY <1>1 DEF Relay, Behind, Channel
  <2>2. Capacity \in Nat
    BY BoundsAssumption
  <2>. QED  BY <1>1, <1>2, <2>1, <2>2
<1>4. x \in Item /\ x.n = rd.at + 1
  BY <1>2, <1>3, ElementOfSeq DEF BusNumbered
<1>5. ReaderStep(r, GoneReader) \/ ReaderStep(r, next) \/ ReaderStep(r, sent)
  BY <1>1 DEF Relay, Channel, Send
<1>6. /\ next \in Reader /\ next.at = rd.at + 1 /\ next.phase = "live"
      /\ next.kind = "watch" /\ next.got = rd.got /\ next.chan = rd.chan
  BY <1>1 DEF Reader
<1>7. Seen(next) = Seen(rd)
  BY <1>6 DEF Seen
<1>. HIDE DEF next, x
<1>8. /\ sent \in Reader /\ Seen(sent) = Append(Seen(rd), x)
      /\ sent.phase = "live" /\ sent.kind = "watch" /\ sent.at = rd.at + 1
  BY <1>4, <1>6, <1>7, SendAppends
<1>. HIDE DEF sent
<1>9. Seen(rd) \in Seq(Item) /\ \A y \in Range(Seen(rd)) : y.n \in Nat /\ y.n <= rd.at
  BY <1>1, SeenType DEF WatchOK, Item
<1>10. rd.at + 1 <= Len(bus) /\ \A y \in Range(Seen(rd)) : y.n <= rd.at + 1 /\ y.n < x.n
  BY <1>1, <1>2, <1>3, <1>4, <1>9
<1>11. GoodReader(next)
  <2>1. WatchOK(next)
    BY <1>1, <1>6, <1>7, <1>10 DEF WatchOK
  <2>. QED  BY <1>6, <1>7, <2>1 DEF GoodReader, ReaderInOrder
<1>12. GoodReader(sent)
  <2>1. Rising(Seen(sent)) /\ Seen(sent) \in Seq(Item)
    BY <1>1, <1>4, <1>8, <1>9, <1>10, RisingAppend, SeqAppend DEF WatchOK
  <2>2. Range(Seen(sent)) = Range(Seen(rd)) \cup {x}
    BY <1>4, <1>8, <1>9, SeqAppend
  <2>3. WatchOK(sent)
    BY <1>1, <1>4, <1>8, <1>10, <2>1, <2>2 DEF WatchOK
  <2>4. Ordered(Seen(sent)) /\ OneRepeat(Seen(sent))
    BY <2>1, RisingIsOrdered
  <2>. QED  BY <1>8, <2>3, <2>4 DEF GoodReader, ReaderInOrder
<1>. QED  BY <1>5, <1>11, <1>12, GoneIsGood

\* Entries that were overwritten are skipped: less can still come.
LEMMA LagGood ==
  ASSUME TypeOK, LogsInOrder, NEW r \in Readers, GoodReader(readers[r]), Lag(r)
  PROVE  \E new : GoodReader(new) /\ ReaderStep(r, new)
<1>. DEFINE rd == readers[r]
            a == Len(Channel(r)) - Capacity
            new == [rd EXCEPT !.at = a, !.lagged = TRUE]
<1>1. rd \in Reader /\ rd.phase = "live" /\ rd.at \in Nat /\ Capacity \in Nat
  BY BoundsAssumption DEF TypeOK, Lag, Reader
<1>2. Len(Channel(r)) \in Nat /\ Len(Channel(r)) - rd.at > Capacity
  <2>1. Len(Channel(r)) - rd.at > Capacity
    BY DEF Lag, Behind
  <2>2. CASE rd.kind = "watch"
    <3>1. Channel(r) = bus /\ bus \in Seq(Item)  BY <2>2 DEF Channel, TypeOK
    <3>. QED  BY <2>1, <3>1, SeqRange
  <2>3. CASE rd.kind # "watch"
    <3>1. rd.wf \in DOMAIN instances  BY <1>1, <2>3 DEF TypeOK
    <3>2. Channel(r) = live[rd.wf] /\ live[rd.wf] \in Seq(Item)
      BY <2>3, <3>1, LogTypes DEF Channel
    <3>. QED  BY <2>1, <3>2, SeqRange
  <2>. QED  BY <2>2, <2>3
<1>3. a \in Nat /\ rd.at < a /\ a <= Len(Channel(r))
  BY <1>1, <1>2
<1>4. ReaderStep(r, new)
  BY DEF Lag
<1>. HIDE DEF a
<1>5. /\ new \in Reader /\ new.at = a /\ new.phase = "live" /\ new.kind = rd.kind
      /\ new.wf = rd.wf /\ new.got = rd.got /\ new.chan = rd.chan
  BY <1>1, <1>3 DEF Reader
<1>6. Seen(new) = Seen(rd)
  BY <1>5 DEF Seen
<1>. HIDE DEF new
<1>7. CASE rd.kind = "watch"
  <2>1. Channel(r) = bus  BY <1>7 DEF Channel
  <2>2. WatchOK(rd)  BY <1>1, <1>7 DEF GoodReader, ReaderInOrder
  <2>3. \A x \in Range(Seen(rd)) : x.n \in Nat  BY <1>1, SeenType DEF Item
  <2>4. WatchOK(new)
    BY <1>1, <1>3, <1>5, <1>6, <2>1, <2>2, <2>3 DEF WatchOK
  <2>5. GoodReader(new)
    BY <1>5, <1>6, <1>7, <2>4 DEF GoodReader, ReaderInOrder
  <2>. QED  BY <1>4, <2>5
<1>8. CASE rd.kind # "watch"
  <2>1. Channel(r) = live[rd.wf]  BY <1>8 DEF Channel
  <2>2. FollowOK(rd) /\ rd.wf \in DOMAIN instances
    BY <1>1, <1>8 DEF GoodReader, ReaderInOrder
  <2>3. Pending(new) \subseteq Pending(rd)
    <3>1. \A k \in 1..rd.at : k \in 1..a  BY <1>1, <1>3
    <3>. QED  BY <1>5, <3>1 DEF Pending
  <2>4. FollowOK(new)
    BY <1>3, <1>5, <1>6, <2>1, <2>2, <2>3 DEF FollowOK
  <2>5. GoodReader(new)
    BY <1>5, <1>6, <1>8, <2>2, <2>4 DEF GoodReader, ReaderInOrder
  <2>. QED  BY <1>4, <2>5
<1>. QED  BY <1>7, <1>8

LEMMA ClientGood ==
  ASSUME TypeOK, NEW r \in Readers, GoodReader(readers[r]), Consume(r) \/ Leave(r)
  PROVE  \E new : GoodReader(new) /\ ReaderStep(r, new)
<1>. DEFINE rd == readers[r]
<1>1. rd \in Reader
  BY DEF TypeOK
<1>2. CASE Consume(r)
  <2>. DEFINE new == [rd EXCEPT !.got = Append(@, Head(rd.chan)), !.chan = Tail(@)]
  <2>1. ReaderStep(r, new) /\ rd.chan # <<>>
    BY <1>2 DEF Consume
  <2>2. GoodReader(new)
    <3>1. /\ new \in Reader /\ Seen(new) = Seen(rd)
          /\ new.phase = rd.phase /\ new.kind = rd.kind /\ new.wf = rd.wf
          /\ new.at = rd.at /\ new.replay = rd.replay
      BY <1>1, <2>1, ConsumeKeeps
    <3>. HIDE DEF new
    <3>. QED  BY <3>1, SameStream
  <2>. QED  BY <2>1, <2>2
<1>3. CASE Leave(r)
  <2>. DEFINE new == [rd EXCEPT !.here = FALSE, !.chan = <<>>, !.got = <<>>]
  <2>1. ReaderStep(r, new)
    BY <1>3 DEF Leave
  <2>2. /\ new \in Reader /\ new.got = <<>> /\ new.chan = <<>>
        /\ new.phase = rd.phase /\ new.kind = rd.kind /\ new.wf = rd.wf
        /\ new.at = rd.at /\ new.replay = rd.replay
    <3>1. <<>> \in Seq(Item)  OBVIOUS
    <3>2. new \in Reader  BY <1>1, <3>1 DEF Reader
    <3>3. new.got = <<>> /\ new.chan = <<>>  BY <1>1 DEF Reader
    <3>4. /\ new.phase = rd.phase /\ new.kind = rd.kind /\ new.wf = rd.wf
          /\ new.at = rd.at /\ new.replay = rd.replay
      BY <1>1 DEF Reader
    <3>. QED  BY <3>2, <3>3, <3>4
  <2>3. Seen(new) = <<>>
    <3>1. <<>> \in Seq(Item)  OBVIOUS
    <3>. QED  BY <2>2, <3>1, ConcatEmptySeq DEF Seen
  <2>. HIDE DEF new
  <2>4. /\ Ordered(Seen(new)) /\ OneRepeat(Seen(new)) /\ Rising(Seen(new))
        /\ Range(Seen(new)) = {}
    BY <2>2, <2>3, NothingSeen
  <2>5. ReplayOK(rd) => ReplayOK(new)
    BY <2>2, <2>4 DEF ReplayOK
  <2>6. FollowOK(rd) => FollowOK(new)
    BY <2>2, <2>4 DEF FollowOK
  <2>7. WatchOK(rd) => WatchOK(new)
    BY <2>2, <2>4 DEF WatchOK
  <2>8. GoodReader(new)
    BY <2>2, <2>3, <2>4, <2>5, <2>6, <2>7 DEF GoodReader, ReaderInOrder
  <2>. QED  BY <2>1, <2>8
<1>. QED  BY <1>2, <1>3

\* Chunks that are written later are newer, and a channel only grows.
LEMMA ReaderKept ==
  ASSUME NEW rd, GoodReader(rd), DOMAIN instances \subseteq DOMAIN instances',
         Len(bus) \in Nat, Len(bus') \in Nat, Len(bus) <= Len(bus'),
         \A i \in DOMAIN instances :
            /\ Written(i) \subseteq Written(i)'
            /\ \A y \in Written(i)' : y.n \in Nat
            /\ \A x \in Written(i), y \in Written(i)' \ Written(i) : x.n < y.n
            /\ Len(live[i]) \in Nat /\ Len(live'[i]) \in Nat
            /\ Len(live[i]) <= Len(live'[i])
            /\ \A k \in 1..Len(live[i]) : live'[i][k] = live[i][k]
  PROVE  GoodReader(rd)'
<1>1. rd \in Reader /\ rd.at \in Nat /\ ReaderInOrder(rd)
  BY DEF GoodReader, Reader
<1>2. rd.phase \in {"history", "replay", "live"} /\ rd.kind # "watch" =>
        rd.wf \in DOMAIN instances
  BY DEF GoodReader
<1>3. ASSUME rd.phase = "replay" PROVE ReplayOK(rd)'
  <2>1. ReplayOK(rd) /\ rd.wf \in DOMAIN instances
    BY <1>1, <1>2, <1>3 DEF ReaderInOrder
  <2>. QED  BY <2>1 DEF ReplayOK, Seen, Rising, Range
<1>4. ASSUME rd.phase = "live", rd.kind # "watch" PROVE FollowOK(rd)'
  <2>1. FollowOK(rd) /\ rd.wf \in DOMAIN instances
    BY <1>1, <1>2, <1>4 DEF ReaderInOrder
  <2>. DEFINE i == rd.wf
  <2>2. {live'[i][k] : k \in 1..rd.at} = {live[i][k] : k \in 1..rd.at}
    <3>1. \A k \in 1..rd.at : k \in 1..Len(live[i])  BY <1>1, <2>1 DEF FollowOK
    <3>2. \A k \in 1..rd.at : live'[i][k] = live[i][k]  BY <2>1, <3>1
    <3>. QED  BY <3>2
  <2>3. ASSUME NEW y \in Pending(rd)'
        PROVE  y \in Pending(rd) \/ \A x \in Written(i) : x.n < y.n
    <3>1. y \in Written(i)' /\ y \notin {live'[i][k] : k \in 1..rd.at}
      BY <2>3 DEF Pending
    <3>2. CASE y \in Written(i)  BY <2>2, <3>1, <3>2 DEF Pending
    <3>3. CASE y \notin Written(i)  BY <2>1, <3>1, <3>3
    <3>. QED  BY <3>2, <3>3
  <2>4. rd.at <= Len(live'[i]) /\ Range(Seen(rd)) \subseteq Written(i)'
    BY <1>1, <2>1 DEF FollowOK
  <2>5. \A x \in Range(Seen(rd)) : x \in Written(i) /\ x.n \in Nat
    BY <2>1 DEF FollowOK
  <2>6. CASE Rising(Seen(rd)) /\ \A x \in Range(Seen(rd)), y \in Pending(rd) : x.n <= y.n
    <3>1. \A y \in Pending(rd)' : (y \in Pending(rd) \/ \A x \in Written(i) : x.n < y.n)
      BY <2>3
    <3>2. Pending(rd)' \subseteq Written(i)'  BY DEF Pending
    <3>3. \A x \in Range(Seen(rd)), y \in Pending(rd)' : x.n <= y.n
      BY <2>1, <2>5, <2>6, <3>1, <3>2
    <3>. QED  BY <2>4, <2>6, <3>3 DEF FollowOK
  <2>7. CASE \A x \in Range(Seen(rd)), y \in Pending(rd) : x.n < y.n
    <3>1. \A x \in Range(Seen(rd)), y \in Pending(rd)' : x.n < y.n
      BY <2>3, <2>5, <2>7
    <3>. QED  BY <2>4, <3>1 DEF FollowOK
  <2>. QED  BY <2>1, <2>6, <2>7 DEF FollowOK
<1>5. ASSUME rd.phase = "live", rd.kind = "watch" PROVE WatchOK(rd)'
  <2>1. WatchOK(rd)
    BY <1>1, <1>5 DEF ReaderInOrder
  <2>. QED  BY <1>1, <2>1 DEF WatchOK
<1>. QED  BY <1>1, <1>2, <1>3, <1>4, <1>5 DEF GoodReader, ReaderInOrder

-----------------------------------------------------------------------------
(* The invariant of the streams.                                           *)

StreamInv == TypeOK /\ LogsInOrder /\ BusNumbered /\ ReadersInOrder

LEMMA ReadersGood ==
  ASSUME StreamInv
  PROVE  \A r \in Readers : readers[r] \in Reader /\ GoodReader(readers[r])
BY DEF StreamInv, ReadersInOrder, GoodReader, TypeOK

\* A step of a stream or of its client.
LEMMA ReaderStepInv ==
  ASSUME StreamInv, NEW r \in Readers, Open(r) \/ Stream(r) \/ Leave(r)
  PROVE  StreamInv'
<1>1. TypeOK /\ LogsInOrder /\ BusNumbered /\ GoodReader(readers[r])
  BY ReadersGood DEF StreamInv
<1>2. \E new : GoodReader(new) /\ ReaderStep(r, new)
  <2>1. CASE Open(r)  BY <1>1, <2>1, OpenGood
  <2>2. CASE ReadHistory(r)  BY <1>1, <2>2, ReadHistoryGood
  <2>3. CASE Replay(r)  BY <1>1, <2>3, ReplayGood
  <2>4. CASE Switch(r)  BY <1>1, <2>4, SwitchGood
  <2>5. CASE Relay(r)  BY <1>1, <2>5, RelayFollowGood, RelayWatchGood
  <2>6. CASE Lag(r)  BY <1>1, <2>6, LagGood
  <2>7. CASE Consume(r) \/ Leave(r)  BY <1>1, <2>7, ClientGood
  <2>. QED  BY <2>1, <2>2, <2>3, <2>4, <2>5, <2>6, <2>7 DEF Stream
<1>3. PICK new : GoodReader(new) /\ ReaderStep(r, new)
  BY <1>2
<1>4. /\ readers' = [readers EXCEPT ![r] = new] /\ readers \in [Readers -> Reader]
      /\ boot' = boot /\ jwks' = jwks /\ registered' = registered /\ calls' = calls
      /\ events' = events /\ instances' = instances /\ history' = history
      /\ live' = live /\ chunks' = chunks /\ bus' = bus /\ faults' = faults
  BY <1>1, <1>3 DEF ReaderStep, serverVars, storeVars, logVars, TypeOK
<1>5. ASSUME NEW q \in Readers
      PROVE  /\ readers'[q] \in Reader
             /\ readers'[q].phase \in {"history", "replay", "live"}
                /\ readers'[q].kind # "watch" => readers'[q].wf \in DOMAIN instances
             /\ ReaderInOrder(readers'[q])
  <2>1. readers'[q] = IF q = r THEN new ELSE readers[q]
    BY <1>4
  <2>2. GoodReader(readers[q])
    BY ReadersGood
  <2>. QED  BY <1>3, <2>1, <2>2 DEF GoodReader
<1>6. \A i : Written(i)' = Written(i) /\ Unsent(i)' = Unsent(i)
  BY <1>4 DEF Written, Unsent
<1>7. LogsInOrder'
  BY <1>1, <1>4, <1>6 DEF LogsInOrder, LogInOrder
<1>8. BusNumbered'
  BY <1>1, <1>4 DEF BusNumbered
<1>9. ASSUME NEW q \in Readers PROVE ReaderInOrder(readers[q])'
  <2>1. ReaderInOrder(readers'[q])
    BY <1>5
  <2>. QED  BY <1>4, <1>6, <2>1 DEF ReaderInOrder, ReplayOK, FollowOK, WatchOK, Pending,
                                     Written
<1>10. readers' \in [Readers -> Reader]
  BY <1>3, <1>4 DEF GoodReader
<1>11. TypeOK'
  BY <1>1, <1>4, <1>5, <1>10 DEF TypeOK
<1>. QED  BY <1>7, <1>8, <1>9, <1>11 DEF StreamInv, ReadersInOrder

\* A step that leaves the readers alone: what they may still be sent only grows.
LEMMA ReadersKept ==
  ASSUME StreamInv, readers' = readers, DOMAIN instances \subseteq DOMAIN instances',
         Len(bus) \in Nat, Len(bus') \in Nat, Len(bus) <= Len(bus'),
         \A i \in DOMAIN instances :
            /\ Written(i) \subseteq Written(i)'
            /\ \A y \in Written(i)' : y.n \in Nat
            /\ \A x \in Written(i), y \in Written(i)' \ Written(i) : x.n < y.n
            /\ Len(live[i]) \in Nat /\ Len(live'[i]) \in Nat
            /\ Len(live[i]) <= Len(live'[i])
            /\ \A k \in 1..Len(live[i]) : live'[i][k] = live[i][k]
  PROVE  ReadersInOrder'
<1>1. SUFFICES ASSUME NEW r \in Readers PROVE ReaderInOrder(readers[r])'
  BY DEF ReadersInOrder
<1>2. PICK rd : rd = readers[r]
  OBVIOUS
<1>3. GoodReader(rd)
  BY <1>2, ReadersGood
<1>4. GoodReader(rd)'
  BY <1>3, ReaderKept
<1>5. ReaderInOrder(rd)'
  BY <1>4 DEF GoodReader
<1>6. readers'[r] = rd
  BY <1>2
<1>. QED  BY <1>5, <1>6 DEF ReaderInOrder, ReplayOK, FollowOK, WatchOK, Pending

\* What is written, for the readers.
LEMMA LogFacts ==
  ASSUME StreamInv
  PROVE  /\ Len(bus) \in Nat /\ chunks \in Nat
         /\ \A i \in DOMAIN instances :
              /\ live[i] \in Seq(Item) /\ Len(live[i]) \in Nat
              /\ \A y \in Written(i) : y \in Item /\ y.n \in Nat /\ y.n <= chunks
<1>1. TypeOK /\ LogsInOrder
  BY DEF StreamInv
<1>2. Len(bus) \in Nat /\ chunks \in Nat
  <2>1. bus \in Seq(Item) /\ chunks \in 0..MaxChunks /\ MaxChunks \in Nat
    BY <1>1, BoundsAssumption DEF TypeOK
  <2>. QED  BY <2>1, SeqRange
<1>3. ASSUME NEW i \in DOMAIN instances
      PROVE  /\ live[i] \in Seq(Item) /\ Len(live[i]) \in Nat
             /\ \A y \in Written(i) : y \in Item /\ y.n \in Nat /\ y.n <= chunks
  <2>1. live[i] \in Seq(Item) /\ Written(i) \subseteq Item
    BY <1>1, LogTypes
  <2>2. \A y \in Written(i) : y.n \in Nat
    BY <2>1 DEF Item
  <2>. QED  BY <1>1, <2>1, <2>2, SeqRange DEF LogsInOrder, LogInOrder
<1>. QED  BY <1>2, <1>3

LEMMA CallStepInv ==
  ASSUME StreamInv, NEW c \in Calls,
         \/ Receive(c) \/ Cut(c) \/ Retry(c) \/ Publish(c) \/ Announce(c)
         \/ NextTrigger(c) \/ CreateInstance(c) \/ QueueInstance(c) \/ LoadBack(c)
  PROVE  StreamInv'
<1>1. TypeOK /\ LogsInOrder /\ BusNumbered
  BY DEF StreamInv
<1>2. TypeOK' /\ LogsInOrder' /\ BusNumbered'
  BY <1>1, CallStepTypes, CallKeepsOrder
<1>3. readers' = readers /\ DOMAIN instances \subseteq DOMAIN instances'
  BY <1>1, CallStores, StoreGrows
<1>4. Len(bus) \in Nat /\ Len(bus') \in Nat /\ Len(bus) <= Len(bus')
  <2>. DEFINE x == [n |-> Len(bus) + 1, wf |-> calls[c].wf, step |-> None]
  <2>1. bus' = bus \/ bus' = Append(bus, x)
    BY <1>1, CallStores
  <2>2. bus \in Seq(Item) /\ calls[c].wf \in Nat /\ Len(bus) \in Nat /\ Len(bus) + 1 \in Nat
    BY <1>1 DEF TypeOK, Call
  <2>3. x \in Item  BY <2>2 DEF Item
  <2>. HIDE DEF x
  <2>4. Len(Append(bus, x)) = Len(bus) + 1  BY <2>2, <2>3, SeqAppend
  <2>. QED  BY <2>1, <2>2, <2>4
<1>5. ASSUME NEW i \in DOMAIN instances
      PROVE  Written(i)' = Written(i) /\ live'[i] = live[i]
  <2>1. history'[i] = history[i] /\ live'[i] = live[i]  BY <1>1, StoreGrows
  <2>. QED  BY <2>1 DEF Written
<1>6. ReadersInOrder'
  BY <1>3, <1>4, <1>5, LogFacts, ReadersKept
<1>. QED  BY <1>2, <1>6 DEF StreamInv

LEMMA WriteStepInv ==
  ASSUME StreamInv, NEW i \in DOMAIN instances, WriteHistory(i) \/ WriteLive(i)
  PROVE  StreamInv'
<1>1. TypeOK /\ LogsInOrder /\ BusNumbered
  BY DEF StreamInv
<1>2. TypeOK' /\ LogsInOrder'
  BY <1>1, WriteTypes, HistoryInOrder, LiveInOrder
<1>3. bus' = bus /\ readers' = readers /\ instances' = instances
  BY <1>1, WriteTypes
<1>4. BusNumbered'
  BY <1>1, <1>3 DEF BusNumbered
<1>5. CASE WriteHistory(i)
  <2>1. PICK y \in Item :
          /\ y.n = chunks + 1 /\ chunks' = chunks + 1
          /\ Written(i)' = Written(i) \cup {y}
          /\ \A j \in DOMAIN instances \ {i} : Written(j)' = Written(j)
          /\ UNCHANGED <<instances, live, bus, readers>>
    BY <1>1, <1>5, WriteTypes
  <2>2. ASSUME NEW j \in DOMAIN instances
        PROVE  /\ Written(j) \subseteq Written(j)'
               /\ \A z \in Written(j)' : z.n \in Nat
               /\ \A x \in Written(j), z \in Written(j)' \ Written(j) : x.n < z.n
    <3>1. CASE j = i
      <4>1. y.n \in Nat /\ chunks \in Nat  BY <2>1, LogFacts DEF Item
      <4>2. \A x \in Written(i) : x.n \in Nat /\ x.n < y.n  BY <2>1, <4>1, LogFacts
      <4>. QED  BY <2>1, <3>1, <4>1, <4>2
    <3>2. CASE j # i  BY <2>1, <3>2, LogFacts
    <3>. QED  BY <3>1, <3>2
  <2>3. \A j \in DOMAIN instances :
          /\ live'[j] = live[j] /\ Len(live[j]) \in Nat /\ Len(live[j]) <= Len(live[j])
    BY <2>1, LogFacts
  <2>4. Len(bus) \in Nat /\ Len(bus) <= Len(bus)
    BY LogFacts
  <2>5. ReadersInOrder'
    BY <1>3, <2>2, <2>3, <2>4, ReadersKept
  <2>. QED  BY <1>2, <1>4, <2>5 DEF StreamInv
<1>6. CASE WriteLive(i)
  <2>1. PICK y \in Unsent(i) :
          /\ live'[i] = Append(live[i], y)
          /\ \A j \in DOMAIN instances \ {i} : live'[j] = live[j]
          /\ UNCHANGED <<instances, history, chunks, bus, readers>>
    BY <1>1, <1>6, WriteTypes
  <2>2. \A j : Written(j)' = Written(j)
    BY <2>1 DEF Written
  <2>3. ASSUME NEW j \in DOMAIN instances
        PROVE  /\ Len(live[j]) \in Nat /\ Len(live'[j]) \in Nat
               /\ Len(live[j]) <= Len(live'[j])
               /\ \A k \in 1..Len(live[j]) : live'[j][k] = live[j][k]
    <3>1. live[j] \in Seq(Item) /\ Len(live[j]) \in Nat  BY LogFacts
    <3>2. CASE j = i
      <4>1. y \in Item  BY <2>1, LogFacts DEF Unsent
      <4>2. /\ Len(live'[i]) = Len(live[i]) + 1
            /\ \A k \in 1..Len(live[i]) : live'[i][k] = live[i][k]
        BY <2>1, <3>1, <3>2, <4>1, SeqAppend
      <4>. QED  BY <3>1, <3>2, <4>2
    <3>3. CASE j # i  BY <2>1, <3>1, <3>3
    <3>. QED  BY <3>2, <3>3
  <2>4. Len(bus) \in Nat /\ Len(bus) <= Len(bus)
    BY LogFacts
  <2>5. ReadersInOrder'
    BY <1>3, <2>2, <2>3, <2>4, LogFacts, ReadersKept
  <2>. QED  BY <1>2, <1>4, <2>5 DEF StreamInv
<1>. QED  BY <1>5, <1>6

\* Without a stream there is nothing that could be out of order.
LEMMA DisconnectedInOrder ==
  ASSUME readers' = Disconnected
  PROVE  ReadersInOrder'
<1>1. SUFFICES ASSUME NEW r \in Readers PROVE ReaderInOrder(readers[r])'
  BY DEF ReadersInOrder
<1>2. /\ readers'[r].phase \in {"idle", "closed"} /\ Seen(readers'[r]) = <<>>
      /\ readers'[r] \in Reader
  BY DisconnectedTypes
<1>3. Ordered(Seen(readers'[r])) /\ OneRepeat(Seen(readers'[r]))
  BY <1>2, NothingSeen
<1>. QED  BY <1>2, <1>3 DEF ReaderInOrder

\* A new process has written and published nothing.
LEMMA RestartInv ==
  ASSUME StreamInv, Restart
  PROVE  StreamInv'
<1>1. /\ TypeOK' /\ bus' = <<>> /\ instances' = instances
      /\ \A i \in DOMAIN instances' : Written(i)' = {} /\ live'[i] = <<>>
  BY RestartTypes DEF StreamInv
<1>2. BusNumbered'
  BY <1>1 DEF BusNumbered
<1>3. LogsInOrder'
  <2>1. SUFFICES ASSUME NEW i \in DOMAIN instances' PROVE LogInOrder(i)'
    BY DEF LogsInOrder
  <2>2. Written(i)' = {} /\ live'[i] = <<>> /\ Unsent(i)' = {}
    BY <1>1 DEF Unsent
  <2>3. Rising(<<>>) /\ Range(<<>>) = {}
    BY DEF Rising, Range
  <2>. QED  BY <2>2, <2>3 DEF LogInOrder
<1>4. ReadersInOrder'
  BY DisconnectedInOrder DEF Restart
<1>. QED  BY <1>1, <1>2, <1>3, <1>4 DEF StreamInv

\* Start-up leaves everything alone that this is about; shutdown closes every
\* stream.
LEMMA BootStepInv ==
  ASSUME StreamInv,
         \/ BuildProviders \/ load_yaml_definitions \/ StartEngine \/ AuthNew
         \/ Shutdown \/ UNCHANGED vars
  PROVE  StreamInv'
<1>1. TypeOK /\ LogsInOrder /\ BusNumbered
  BY DEF StreamInv
<1>2. /\ instances' = instances /\ history' = history /\ live' = live
      /\ chunks' = chunks /\ bus' = bus
  BY DEF BuildProviders, load_yaml_definitions, StartEngine, AuthNew, BootTo, Shutdown,
         vars, storeVars, logVars
<1>3. TypeOK'
  <2>1. CASE UNCHANGED vars
    BY <1>1, <2>1 DEF TypeOK, vars, serverVars, storeVars, logVars
  <2>2. CASE ~UNCHANGED vars
    BY <1>1, <2>2, BootTypes, ShutdownTypes
  <2>. QED  BY <2>1, <2>2
<1>4. \A i : Written(i)' = Written(i) /\ Unsent(i)' = Unsent(i)
  BY <1>2 DEF Written, Unsent
<1>5. LogsInOrder' /\ BusNumbered'
  BY <1>1, <1>2, <1>4 DEF LogsInOrder, LogInOrder, BusNumbered
<1>6. CASE readers' = readers
  <2>1. ReadersInOrder'
    BY <1>2, <1>4, <1>6, LogFacts, ReadersKept
  <2>. QED  BY <1>3, <1>5, <2>1 DEF StreamInv
<1>7. CASE Shutdown
  <2>1. readers' = Disconnected
    BY <1>7 DEF Shutdown
  <2>. QED  BY <1>3, <1>5, <2>1, DisconnectedInOrder DEF StreamInv
<1>8. readers' = readers \/ Shutdown
  BY DEF BuildProviders, load_yaml_definitions, StartEngine, AuthNew, BootTo, vars
<1>. QED  BY <1>6, <1>7, <1>8

LEMMA StreamInit ==
  ASSUME Init
  PROVE  StreamInv
<1>1. TypeOK
  <2>1. ASSUME NEW q \in Requests
        PROVE  [want |-> q, pc |-> "idle", left |-> {}, why |-> NoTrigger,
                wf |-> 0, tries |-> 0, answer |-> None, cut |-> {}] \in Call
    BY <2>1 DEF Call
  <2>2. calls \in [Calls -> Call] /\ \A c \in Calls : calls[c].pc = "idle"
    <3>. DEFINE C == {[want |-> q, pc |-> "idle", left |-> {}, why |-> NoTrigger,
                       wf |-> 0, tries |-> 0, answer |-> None, cut |-> {}] :
                       q \in Requests}
    <3>1. C \subseteq Call  BY <2>1
    <3>2. calls \in [Calls -> C]  BY DEF Init
    <3>3. \A x \in C : x.pc = "idle"  OBVIOUS
    <3>. HIDE DEF C
    <3>. QED  BY <3>1, <3>2, <3>3
  <2>3. readers \in [Readers -> Reader] /\ \A r \in Readers : readers[r].phase = "idle"
    BY IdleTypes DEF Init
  <2>4. /\ boot \in {"providers", "definitions", "engine", "auth", "listening",
                     "stopped", "dead"}
        /\ jwks \subseteq Credentials /\ registered \in BOOLEAN
    BY DEF Init
  <2>5. /\ events \in Seq([by: Calls, queued: BOOLEAN])
        /\ instances \in Seq([by: Calls, try: Nat, why: Triggers \cup {NoTrigger},
                              queued: BOOLEAN])
        /\ history \in Seq([Steps -> Seq(Item)]) /\ live \in Seq(Seq(Item))
        /\ bus \in Seq(Item)
        /\ Len(history) = Len(instances) /\ Len(live) = Len(instances)
    BY DEF Init
  <2>6. chunks \in 0..MaxChunks /\ faults \in 0..MaxFaults
    BY BoundsAssumption DEF Init
  <2>. QED  BY <2>2, <2>3, <2>4, <2>5, <2>6 DEF TypeOK
<1>2. LogsInOrder /\ BusNumbered
  <2>1. DOMAIN instances = {} /\ DOMAIN bus = {}  BY DEF Init
  <2>. QED  BY <2>1 DEF LogsInOrder, BusNumbered
<1>3. ASSUME NEW r \in Readers PROVE ReaderInOrder(readers[r])
  <2>1. readers[r].phase = "idle" /\ Seen(readers[r]) = <<>> /\ readers[r] \in Reader
    BY IdleTypes DEF Init
  <2>2. Ordered(Seen(readers[r])) /\ OneRepeat(Seen(readers[r]))
    BY <2>1, NothingSeen
  <2>. QED  BY <2>1, <2>2 DEF ReaderInOrder
<1>. QED  BY <1>1, <1>2, <1>3 DEF StreamInv, ReadersInOrder

LEMMA StreamStep ==
  ASSUME StreamInv, [Next]_vars
  PROVE  StreamInv'
<1>1. CASE Next
  BY <1>1, NextCases, BootStepInv, RestartInv, CallStepInv, WriteStepInv, ReaderStepInv
<1>2. CASE UNCHANGED vars
  BY <1>2, BootStepInv
<1>. QED  BY <1>1, <1>2

LEMMA StreamInvHolds == Spec => []StreamInv
BY StreamInit, StreamStep, PTL DEF Spec

\* Every variable of the server keeps its type, every instance has its history
\* and its channel, and streams and starts refer to instances that are stored.
THEOREM ServerTypeCorrect == Spec => []TypeOK
BY StreamInvHolds, PTL DEF StreamInv

\* What a stream of the server puts into its client's channel is in the order
\* in which it was written or published, and at most one item comes twice.
LEMMA OrderFollows ==
  ASSUME StreamInv
  PROVE  OutputInOrder
<1>1. SUFFICES ASSUME NEW r \in Readers
               PROVE  LET seen == readers[r].got \o readers[r].chan IN
                      /\ \A k \in 1..Len(seen) - 1 : seen[k].n <= seen[k + 1].n
                      /\ Cardinality({k \in 1..Len(seen) - 1 : seen[k] = seen[k + 1]}) <= 1
  BY DEF OutputInOrder
<1>. DEFINE seen == Seen(readers[r])
<1>2. readers[r] \in Reader /\ Ordered(seen) /\ OneRepeat(seen)
  BY ReadersGood DEF GoodReader, ReaderInOrder
<1>3. seen \in Seq(Item)
  BY <1>2, SeenType
<1>. HIDE DEF seen
<1>4. Len(seen) \in Nat /\ DOMAIN seen = 1..Len(seen)
  BY <1>3, SeqRange
<1>5. ASSUME NEW k \in 1..Len(seen) - 1 PROVE seen[k].n <= seen[k + 1].n
  <2>1. k \in 1..Len(seen) /\ k + 1 \in 1..Len(seen) /\ k <= k + 1
    BY <1>4
  <2>. QED  BY <1>2, <1>4, <2>1 DEF Ordered
<1>6. Cardinality(Repeats(seen)) <= 1
  <2>1. CASE Repeats(seen) = {}
    BY <2>1, FS_EmptySet
  <2>2. ASSUME NEW k \in Repeats(seen) PROVE Cardinality(Repeats(seen)) <= 1
    <3>1. Repeats(seen) = {k}  BY <1>2, <2>2 DEF OneRepeat
    <3>. QED  BY <3>1, FS_Singleton
  <2>. QED  BY <2>1, <2>2
<1>. QED  BY <1>5, <1>6 DEF seen, Seen, Repeats

\* A client sees the output of its instance, or the events of the bus, in the
\* order they were produced with at most one chunk repeated, for every number
\* of writers, clients and chunks, every capacity of the channels, and whether
\* it keeps up or lags.
THEOREM StreamsInOrder == Spec => []OutputInOrder
BY StreamInvHolds, OrderFollows, PTL

-----------------------------------------------------------------------------
(* What a webhook delivery starts.                                         *)

\* The triggers that an attempt has started change only when an instance is
\* stored for it; what was stored, and which attempts were cut off, stays.
LEMMA StartedGrows ==
  ASSUME TypeOK, NEW c \in Calls,
         \/ Receive(c) \/ Retry(c) \/ Publish(c) \/ Announce(c) \/ NextTrigger(c)
         \/ CreateInstance(c) \/ QueueInstance(c) \/ LoadBack(c),
         NEW d \in Calls
  PROVE  /\ d # c \/ (~CreateInstance(c) /\ ~Retry(c)) => Started(d)' = Started(d)
         /\ ~Retry(c) => Started(d)' \subseteq Started(d) \cup {calls[c].why}
         /\ Keeps(calls[d], calls'[d])
         /\ ~Retry(c) => calls'[d].tries = calls[d].tries
         /\ d # c => calls'[d] = calls[d]
<1>1. /\ DOMAIN instances \subseteq DOMAIN instances'
      /\ \A i \in DOMAIN instances :
           /\ instances'[i].by = instances[i].by
           /\ instances'[i].try = instances[i].try
           /\ instances'[i].why = instances[i].why
      /\ \A i \in DOMAIN instances' \ DOMAIN instances :
           /\ CreateInstance(c)
           /\ instances'[i].by = c /\ instances'[i].why = calls[c].why
  BY StoreGrows
<1>2. Started(d)' = {instances'[i].why : i \in {j \in DOMAIN instances' :
                        instances'[j].by = d /\ instances'[j].try = calls'[d].tries}}
  BY DEF Started
<1>3. /\ Keeps(calls[d], calls'[d]) /\ (~Retry(c) => calls'[d].tries = calls[d].tries)
      /\ (d # c => calls'[d] = calls[d])
  <2>1. calls \in [Calls -> Call] /\ instances \in Seq(StoredInstance)
    BY DEF TypeOK, StoredInstance
  <2>2. PICK call : CallMoves(c, call) /\ Keeps(calls[c], call)
                    /\ (~Retry(c) => call.tries = calls[c].tries)
    BY <2>1, CallerMoves
  <2>3. calls' = [calls EXCEPT ![c] = call]
    BY <2>2 DEF CallMoves
  <2>4. calls[d].tries \in Nat
    BY <2>1 DEF Call
  <2>5. Keeps(calls[d], calls[d])
    BY <2>4 DEF Keeps
  <2>. QED  BY <2>1, <2>2, <2>3, <2>5
<1>4. ASSUME calls'[d].tries = calls[d].tries
      PROVE  /\ Started(d) \subseteq Started(d)'
             /\ Started(d)' \subseteq Started(d) \cup {calls[c].why}
             /\ d # c \/ ~CreateInstance(c) => Started(d)' \subseteq Started(d)
  BY <1>1, <1>2, <1>4 DEF Started
<1>5. d # c => calls'[d].tries = calls[d].tries
  BY <1>3
<1>6. ASSUME d # c \/ (~CreateInstance(c) /\ ~Retry(c))
      PROVE  Started(d)' = Started(d)
  <2>1. calls'[d].tries = calls[d].tries  BY <1>3, <1>5, <1>6
  <2>. QED  BY <1>4, <1>6, <2>1
<1>. QED  BY <1>3, <1>4, <1>6

\* What an earlier attempt started stays what an attempt that was cut off did.
LEMMA BeforeKept ==
  ASSUME TypeOK, NEW c \in Calls, DeliveryOK(c),
         \/ Receive(c) \/ Retry(c) \/ Publish(c) \/ Announce(c) \/ NextTrigger(c)
         \/ CreateInstance(c) \/ QueueInstance(c) \/ LoadBack(c)
  PROVE  Before(c)' /\ (Retry(c) => Started(c)' = {})
<1>1. /\ calls[c].tries \in Nat /\ calls \in [Calls -> Call] /\ calls[c] \in Call
      /\ \A i \in DOMAIN instances : instances[i].try \in Nat
  <2>1. instances \in Seq(StoredInstance)  BY DEF TypeOK, StoredInstance
  <2>2. \A i \in DOMAIN instances : instances[i] \in StoredInstance
    <3>. HIDE DEF StoredInstance
    <3>. QED  BY <2>1, SeqRange
  <2>. QED  BY <2>2 DEF StoredInstance, TypeOK, Call
<1>2. Before(c)
  BY DEF DeliveryOK
<1>3. /\ DOMAIN instances \subseteq DOMAIN instances'
      /\ \A i \in DOMAIN instances :
           /\ instances'[i].by = instances[i].by
           /\ instances'[i].try = instances[i].try
      /\ \A i \in DOMAIN instances' \ DOMAIN instances :
           /\ CreateInstance(c) /\ calls[c].pc = "create"
           /\ instances'[i].by = c /\ instances'[i].try = calls[c].tries
  BY StoreGrows
<1>4. Keeps(calls[c], calls'[c])
  BY StartedGrows
<1>5. CASE ~Retry(c)
  <2>1. calls'[c].tries = calls[c].tries  BY <1>5, StartedGrows
  <2>. QED  BY <1>1, <1>2, <1>3, <1>4, <1>5, <2>1 DEF Before, Keeps
<1>6. CASE Retry(c)
  <2>1. /\ calls[c].pc = "done" /\ calls[c].answer \in {"error", "refused", "gone"}
        /\ instances' = instances
    BY <1>6 DEF Retry, storeVars
  <2>2. calls'[c].tries = calls[c].tries + 1 /\ calls'[c].cut = calls[c].cut
    <3>. DEFINE x == [calls[c] EXCEPT !.pc = "idle", !.answer = None, !.tries = @ + 1]
    <3>1. calls'[c] = x  BY <1>1, <1>6 DEF Retry
    <3>2. x.tries = calls[c].tries + 1 /\ x.cut = calls[c].cut  BY <1>1 DEF Call
    <3>. QED  BY <3>1, <3>2
  <2>3. Started(c) = {} \/ calls[c].tries \in calls[c].cut
    BY <2>1 DEF DeliveryOK
  <2>4. ASSUME NEW i \in DOMAIN instances, instances[i].by = c
        PROVE  instances[i].try <= calls[c].tries /\ instances[i].try \in calls[c].cut
    <3>1. CASE instances[i].try = calls[c].tries
      <4>1. instances[i].why \in Started(c)  BY <2>4, <3>1 DEF Started
      <4>. QED  BY <1>1, <2>3, <3>1, <4>1
    <3>2. CASE instances[i].try # calls[c].tries
      BY <1>2, <2>4, <3>2 DEF Before
    <3>. QED  BY <1>2, <2>4, <3>1, <3>2 DEF Before
  <2>5. Before(c)'
    BY <1>1, <2>1, <2>2, <2>4 DEF Before
  <2>6. ASSUME NEW i \in DOMAIN instances, instances[i].by = c
        PROVE  instances[i].try # calls[c].tries + 1
    BY <1>1, <2>4, <2>6
  <2>7. Started(c)' = {}
    BY <2>1, <2>2, <2>6 DEF Started
  <2>. QED  BY <2>5, <2>7
<1>. QED  BY <1>5, <1>6

\* A step of a caller keeps its own delivery in order.
LEMMA DeliveryStep ==
  ASSUME TypeOK, NEW c \in Calls, calls[c].want.door = "forge", DeliveryOK(c),
         \/ Receive(c) \/ Retry(c) \/ Publish(c) \/ Announce(c) \/ NextTrigger(c)
         \/ CreateInstance(c) \/ QueueInstance(c) \/ LoadBack(c)
  PROVE  DeliveryOK(c)'
<1>1. calls \in [Calls -> Call] /\ calls[c] \in Call
  BY DEF TypeOK
<1>2. /\ ~CreateInstance(c) /\ ~Retry(c) => Started(c)' = Started(c)
      /\ ~Retry(c) => Started(c)' \subseteq Started(c) \cup {calls[c].why}
  BY StartedGrows
<1>a. Before(c)' /\ (Retry(c) => Started(c)' = {})
  BY BeforeKept
<1>b. ASSUME Started(c)' = {}, calls'[c].pc \notin {"load", "create"},
             calls'[c].pc = "done" => calls'[c].answer # "gone"
      PROVE  DeliveryOK(c)'
  BY <1>a, <1>b DEF DeliveryOK
<1>3. CASE Receive(c)
  <2>. DEFINE x == [calls[c] EXCEPT !.pc = FirstStep(calls[c].want), !.why = NoTrigger,
                                    !.wf = 0]
              y == [calls[c] EXCEPT !.pc = "done", !.answer = "refused"]
  <2>1. calls[c].pc = "idle" /\ Started(c)' = {}
    BY <1>2, <1>3 DEF Receive, Retry, CreateInstance, DeliveryOK
  <2>2. calls'[c] = x \/ calls'[c] = y
    BY <1>1, <1>3 DEF Receive
  <2>3. x.pc = "publish" /\ y.pc = "done" /\ y.answer = "refused"
    BY <1>1 DEF FirstStep, Call
  <2>4. calls'[c].pc = "publish" \/ (calls'[c].pc = "done" /\ calls'[c].answer = "refused")
    <3>. HIDE DEF x, y
    <3>. QED  BY <2>2, <2>3
  <2>. QED  BY <1>b, <2>1, <2>4
<1>4. CASE Retry(c)
  <2>1. calls'[c].pc = "idle"
    <3>. DEFINE x == [calls[c] EXCEPT !.pc = "idle", !.answer = None, !.tries = @ + 1]
    <3>1. calls'[c] = x  BY <1>1, <1>4 DEF Retry
    <3>2. x.pc = "idle"  BY <1>1 DEF Call
    <3>. QED  BY <3>1, <3>2
  <2>. QED  BY <1>4, <1>a, <1>b, <2>1
<1>5. CASE Publish(c)
  <2>1. calls[c].pc = "publish" /\ Started(c)' = {}
    BY <1>2, <1>5 DEF Publish, Retry, CreateInstance, DeliveryOK
  <2>2. calls'[c].pc = "announce" \/ (calls'[c].pc = "done" /\ calls'[c].answer = "error")
    BY <1>1, <1>5 DEF Publish, Goto, Answer, Call
  <2>. QED  BY <1>b, <2>1, <2>2
<1>6. CASE Announce(c)
  <2>. DEFINE left == {t \in Triggers : TriggerMatches(t, calls[c].want)}
              x == [calls[c] EXCEPT !.pc = "triggers", !.left = left]
  <2>1. calls[c].pc = "announce" /\ Started(c)' = {}
    BY <1>2, <1>6 DEF Announce, AnnounceTo, Retry, CreateInstance, DeliveryOK
  <2>2. calls'[c] = x \/ Answer(c, "error")
    BY <1>1, <1>6 DEF Announce, AnnounceTo
  <2>3. x.pc = "triggers"
    BY <1>1 DEF Call
  <2>. HIDE DEF x
  <2>4. calls'[c].pc = "triggers" \/ (calls'[c].pc = "done" /\ calls'[c].answer = "error")
    BY <1>1, <2>2, <2>3 DEF Answer, Call
  <2>. QED  BY <1>b, <2>1, <2>4
<1>7. CASE NextTrigger(c)
  <2>1. calls[c].pc = "triggers" /\ Started(c)' = Started(c)
        /\ calls[c].left \cap Started(c) = {}
    BY <1>2, <1>7 DEF NextTrigger, Retry, CreateInstance, DeliveryOK
  <2>2. CASE Answer(c, "ok")
    <3>1. calls'[c].pc = "done" /\ calls'[c].answer = "ok" /\ calls'[c].left = calls[c].left
      BY <1>1, <2>2 DEF Answer, Call
    <3>. QED  BY <1>a, <2>1, <3>1 DEF DeliveryOK
  <2>3. ASSUME NEW t \in calls[c].left,
               calls' = [calls EXCEPT ![c].pc = "create", ![c].why = t, ![c].left = @ \ {t}]
        PROVE  DeliveryOK(c)'
    <3>. DEFINE x == [calls[c] EXCEPT !.pc = "create", !.why = t, !.left = @ \ {t}]
    <3>1. calls'[c] = x  BY <1>1, <2>3
    <3>2. x.pc = "create" /\ x.why = t /\ x.left = calls[c].left \ {t}  BY <1>1 DEF Call
    <3>. HIDE DEF x
    <3>3. calls'[c].pc = "create" /\ calls'[c].why = t /\ calls'[c].left = calls[c].left \ {t}
      BY <3>1, <3>2
    <3>. QED  BY <1>a, <2>1, <2>3, <3>3 DEF DeliveryOK
  <2>. QED  BY <1>7, <2>2, <2>3 DEF NextTrigger
<1>8. CASE CreateInstance(c)
  <2>1. /\ calls[c].pc = "create" /\ calls[c].left \cap Started(c) = {}
        /\ calls[c].why \notin calls[c].left \cup Started(c)
        /\ ~Retry(c)
    BY <1>8 DEF CreateInstance, DeliveryOK, Retry
  <2>2. calls[c].left \cap Started(c)' = {}
    BY <1>2, <2>1
  <2>3. calls'[c].pc \in {"queue", "triggers"} /\ calls'[c].left = calls[c].left
    <3>1. CASE StartFailed(c)
      BY <1>1, <3>1 DEF StartFailed, Goto, Call
    <3>2. CASE calls' = [calls EXCEPT ![c].pc = "queue", ![c].wf = Len(instances) + 1]
      <4>. DEFINE x == [calls[c] EXCEPT !.pc = "queue", !.wf = Len(instances) + 1]
      <4>1. calls'[c] = x  BY <1>1, <3>2
      <4>2. x.pc = "queue" /\ x.left = calls[c].left  BY <1>1 DEF Call
      <4>. QED  BY <4>1, <4>2
    <3>. QED  BY <1>8, <3>1, <3>2 DEF CreateInstance
  <2>. QED  BY <1>a, <2>2, <2>3 DEF DeliveryOK
<1>9. CASE QueueInstance(c)
  <2>1. calls[c].pc = "queue" /\ Started(c)' = Started(c)
        /\ calls[c].left \cap Started(c) = {}
    BY <1>2, <1>9 DEF QueueInstance, Retry, CreateInstance, DeliveryOK
  <2>2. calls'[c].pc = "triggers" /\ calls'[c].left = calls[c].left
    <3>1. Goto(c, "triggers")
      BY <1>9 DEF QueueInstance, StartFailed
    <3>. QED  BY <1>1, <3>1 DEF Goto, Call
  <2>. QED  BY <1>a, <2>1, <2>2 DEF DeliveryOK
<1>10. CASE LoadBack(c)
  BY <1>10 DEF LoadBack, DeliveryOK
<1>. QED  BY <1>3, <1>4, <1>5, <1>6, <1>7, <1>8, <1>9, <1>10

LEMMA Senders ==
  ASSUME TypeOK
  PROVE  \A i \in DOMAIN instances : instances[i].by \in Calls
<1>1. instances \in Seq(StoredInstance)  BY DEF TypeOK, StoredInstance
<1>2. \A i \in DOMAIN instances : instances[i] \in StoredInstance
  <2>. HIDE DEF StoredInstance
  <2>. QED  BY <1>1, SeqRange
<1>. QED  BY <1>2 DEF StoredInstance

\* A step that stores nothing, and moves no caller but to cut it off, keeps
\* every delivery.
LEMMA DeliveriesIdle ==
  ASSUME DeliveriesOK, TriggeredOnce, TypeOK, instances' = instances,
         \A c \in Calls : calls'[c] = calls[c] \/ calls'[c] = Lost(calls[c])
  PROVE  DeliveriesOK' /\ TriggeredOnce'
<1>1. ASSUME NEW c \in Calls
      PROVE  /\ calls'[c].want = calls[c].want /\ calls'[c].tries = calls[c].tries
             /\ calls[c].cut \subseteq calls'[c].cut /\ calls'[c].left = calls[c].left
             /\ \/ calls'[c] = calls[c]
                \/ /\ calls'[c].pc = "done" /\ calls'[c].answer = "gone"
                   /\ calls'[c].tries \in calls'[c].cut
  <2>. DEFINE x == Lost(calls[c])
  <2>1. calls[c] \in Call  BY DEF TypeOK
  <2>2. /\ x.want = calls[c].want /\ x.tries = calls[c].tries /\ x.left = calls[c].left
        /\ x.cut = calls[c].cut \cup {calls[c].tries}
        /\ x.pc = "done" /\ x.answer = "gone"
    BY <2>1 DEF Lost, Call
  <2>3. calls'[c] = calls[c] \/ calls'[c] = x
    OBVIOUS
  <2>. HIDE DEF x
  <2>4. CASE calls'[c] = calls[c]  BY <2>4
  <2>5. CASE calls'[c] = x  BY <2>2, <2>5
  <2>. QED  BY <2>3, <2>4, <2>5
<1>2. ASSUME NEW c \in Calls, calls'[c].want.door = "forge"
      PROVE  DeliveryOK(c)'
  <2>1. Started(c)' = Started(c)
    BY <1>1 DEF Started
  <2>2. DeliveryOK(c)
    BY <1>1, <1>2 DEF DeliveriesOK
  <2>3. CASE calls'[c] = calls[c]
    BY <2>1, <2>2, <2>3 DEF DeliveryOK, Before
  <2>4. CASE /\ calls'[c].pc = "done" /\ calls'[c].answer = "gone"
             /\ calls'[c].tries \in calls'[c].cut
    BY <1>1, <2>1, <2>2, <2>4 DEF DeliveryOK, Before
  <2>. QED  BY <1>1, <2>3, <2>4
<1>3. TriggeredOnce'
  BY <1>1, Senders DEF TriggeredOnce, StartedTwice
<1>. QED  BY <1>2, <1>3 DEF DeliveriesOK

\* A step of a caller keeps every delivery: the trigger it stores an instance
\* for is one its attempt has not started.
LEMMA DeliveriesMove ==
  ASSUME DeliveriesOK, TriggeredOnce, TypeOK, NEW c \in Calls,
         \/ Receive(c) \/ Retry(c) \/ Publish(c) \/ Announce(c) \/ NextTrigger(c)
         \/ CreateInstance(c) \/ QueueInstance(c) \/ LoadBack(c)
  PROVE  DeliveriesOK' /\ TriggeredOnce'
<1>1. ASSUME NEW d \in Calls
      PROVE  /\ calls'[d].want = calls[d].want /\ calls[d].cut \subseteq calls'[d].cut
             /\ d # c => calls'[d] = calls[d] /\ Started(d)' = Started(d)
  BY <1>1, StartedGrows DEF Keeps
<1>2. /\ Len(instances) \in Nat /\ DOMAIN instances = 1..Len(instances)
      /\ DOMAIN instances \subseteq DOMAIN instances'
      /\ \A i \in DOMAIN instances :
           /\ instances'[i].by = instances[i].by
           /\ instances'[i].try = instances[i].try
           /\ instances'[i].why = instances[i].why
      /\ \A i \in DOMAIN instances' \ DOMAIN instances :
           /\ calls[c].pc = "create" /\ i = Len(instances) + 1
           /\ instances'[i].by = c /\ instances'[i].why = calls[c].why
           /\ instances'[i].try = calls[c].tries
  <2>1. instances \in Seq(StoredInstance)  BY DEF TypeOK, StoredInstance
  <2>2. Len(instances) \in Nat /\ DOMAIN instances = 1..Len(instances)
    BY <2>1, SeqRange
  <2>. QED  BY <2>2, StoreGrows
<1>3. ASSUME NEW d \in Calls, calls'[d].want.door = "forge"
      PROVE  DeliveryOK(d)'
  <2>1. calls[d].want.door = "forge" /\ DeliveryOK(d)
    BY <1>1, <1>3 DEF DeliveriesOK
  <2>2. CASE d = c
    BY <2>1, <2>2, DeliveryStep
  <2>3. CASE d # c
    <3>1. calls'[d] = calls[d] /\ Started(d)' = Started(d)  BY <1>1, <2>3
    <3>2. \A i \in DOMAIN instances' : instances'[i].by = d =>
            i \in DOMAIN instances /\ instances[i].by = d
            /\ instances'[i].try = instances[i].try
      BY <1>2, <2>3
    <3>. QED  BY <2>1, <3>1, <3>2 DEF DeliveryOK, Before
  <2>. QED  BY <2>2, <2>3
<1>4. ASSUME NEW i \in DOMAIN instances', NEW j \in DOMAIN instances', StartedTwice(i, j)'
      PROVE  /\ instances'[i].try # instances'[j].try
             /\ instances'[i].try \in calls'[instances'[i].by].cut
  <2>1. /\ i < j /\ calls'[instances'[i].by].want.door = "forge"
        /\ instances'[i].by = instances'[j].by /\ instances'[i].why = instances'[j].why
    BY <1>4 DEF StartedTwice
  <2>2. i \in DOMAIN instances
    <3>1. CASE j \in DOMAIN instances
      <4>1. i # Len(instances) + 1  BY <1>2, <2>1, <3>1
      <4>. QED  BY <1>2, <4>1
    <3>2. CASE j \notin DOMAIN instances
      <4>1. j = Len(instances) + 1  BY <1>2, <3>2
      <4>2. i # Len(instances) + 1  BY <1>2, <2>1, <4>1
      <4>. QED  BY <1>2, <4>2
    <3>. QED  BY <3>1, <3>2
  <2>3. /\ instances[i].by \in Calls /\ instances'[i].by = instances[i].by
        /\ instances'[i].why = instances[i].why /\ instances'[i].try = instances[i].try
        /\ calls[instances[i].by].want.door = "forge"
        /\ calls[instances[i].by].cut \subseteq calls'[instances[i].by].cut
    <3>1. instances[i].by \in Calls  BY <2>2, Senders
    <3>2. /\ instances'[i].by = instances[i].by /\ instances'[i].try = instances[i].try
          /\ instances'[i].why = instances[i].why
      BY <1>2, <2>2
    <3>. QED  BY <1>1, <2>1, <3>1, <3>2
  <2>4. CASE j \in DOMAIN instances
    <3>1. StartedTwice(i, j)
      BY <1>2, <2>1, <2>3, <2>4 DEF StartedTwice
    <3>2. instances[i].try # instances[j].try /\ instances[i].try \in calls[instances[i].by].cut
      BY <2>2, <2>4, <3>1 DEF TriggeredOnce
    <3>. QED  BY <1>2, <2>3, <2>4, <3>2
  <2>5. CASE j \notin DOMAIN instances
    <3>1. /\ calls[c].pc = "create" /\ instances'[j].by = c
          /\ instances'[j].why = calls[c].why /\ instances'[j].try = calls[c].tries
      BY <1>2, <2>5
    <3>2. instances[i].by = c /\ instances[i].why = calls[c].why
      BY <2>1, <2>3, <3>1
    <3>3. DeliveryOK(c)
      BY <2>3, <3>2 DEF DeliveriesOK
    <3>4. calls[c].why \notin Started(c)
      BY <3>1, <3>3 DEF DeliveryOK
    <3>5. instances[i].try # calls[c].tries
      BY <2>2, <3>2, <3>4 DEF Started
    <3>6. instances[i].try \in calls[c].cut
      BY <2>2, <3>2, <3>3, <3>5 DEF DeliveryOK, Before
    <3>. QED  BY <2>3, <3>1, <3>2, <3>5, <3>6
  <2>. QED  BY <2>4, <2>5
<1>5. TriggeredOnce'
  BY <1>4 DEF TriggeredOnce
<1>. QED  BY <1>3, <1>5 DEF DeliveriesOK

LEMMA DeliveriesInit ==
  ASSUME Init
  PROVE  DeliveriesOK /\ TriggeredOnce
<1>1. DOMAIN instances = {}
  BY DEF Init
<1>2. ASSUME NEW c \in Calls
      PROVE  calls[c].pc = "idle" /\ calls[c].left = {}
  <2>. DEFINE C == {[want |-> q, pc |-> "idle", left |-> {}, why |-> NoTrigger,
                     wf |-> 0, tries |-> 0, answer |-> None, cut |-> {}] :
                     q \in Requests}
  <2>1. calls[c] \in C  BY DEF Init
  <2>2. \A x \in C : x.pc = "idle" /\ x.left = {}  OBVIOUS
  <2>. HIDE DEF C
  <2>. QED  BY <2>1, <2>2
<1>3. \A c \in Calls : Started(c) = {}
  BY <1>1 DEF Started
<1>. QED  BY <1>1, <1>2, <1>3 DEF DeliveriesOK, DeliveryOK, Before, TriggeredOnce

LEMMA DeliveriesNext ==
  ASSUME DeliveriesOK, TriggeredOnce, TypeOK, [Next]_vars
  PROVE  DeliveriesOK' /\ TriggeredOnce'
<1>1. CASE UNCHANGED <<calls, instances>>
  BY <1>1, DeliveriesIdle
<1>2. CASE Shutdown
  <2>1. instances' = instances
    BY <1>2 DEF Shutdown, storeVars
  <2>2. \A c \in Calls : calls'[c] = calls[c] \/ calls'[c] = Lost(calls[c])
    BY <1>2 DEF Shutdown
  <2>. QED  BY <2>1, <2>2, DeliveriesIdle
<1>3. CASE Restart
  BY <1>1, <1>3, RestartTypes
<1>4. ASSUME NEW c \in Calls, Cut(c) PROVE DeliveriesOK' /\ TriggeredOnce'
  <2>1. instances' = instances
    BY <1>4 DEF Cut, storeVars
  <2>2. \A d \in Calls : calls'[d] = calls[d] \/ calls'[d] = Lost(calls[d])
    <3>1. calls' = [calls EXCEPT ![c] = Lost(calls[c])] /\ calls \in [Calls -> Call]
      BY <1>4 DEF Cut, TypeOK
    <3>. QED  BY <3>1
  <2>. QED  BY <2>1, <2>2, DeliveriesIdle
<1>5. CASE BuildProviders \/ load_yaml_definitions \/ StartEngine \/ AuthNew
  BY <1>1, <1>5 DEF BuildProviders, load_yaml_definitions, StartEngine, AuthNew, BootTo,
                    storeVars
<1>6. ASSUME NEW i \in DOMAIN instances, WriteHistory(i) \/ WriteLive(i)
      PROVE  DeliveriesOK' /\ TriggeredOnce'
  BY <1>1, <1>6 DEF WriteHistory, WriteLive, storeVars
<1>7. ASSUME NEW r \in Readers, Open(r) \/ Stream(r) \/ Leave(r)
      PROVE  DeliveriesOK' /\ TriggeredOnce'
  BY <1>1, <1>7 DEF Open, Stream, ReadHistory, Replay, Switch, Relay, Lag, Consume, Leave,
                    Send, ReaderStep, storeVars
<1>8. CASE UNCHANGED vars
  BY <1>1, <1>8 DEF vars, storeVars
<1>. QED  BY <1>2, <1>3, <1>4, <1>5, <1>6, <1>7, <1>8, NextCases, DeliveriesMove

\* A forge that delivers again after any answer of the server never starts a
\* trigger a second time; only an attempt that was cut off without an answer,
\* by a lost connection or by a shutdown between two triggers, is repeated by a
\* later one.  For every number of forges, references, callers, attempts,
\* restarts and failing calls.
THEOREM DeliveredOnce == Spec => []TriggeredOnce
<1>1. Init => DeliveriesOK /\ TriggeredOnce
  BY DeliveriesInit
<1>2. TypeOK /\ DeliveriesOK /\ TriggeredOnce /\ [Next]_vars => (DeliveriesOK /\ TriggeredOnce)'
  BY DeliveriesNext
<1>. QED  BY <1>1, <1>2, ServerTypeCorrect, PTL DEF Spec
=============================================================================
