------------------------------- MODULE Server -------------------------------
(***************************************************************************)
(* wfe-server around a running host: its start-up, shutdown and restart,   *)
(* the calls that publish events and start workflows (gRPC and forge       *)
(* webhooks) with their answers, lost connections and retries, and the     *)
(* streams that carry log chunks and lifecycle events to clients.          *)
(*                                                                         *)
(* A tokio broadcast channel is the sequence of what was sent through it;  *)
(* a receiver is a position in that sequence, and only the last Capacity   *)
(* entries can still be read.  What the engine does with an instance is    *)
(* the subject of Engine; here it only writes output.                      *)
(***************************************************************************)
EXTENDS Naturals, Sequences, FiniteSets, SequencesExt

CONSTANTS
    Calls,      \* callers: the letter says through which door they come
    Secured,    \* the doors for which a secret, a token or an issuer is set
    Sources,    \* forges that deliver webhooks
    Refs,       \* git references
    Steps,      \* steps that write output
    Readers,    \* clients that open a stream
    Capacity,   \* entries a broadcast channel keeps (4096 in the code)
    Window,     \* entries the channel of one client holds (256 in the code)
    MaxChunks,  \* bound on the chunks written
    MaxWriters, \* bound on the instances that write
    MaxFaults,  \* bound on failing provider calls, lost connections, restarts
    MaxTries    \* bound on the attempts of a caller

ASSUME BoundsAssumption ==
    /\ {Capacity, Window} \subseteq Nat \ {0}
    /\ {MaxChunks, MaxWriters, MaxFaults, MaxTries} \subseteq Nat

VARIABLES
    boot,       \* how far main has come
    jwks,       \* AuthState.jwks: the issuer's keys at start-up
    registered, \* whether the definition the calls name was loaded
    calls,      \* what each caller wants, where its handler is, its answer,
                \* and which of its attempts were cut off without one
    events,     \* stored events: [by, queued]
    instances,  \* stored instances: [by, try, why, queued]
    history,    \* LogStore.history: per instance and step, chunk numbers
    live,       \* LogStore.live: per instance, the chunks broadcast
    bus,        \* BroadcastLifecyclePublisher: the events broadcast
    readers,    \* streams and their clients
    chunks, faults

serverVars == <<boot, jwks, registered>>
storeVars == <<events, instances>>
logVars == <<history, live, chunks>>
vars == <<serverVars, calls, storeVars, logVars, bus, readers, faults>>

NoRef == "no ref"
All == 0
None == "none"

\* WebhookTrigger of the configuration; an installation that has them all.
Triggers == [source: Sources, ref: Refs \cup {NoRef}]

\* Why an instance was started that no trigger started.
NoTrigger == [source |-> None, ref |-> NoRef]

\* The body of a caller's request never changes: a retry repeats it.
Requests ==
    [door: {"forge"}, source: Sources, ref: Refs]
    \cup [door: {"event", "publish", "start"}]

IdleReader == [phase |-> "idle", kind |-> None, wf |-> All, step |-> None,
               replay |-> <<>>, at |-> 0, from |-> 0, chan |-> <<>>, got |-> <<>>,
               subscribed |-> FALSE, lagged |-> FALSE, here |-> FALSE]

GoneReader == [IdleReader EXCEPT !.phase = "closed"]

\* The streams after the process has ended; who had none may still connect.
Disconnected ==
    [r \in Readers |-> IF readers[r].phase = "idle" THEN IdleReader ELSE GoneReader]

Init ==
    /\ boot = "providers"
    /\ jwks = {} /\ registered = FALSE
    /\ calls \in [Calls -> {[want |-> q, pc |-> "idle", left |-> {}, why |-> NoTrigger,
                             wf |-> 0, tries |-> 0, answer |-> None, cut |-> {}] :
                            q \in Requests}]
    /\ events = <<>> /\ instances = <<>>
    /\ history = <<>> /\ live = <<>> /\ bus = <<>>
    /\ readers = [r \in Readers |-> IdleReader]
    /\ chunks = 0 /\ faults = 0

Fault == faults < MaxFaults /\ faults' = faults + 1
NoFault == UNCHANGED faults

-----------------------------------------------------------------------------
(* Start-up, shutdown and restart.                                          *)

BootTo(phase) ==
    /\ boot' = phase
    /\ UNCHANGED <<calls, storeVars, logVars, bus, readers, faults>>

\* Providers, lifecycle bus, log store; a provider that cannot be reached ends
\* the process, an index that cannot be reached only switches search off.
BuildProviders ==
    /\ boot = "providers"
    /\ \E next \in {"definitions", "dead"} : BootTo(next)
    /\ UNCHANGED <<jwks, registered>>

\* A file that does not compile is skipped with a warning.
load_yaml_definitions ==
    /\ boot = "definitions"
    /\ registered' \in BOOLEAN
    /\ BootTo("engine")
    /\ UNCHANGED jwks

StartEngine ==
    /\ boot = "engine"
    /\ BootTo("auth")
    /\ UNCHANGED <<jwks, registered>>

\* Discovery and the first fetch of the keys; either failure is a panic, with
\* the engine already at work.
AuthNew ==
    /\ boot = "auth"
    /\ \/ BootTo("listening") /\ jwks' = {"first key"}
       \/ BootTo("dead") /\ UNCHANGED jwks
    /\ UNCHANGED registered

\* The caller's attempt ends without an answer.
Lost(call) ==
    [call EXCEPT !.pc = "done", !.answer = "gone", !.cut = @ \cup {call.tries}]

\* select! drops both servers: a handler ends at the await it has reached and
\* the clients lose their connections.
Shutdown ==
    /\ boot = "listening"
    /\ boot' = "stopped"
    /\ calls' = [c \in Calls |->
            IF calls[c].pc \in {"idle", "done"} THEN calls[c] ELSE Lost(calls[c])]
    /\ readers' = Disconnected
    /\ UNCHANGED <<jwks, registered, storeVars, logVars, bus, faults>>

\* A new process: the store is as it was, the log store, the lifecycle bus, the
\* keys and the registry are new.  A start that failed is repeated at will.
Restart ==
    /\ \/ boot = "dead" /\ NoFault
       \/ boot = "stopped" /\ Fault
    /\ boot' = "providers" /\ jwks' = {} /\ registered' = FALSE
    /\ history' = [i \in DOMAIN instances |-> [s \in Steps |-> <<>>]]
    /\ live' = [i \in DOMAIN instances |-> <<>>]
    /\ bus' = <<>>
    /\ readers' = Disconnected
    /\ UNCHANGED <<calls, storeVars, chunks>>

-----------------------------------------------------------------------------
(* Requests.                                                                *)

Goto(c, pc) == calls' = [calls EXCEPT ![c].pc = pc]

Answer(c, a) == calls' = [calls EXCEPT ![c].pc = "done", ![c].answer = a]

\* map_forge_event and the three tests in front of start_workflow.
TriggerMatches(t, q) ==
    /\ t.source = q.source
    /\ t.ref = NoRef \/ t.ref = q.ref

Credentials == {"good", "first key", "rotated key", "bad"}

\* The signature of a forge over the body, in either format.
verify_hmac(credential) == credential = "good"

check_static_tokens(credential) == credential = "good"

\* The keys are those of start-up: refresh_jwks has no later caller, so a token
\* signed after the issuer rotated its keys is refused.
validate_jwt_cached(credential) == credential \in jwks

\* The door: a forge signs its body, the generic webhook takes a static token,
\* gRPC a static token or a JWT; a door with nothing configured lets all in.
Admits(q, credential) ==
    CASE q.door \notin Secured -> TRUE
      [] q.door = "forge" -> verify_hmac(credential)
      [] q.door = "event" -> check_static_tokens(credential)
      [] OTHER -> check_static_tokens(credential) \/ validate_jwt_cached(credential)

FirstStep(q) == IF q.door = "start" THEN "create" ELSE "publish"

\* A request arrives and passes the door, or is refused there; a body that is
\* no JSON is refused behind it.
Receive(c) ==
    LET q == calls[c].want IN
    /\ boot = "listening"
    /\ calls[c].pc = "idle"
    /\ \E credential \in Credentials, json \in BOOLEAN :
        calls' = [calls EXCEPT ![c] =
            IF Admits(q, credential) /\ json
            THEN [@ EXCEPT !.pc = FirstStep(q), !.why = NoTrigger, !.wf = 0]
            ELSE [@ EXCEPT !.pc = "done", !.answer = "refused"]]
    /\ UNCHANGED <<serverVars, storeVars, logVars, bus, readers, faults>>

\* The connection of a caller is lost: hyper drops the handler at the await it
\* has reached, or the good answer that was sent does not arrive.
Cut(c) ==
    /\ boot = "listening"
    /\ calls[c].pc # "idle"
    /\ calls[c].answer \in {None, "ok"}
    /\ calls' = [calls EXCEPT ![c] = Lost(calls[c])]
    /\ Fault
    /\ UNCHANGED <<serverVars, storeVars, logVars, bus, readers>>

\* After an error, or without an answer, the caller sends the same request
\* again: a forge redelivers, a client retries.
Retry(c) ==
    /\ calls[c].pc = "done"
    /\ calls[c].answer \in {"error", "refused", "gone"}
    /\ calls[c].tries < MaxTries
    /\ calls' = [calls EXCEPT ![c].pc = "idle", ![c].answer = None,
                              ![c].tries = @ + 1]
    /\ UNCHANGED <<serverVars, storeVars, logVars, bus, readers, faults>>

\* publish_event, first half: create_event.
Publish(c) ==
    /\ calls[c].pc = "publish"
    /\ \/ /\ events' = Append(events, [by |-> c, queued |-> FALSE])
          /\ Goto(c, "announce")
          /\ NoFault
       \/ /\ Fault
          /\ Answer(c, "error")
          /\ UNCHANGED events
    /\ UNCHANGED <<serverVars, instances, logVars, bus, readers>>

\* publish_event, second half: queue_work.  A forge's delivery goes on to its
\* triggers, the other doors answer.
AnnounceTo(c, next) ==
    /\ calls[c].pc = "announce"
    /\ \/ /\ \E e \in DOMAIN events :
                /\ events[e] = [by |-> c, queued |-> FALSE]
                /\ \A later \in e+1..Len(events) : events[later].by # c
                /\ events' = [events EXCEPT ![e].queued = TRUE]
          /\ calls' = [calls EXCEPT ![c] = next]
          /\ NoFault
       \/ /\ Fault
          /\ Answer(c, "error")
          /\ UNCHANGED events
    /\ UNCHANGED <<serverVars, instances, logVars, bus, readers>>

Announce(c) ==
    AnnounceTo(c,
        IF calls[c].want.door = "forge"
        THEN [calls[c] EXCEPT !.pc = "triggers",
                !.left = {t \in Triggers : TriggerMatches(t, calls[c].want)}]
        ELSE [calls[c] EXCEPT !.pc = "done", !.answer = "ok"])

\* The loop over the configured triggers: start the next match, or answer.
NextTrigger(c) ==
    /\ calls[c].pc = "triggers"
    /\ \/ /\ calls[c].left = {}
          /\ Answer(c, "ok")
       \/ \E t \in calls[c].left :
            calls' = [calls EXCEPT ![c].pc = "create", ![c].why = t,
                                   ![c].left = @ \ {t}]
    /\ UNCHANGED <<serverVars, storeVars, logVars, bus, readers, faults>>

\* Slip: a trigger that cannot be started fails the whole delivery.
StartFailedAnswered(c) == Answer(c, "error")

\* start_workflow failed: the webhook logs it and goes on, gRPC answers.
StartFailed(c) ==
    IF calls[c].want.door = "forge" THEN Goto(c, "triggers") ELSE Answer(c, "error")

\* start_workflow_with_name: look the definition up and store the instance.
CreateInstance(c) ==
    /\ calls[c].pc = "create"
    /\ \/ /\ registered
          /\ instances' = Append(instances,
                [by |-> c, try |-> calls[c].tries, why |-> calls[c].why,
                 queued |-> FALSE])
          /\ history' = Append(history, [s \in Steps |-> <<>>])
          /\ live' = Append(live, <<>>)
          /\ calls' = [calls EXCEPT ![c].pc = "queue", ![c].wf = Len(instances) + 1]
          /\ NoFault
       \/ /\ IF registered THEN Fault ELSE NoFault
          /\ StartFailed(c)
          /\ UNCHANGED <<instances, history, live>>
    /\ UNCHANGED <<serverVars, events, chunks, bus, readers>>

\* A lifecycle event of instance i on the bus.
Broadcast(i) == bus' = Append(bus, [n |-> Len(bus) + 1, wf |-> i, step |-> None])

\* start_workflow_with_name: queue the instance and announce Started.
QueueInstance(c) ==
    /\ calls[c].pc = "queue"
    /\ \/ /\ instances' = [instances EXCEPT ![calls[c].wf].queued = TRUE]
          /\ Broadcast(calls[c].wf)
          /\ Goto(c, IF calls[c].want.door = "forge" THEN "triggers" ELSE "load")
          /\ NoFault
       \/ /\ Fault
          /\ StartFailed(c)
          /\ UNCHANGED <<instances, bus>>
    /\ UNCHANGED <<serverVars, events, logVars, readers>>

\* gRPC start_workflow loads the instance back for its name.  When that fails
\* the call fails, and the workflow runs.
LoadBack(c) ==
    /\ calls[c].pc = "load"
    /\ \/ Answer(c, "ok") /\ NoFault
       \/ Fault /\ Answer(c, "error")
    /\ UNCHANGED <<serverVars, storeVars, logVars, bus, readers>>

-----------------------------------------------------------------------------
(* What a running instance emits.                                           *)

Running(i) == instances[i].queued /\ boot = "listening"

Written(i) == UNION {Range(history[i][s]) : s \in Steps}

\* write_chunk, first half: the chunk is in the history.  An instance writes
\* one chunk at a time; n stands for its timestamp.
WriteHistory(i) ==
    /\ Running(i)
    /\ chunks < MaxChunks /\ i <= MaxWriters
    /\ Cardinality(Written(i)) = Len(live[i])
    /\ chunks' = chunks + 1
    /\ \E s \in Steps :
        history' = [history EXCEPT ![i][s] =
            Append(@, [n |-> chunks + 1, wf |-> i, step |-> s])]
    /\ UNCHANGED <<serverVars, calls, storeVars, live, bus, readers, faults>>

\* write_chunk, second half: it is broadcast.
WriteLive(i) ==
    /\ boot = "listening"
    /\ \E chunk \in Written(i) :
        /\ chunk \notin Range(live[i])
        /\ live' = [live EXCEPT ![i] = Append(@, chunk)]
    /\ UNCHANGED <<serverVars, calls, storeVars, history, chunks, bus, readers, faults>>

-----------------------------------------------------------------------------
(* Streams.                                                                 *)

\* Slip: the buffers of the steps one after the other, as the map holds them.
get_history_unsorted(i) ==
    FlattenSeq(SetToSeq({history[i][s] : s \in Steps}))

\* All chunks of an instance, by time.
get_history(i) ==
    CHOOSE s \in SetToSeqs(Written(i)) :
        \A j, k \in DOMAIN s : j < k => s[j].n < s[k].n

\* What the receiver of r reads from.
Channel(r) == IF readers[r].kind = "watch" THEN bus ELSE live[readers[r].wf]

\* The filters: a lifecycle watcher's instance, a log stream's step.
Wanted(r, item) ==
    IF readers[r].kind = "watch"
    THEN readers[r].wf \in {All, item.wf}
    ELSE readers[r].step \in {None, item.step}

\* A receiver starts behind everything that was sent before.
Subscribed(reader, channel) ==
    [reader EXCEPT !.phase = "live", !.subscribed = TRUE,
                   !.at = Len(channel), !.from = Len(channel)]

ReaderStep(r, reader) ==
    /\ readers' = [readers EXCEPT ![r] = reader]
    /\ UNCHANGED <<serverVars, calls, storeVars, logVars, bus, faults>>

\* watch_lifecycle subscribes once the instance is resolved; stream_logs
\* leaves everything to its task.  An unknown instance gets an error, as does
\* a client the interceptor refuses.
Open(r) ==
    /\ boot = "listening"
    /\ readers[r].phase = "idle"
    /\ \E kind \in {"logs", "follow", "watch"}, wf \in All..Len(instances) + 1,
          step \in Steps \cup {None} :
        LET known == wf \in DOMAIN instances \/ (kind = "watch" /\ wf = All)
            reader == [readers[r] EXCEPT !.kind = kind, !.wf = wf, !.step = step,
                                         !.here = TRUE]
        IN  /\ kind = "watch" => step = None
            /\ ReaderStep(r, IF ~known THEN GoneReader
                             ELSE IF kind = "watch" THEN Subscribed(reader, bus)
                             ELSE [reader EXCEPT !.phase = "history"])

ReadHistory(r) ==
    /\ readers[r].phase = "history"
    /\ ReaderStep(r, [readers[r] EXCEPT !.phase = "replay",
                                        !.replay = get_history(readers[r].wf)])

\* tx.send: waits for room, fails when the client is gone.
Send(r, reader, item) ==
    IF ~readers[r].here THEN ReaderStep(r, GoneReader)
    ELSE /\ Len(readers[r].chan) < Window
         /\ ReaderStep(r, [reader EXCEPT !.chan = Append(@, item)])

Replay(r) ==
    LET left == readers[r].replay IN
    /\ readers[r].phase = "replay"
    /\ left # <<>>
    /\ LET reader == [readers[r] EXCEPT !.replay = Tail(left)] IN
        IF Wanted(r, Head(left)) THEN Send(r, reader, Head(left))
                                 ELSE ReaderStep(r, reader)

\* The history is sent: a following stream subscribes, any other ends.
Switch(r) ==
    /\ readers[r].phase = "replay"
    /\ readers[r].replay = <<>>
    /\ ReaderStep(r, IF readers[r].kind = "follow"
                     THEN Subscribed(readers[r], Channel(r))
                     ELSE [readers[r] EXCEPT !.phase = "closed"])

Behind(r) == Len(Channel(r)) - readers[r].at

\* Slip: a chunk that the filter rejects ends the stream.
RelayBreaks(r) ==
    /\ readers[r].phase = "live"
    /\ Behind(r) \in 1..Capacity
    /\ LET item == Channel(r)[readers[r].at + 1]
           reader == [readers[r] EXCEPT !.at = @ + 1]
       IN  IF Wanted(r, item) THEN Send(r, reader, item)
                              ELSE ReaderStep(r, [reader EXCEPT !.phase = "closed"])

\* recv: the next entry; it is skipped or sent on.
Relay(r) ==
    /\ readers[r].phase = "live"
    /\ Behind(r) \in 1..Capacity
    /\ LET item == Channel(r)[readers[r].at + 1]
           reader == [readers[r] EXCEPT !.at = @ + 1]
       IN  IF Wanted(r, item) THEN Send(r, reader, item) ELSE ReaderStep(r, reader)

\* recv: Lagged, the entries that were overwritten are skipped.
Lag(r) ==
    /\ readers[r].phase = "live"
    /\ Behind(r) > Capacity
    /\ ReaderStep(r, [readers[r] EXCEPT !.at = Len(Channel(r)) - Capacity,
                                        !.lagged = TRUE])

\* The client takes the next entry; what is sent can be read after the end.
Consume(r) ==
    /\ readers[r].here
    /\ readers[r].chan # <<>>
    /\ ReaderStep(r, [readers[r] EXCEPT !.got = Append(@, Head(readers[r].chan)),
                                        !.chan = Tail(@)])

\* The client disconnects; the task notices at its next send.
Leave(r) ==
    /\ readers[r].here
    /\ ReaderStep(r, [readers[r] EXCEPT !.here = FALSE, !.chan = <<>>, !.got = <<>>])

-----------------------------------------------------------------------------
Handle(c) ==
    Publish(c) \/ Announce(c) \/ NextTrigger(c) \/ CreateInstance(c)
    \/ QueueInstance(c) \/ LoadBack(c)

Serve(c) == boot = "listening" /\ Handle(c)

Stream(r) ==
    ReadHistory(r) \/ Replay(r) \/ Switch(r) \/ Relay(r) \/ Lag(r) \/ Consume(r)

Next ==
    \/ BuildProviders \/ load_yaml_definitions \/ StartEngine \/ AuthNew
    \/ Shutdown \/ Restart
    \/ \E c \in Calls : Receive(c) \/ Cut(c) \/ Retry(c) \/ Serve(c)
    \/ \E i \in DOMAIN instances : WriteHistory(i) \/ WriteLive(i)
    \/ \E r \in Readers : Open(r) \/ Stream(r) \/ Leave(r)

Spec == Init /\ [][Next]_vars

\* Tasks that can go on do; clients, faults and shutdown are nobody's duty.
FairSpec ==
    /\ Spec
    /\ \A c \in Calls : WF_vars(Serve(c))
    /\ WF_vars(\E i \in DOMAIN instances : WriteLive(i))
    /\ \A r \in Readers : WF_vars(Stream(r))

-----------------------------------------------------------------------------
(* Properties.                                                              *)

\* LogChunk and LifecycleEvent, to what a stream tells apart.
Item == [n: Nat, wf: Nat, step: Steps \cup {None}]

Call == [want: Requests,
         pc: {"idle", "publish", "announce", "triggers", "create", "queue", "load",
              "done"},
         left: SUBSET Triggers, why: Triggers \cup {NoTrigger}, wf: Nat, tries: Nat,
         answer: {None, "ok", "error", "refused", "gone"}, cut: SUBSET Nat]

Reader == [phase: {"idle", "history", "replay", "live", "closed"},
           kind: {None, "logs", "follow", "watch"}, wf: Nat,
           step: Steps \cup {None}, replay: Seq(Item), at: Nat, from: Nat,
           chan: Seq(Item), got: Seq(Item),
           subscribed: BOOLEAN, lagged: BOOLEAN, here: BOOLEAN]

\* Every variable has its type, every instance its history and its channel, and
\* a log stream, like the second half of a start, is about a stored instance.
TypeOK ==
    /\ boot \in {"providers", "definitions", "engine", "auth", "listening", "stopped",
                 "dead"}
    /\ jwks \subseteq Credentials /\ registered \in BOOLEAN
    /\ calls \in [Calls -> Call]
    /\ events \in Seq([by: Calls, queued: BOOLEAN])
    /\ instances \in Seq([by: Calls, try: Nat, why: Triggers \cup {NoTrigger},
                          queued: BOOLEAN])
    /\ history \in Seq([Steps -> Seq(Item)]) /\ Len(history) = Len(instances)
    /\ live \in Seq(Seq(Item)) /\ Len(live) = Len(instances)
    /\ bus \in Seq(Item)
    /\ readers \in [Readers -> Reader]
    /\ chunks \in 0..MaxChunks /\ faults \in 0..MaxFaults
    /\ \A c \in Calls : calls[c].pc = "queue" => calls[c].wf \in DOMAIN instances
    /\ \A r \in Readers :
        /\ readers[r].phase \in {"history", "replay", "live"}
        /\ readers[r].kind # "watch"
        => readers[r].wf \in DOMAIN instances

\* Two instances i and j that one delivery of a forge started for one trigger.
StartedTwice(i, j) ==
    /\ i < j
    /\ calls[instances[i].by].want.door = "forge"
    /\ instances[i].by = instances[j].by
    /\ instances[i].why = instances[j].why

\* Only a redelivery after an attempt that was cut off (a lost connection or
\* answer, a shutdown in the middle of the loop over the triggers) starts a
\* trigger again.  An attempt that was answered, with whatever status, never
\* does so: the one step that can fail the delivery, publishing the event,
\* comes before the first trigger, and a failing start is only logged.
TriggeredOnce ==
    \A i, j \in DOMAIN instances :
        StartedTwice(i, j) =>
            /\ instances[i].try # instances[j].try
            /\ instances[i].try \in calls[instances[i].by].cut

\* A delivery starts each of its triggers once, however often it is sent.
TriggersOnce == \A i, j \in DOMAIN instances : ~StartedTwice(i, j)

\* A client sees the output of its instance in the order it was written, with
\* at most one chunk repeated: the one that was in the history and not yet
\* broadcast when the stream changed over.
OutputInOrder ==
    \A r \in Readers :
        LET seen == readers[r].got \o readers[r].chan IN
        /\ \A k \in 1..Len(seen) - 1 : seen[k].n <= seen[k + 1].n
        /\ Cardinality({k \in 1..Len(seen) - 1 : seen[k] = seen[k + 1]}) <= 1

\* What was broadcast since r subscribed has reached its client.
CaughtUp(r) ==
    \A k \in readers[r].from + 1..Len(Channel(r)) :
        Wanted(r, Channel(r)[k]) => Channel(r)[k] \in Range(readers[r].got)

\* A client that stays, and never falls a whole channel behind, ends up with
\* everything broadcast since its stream subscribed.
StreamsDeliver ==
    \A r \in Readers :
        <>[](readers[r].subscribed =>
                \/ ~readers[r].here \/ readers[r].lagged \/ boot = "stopped"
                \/ CaughtUp(r))

\* A following stream shows everything its instance wrote, like `tail -f`.
FollowsAll ==
    \A r \in Readers :
        <>[](/\ readers[r].kind = "follow" /\ readers[r].phase = "live"
             /\ readers[r].step = None
             => \/ ~readers[r].here \/ readers[r].lagged \/ boot = "stopped"
                \/ Written(readers[r].wf) \subseteq Range(readers[r].got))

=============================================================================
