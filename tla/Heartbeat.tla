----------------------------- MODULE Heartbeat -----------------------------
(***************************************************************************)
(* The heartbeat behaviour of one node (behaviour/heartbeat_behaviour).    *)
(*                                                                         *)
(* Every connection has a HeartbeatHandler in a task of its own: it opens  *)
(* a stream, asks the behaviour for the payload to send, sends it, idles,  *)
(* has the TEE attestation refreshed and asks again.  Handlers report to   *)
(* the HeartbeatBehaviour through a bounded channel each; the behaviour    *)
(* queues what follows in pending_events, answers payload requests, and    *)
(* counts failures of all handlers in one counter.  When the counter is    *)
(* above max_failures it signals the event loop, which disconnects,        *)
(* counts down and has the ContainerManager end the process.               *)
(*                                                                         *)
(* libp2p's swarm polls the behaviour until it returns Pending, and only   *)
(* then takes one event of a handler.  Time is left out: a timer is an     *)
(* action that may fire at any moment it is set.                           *)
(***************************************************************************)
EXTENDS Integers, Sequences, FiniteSets

CONSTANTS Conn,         \* slots for connections; a slot is used again when
                        \* nothing of its last connection is left
          MaxFailures,  \* HeartbeatConfig.max_failures
          Forced,       \* the count set by trigger_heartbeat_failure (10_000)
          CountMax,     \* u32::MAX
          EventBuf,     \* libp2p: events a handler may have waiting
          SignalBuf,    \* capacity of the internal_heartbeat_fail channel
          MaxUpsets     \* bound: links going down, connections closing and
                        \* simulated failures

ASSUME CountsAssumption ==
    /\ MaxFailures \in Nat /\ Forced \in Nat /\ CountMax \in Nat
    /\ MaxFailures < Forced /\ Forced <= CountMax

ASSUME BuffersAssumption == EventBuf \in Nat \ {0} /\ SignalBuf \in Nat \ {0}

ASSUME UpsetsAssumption == MaxUpsets \in Nat

VARIABLES
    outbound,    \* [Conn -> OutboundState]
    dialFailed,  \* [Conn -> BOOLEAN]: dial_failures is Some(1)
    link,        \* [Conn -> {"up", "down"}]: down: the peer takes no bytes and
                 \* negotiates no stream
    events,      \* [Conn -> Seq(OutEvent)]: from the handler to the behaviour
    payload,     \* [Conn -> Payload]: the HeartbeatInEvent on its way back
    pending,     \* Seq(HeartbeatAction): pending_events
    yielded,     \* BOOLEAN: the last poll of the behaviour returned Pending
                 \* although actions were left
    outdated,    \* SUBSET Conn: handlers whose idle time ended after
                 \* current_heartbeat_payload was attested
    failCount,   \* 0..CountMax: internal_fail_count
    signals,     \* 0..SignalBuf: HeartbeatConfigs in the fail channel
    loop,        \* {"running", "sleeping", "exited"}: the event loop
    upsets,      \* 0..MaxUpsets: upsets so far
    causes,      \* SUBSET {"simulated", "dial"}, history: a failure was
                 \* simulated, a stream could not be opened, in this boot
    failures     \* 0..(MaxFailures + 1), history: failed attempts to send or
                 \* to open a stream in this boot, capped

handlerVars == <<outbound, dialFailed>>
vars == <<outbound, dialFailed, link, events, payload, pending,
          yielded, outdated, failCount, signals, loop, upsets, causes, failures>>

\* closed: no connection.  none: no stream.  requesting and requested are
\* RequestingTeeHeartbeat with `requested` FALSE and TRUE.
OutboundState == {"closed", "none", "negotiating", "requesting", "requested",
                  "sending", "idle"}

OutEvent == {"HeartbeatPayload", "RequestLocalHeartbeatPayloadToSend",
             "ResetFailureCount", "IncrementFailureCount",
             "RefreshLocalTeeAttestation"}

\* Whether the attestation in it is at least as new as the end of the idle
\* time of the handler it is for.
Payload == {"none", "fresh", "outdated"}

HeartbeatAction ==
    [kind : {"HeartbeatEvent"}, conn : Conn]
    \cup [kind : {"HeartbeatRequest"}, conn : Conn, payload : {"fresh", "outdated"}]
    \cup [kind : {"ShutdownIfMaxFailuresExceeded"}]

Open(c) == outbound[c] # "closed"

\* Nothing of an earlier connection in this slot is left.
Clear(c) ==
    /\ events[c] = <<>> /\ payload[c] = "none"
    /\ \A i \in DOMAIN pending :
          pending[i].kind # "ShutdownIfMaxFailuresExceeded" => pending[i].conn # c

-----------------------------------------------------------------------------
(* The handler (heartbeat_handler.rs).  One poll reads the inbound stream  *)
(* first, then reports a dial failure, and only then looks at outbound.    *)

\* The connection's task waits while its channel is full.
CanReport(c) == Open(c) /\ Len(events[c]) < EventBuf

Report(c, e) == events' = [events EXCEPT ![c] = Append(@, e)]

Outbound(c, s) == outbound' = [outbound EXCEPT ![c] = s]

\* A poll that gets past the inbound stream and the dial failures.
PollOutbound(c, state) ==
    /\ CanReport(c) /\ ~dialFailed[c] /\ outbound[c] = state
    /\ UNCHANGED dialFailed

\* The inbound stream is opened, filled and broken by the peer; all the node
\* does with it is to report a payload that arrives and parses.
ReceivePayload(c) ==
    /\ CanReport(c) /\ link[c] = "up"
    /\ Report(c, "HeartbeatPayload")
    /\ UNCHANGED handlerVars

\* dial_failures stays Some(1), so every further poll reports it again.
ReportDialFailure(c) ==
    /\ CanReport(c) /\ dialFailed[c]
    /\ Report(c, "IncrementFailureCount")
    /\ UNCHANGED handlerVars

OpenStream(c) ==
    /\ PollOutbound(c, "none")
    /\ Outbound(c, "negotiating")
    /\ UNCHANGED events

\* Mutant: the `requested` flag is not set.
RequestAgain(c) ==
    /\ PollOutbound(c, "requesting")
    /\ Report(c, "RequestLocalHeartbeatPayloadToSend")
    /\ UNCHANGED outbound

RequestPayload(c) ==
    /\ PollOutbound(c, "requesting")
    /\ Outbound(c, "requested")
    /\ Report(c, "RequestLocalHeartbeatPayloadToSend")

SendSucceeds(c) ==
    /\ PollOutbound(c, "sending") /\ link[c] = "up"
    /\ Outbound(c, "idle")
    /\ Report(c, "ResetFailureCount")

\* Mutant: the timed out send is put back, and times out again.
SendPutBack(c) ==
    /\ PollOutbound(c, "sending") /\ link[c] = "down"
    /\ Report(c, "IncrementFailureCount")
    /\ UNCHANGED outbound

\* The send times out or errs; its stream is dropped with it.
SendFails(c) ==
    /\ PollOutbound(c, "sending") /\ link[c] = "down"
    /\ Outbound(c, "none")
    /\ Report(c, "IncrementFailureCount")

\* Mutants: no new attestation is asked for; the payload counts as requested.
ExpireWithoutRefresh(c) ==
    /\ PollOutbound(c, "idle")
    /\ Outbound(c, "requesting")
    /\ UNCHANGED events
ExpireRequested(c) ==
    /\ PollOutbound(c, "idle")
    /\ Outbound(c, "requested")
    /\ Report(c, "RefreshLocalTeeAttestation")

IdleExpires(c) ==
    /\ PollOutbound(c, "idle")
    /\ Outbound(c, "requesting")
    /\ Report(c, "RefreshLocalTeeAttestation")

\* on_behaviour_event: a payload nobody waits for is dropped.
OnBehaviourEvent(c) ==
    /\ payload[c] # "none"
    /\ outbound' = IF outbound[c] = "requested"
                   THEN [outbound EXCEPT ![c] = "sending"] ELSE outbound
    /\ payload' = [payload EXCEPT ![c] = "none"]
    /\ UNCHANGED <<dialFailed, events>>

FullyNegotiatedOutbound(c) ==
    /\ outbound[c] = "negotiating" /\ link[c] = "up"
    /\ Outbound(c, "requesting")
    /\ UNCHANGED <<dialFailed, events>>

\* Mutant: the failure is forgotten and the stream opened again.
RetryQuietly(c) ==
    /\ outbound[c] = "negotiating" /\ link[c] = "down"
    /\ Outbound(c, "none")
    /\ UNCHANGED <<dialFailed, events>>

DialUpgradeError(c) ==
    /\ outbound[c] = "negotiating" /\ link[c] = "down"
    /\ Outbound(c, "none")
    /\ dialFailed' = [dialFailed EXCEPT ![c] = TRUE]
    /\ UNCHANGED events

-----------------------------------------------------------------------------
(* The behaviour (heartbeat_behaviour/mod.rs).                             *)

\* The behaviour's last poll returned Pending, so the swarm goes on to the
\* events of the handlers.
AtHandlerEvents == loop = "running" /\ (pending = <<>> \/ yielded)

Queue(a) == pending' = Append(pending, a)

\* Mutant: the count grows past its type.
PlainAdd(n) == n + 1

SaturatingAdd(n) == IF n < CountMax THEN n + 1 ELSE CountMax

\* on_connection_handler_event; a refresh makes the attestation current for
\* every handler.
OnConnectionHandlerEvent(c) ==
    /\ AtHandlerEvents /\ events[c] # <<>>
    /\ events' = [events EXCEPT ![c] = Tail(@)]
    /\ yielded' = FALSE
    /\ LET e == Head(events[c]) IN
       \/ /\ e = "HeartbeatPayload"
          /\ Queue([kind |-> "HeartbeatEvent", conn |-> c])
          /\ UNCHANGED <<failCount, outdated>>
       \/ /\ e = "ResetFailureCount"
          /\ failCount' = 0
          /\ UNCHANGED <<pending, outdated>>
       \/ /\ e = "RequestLocalHeartbeatPayloadToSend"
          /\ Queue([kind |-> "HeartbeatRequest", conn |-> c,
                    payload |-> IF c \in outdated THEN "outdated" ELSE "fresh"])
          /\ UNCHANGED <<failCount, outdated>>
       \/ /\ e = "IncrementFailureCount"
          /\ failCount' = SaturatingAdd(failCount)
          /\ Queue([kind |-> "ShutdownIfMaxFailuresExceeded"])
          /\ UNCHANGED outdated
       \/ /\ e = "RefreshLocalTeeAttestation"
          /\ outdated' = {}
          /\ UNCHANGED <<failCount, pending>>

\* poll: one action of pending_events.  A payload is passed to the event loop
\* (Heartbeat in Reincarnation); a request for a closed connection is dropped.
\* The shutdown check sends without waiting, so a full channel drops the
\* signal, and returns Pending whatever else is queued.
Poll ==
    /\ loop = "running" /\ pending # <<>>
    /\ pending' = Tail(pending)
    /\ LET a == Head(pending) IN
       \/ /\ a.kind = "HeartbeatEvent"
          /\ yielded' = FALSE
          /\ UNCHANGED <<payload, signals>>
       \/ /\ a.kind = "HeartbeatRequest"
          /\ payload' = IF Open(a.conn)
                        THEN [payload EXCEPT ![a.conn] = a.payload] ELSE payload
          /\ yielded' = FALSE
          /\ UNCHANGED signals
       \/ /\ a.kind = "ShutdownIfMaxFailuresExceeded"
          /\ signals' = IF failCount > MaxFailures /\ signals < SignalBuf
                        THEN signals + 1 ELSE signals
          /\ yielded' = (Len(pending) > 1)
          /\ UNCHANGED payload

\* The SimulateNodeFailure command, outside production.
TriggerHeartbeatFailure ==
    /\ loop = "running" /\ upsets < MaxUpsets
    /\ upsets' = upsets + 1
    /\ causes' = causes \cup {"simulated"}
    /\ failCount' = Forced
    /\ Queue([kind |-> "ShutdownIfMaxFailuresExceeded"])

-----------------------------------------------------------------------------
(* The event loop and its process.                                         *)

\* A connection and its handler are gone; what the handler had reported is
\* still delivered.
CloseAll(S) ==
    /\ outbound' = [c \in Conn |-> IF c \in S THEN "closed" ELSE outbound[c]]
    /\ dialFailed' = [c \in Conn |-> c \notin S /\ dialFailed[c]]
    /\ payload' = [c \in Conn |-> IF c \in S THEN "none" ELSE payload[c]]

\* handle_internal_heartbeat_failure up to its countdown, during which the
\* swarm is not polled.
InternalHeartbeatFailure ==
    /\ loop = "running" /\ signals > 0
    /\ signals' = signals - 1
    /\ loop' = "sleeping"
    /\ CloseAll(Conn)
    /\ UNCHANGED <<link, events, pending, yielded, outdated, failCount, upsets,
                   causes, failures>>

\* trigger_restart: exit(0).
TriggerRestart ==
    /\ loop = "sleeping"
    /\ loop' = "exited"
    /\ UNCHANGED <<outbound, dialFailed, link, events, payload, pending,
                   yielded, outdated, failCount, signals, upsets, causes, failures>>

Init ==
    /\ outbound = [c \in Conn |-> "closed"]
    /\ dialFailed = [c \in Conn |-> FALSE]
    /\ link = [c \in Conn |-> "up"]
    /\ events = [c \in Conn |-> <<>>]
    /\ payload = [c \in Conn |-> "none"]
    /\ pending = <<>>
    /\ yielded = FALSE
    /\ outdated = {}
    /\ failCount = 0
    /\ signals = 0
    /\ loop = "running"
    /\ causes = {}
    /\ upsets = 0
    /\ failures = 0

\* The container is started again, with nothing left of the last boot.
Restart ==
    /\ loop = "exited"
    /\ CloseAll(Conn)
    /\ link' = [c \in Conn |-> "up"]
    /\ events' = [c \in Conn |-> <<>>]
    /\ pending' = <<>>
    /\ yielded' = FALSE
    /\ outdated' = {}
    /\ failCount' = 0
    /\ signals' = 0
    /\ loop' = "running"
    /\ causes' = {}
    /\ failures' = 0
    /\ UNCHANGED upsets

ConnectionEstablished(c) ==
    /\ loop = "running" /\ ~Open(c) /\ Clear(c)
    /\ Outbound(c, "none")
    /\ link' = [link EXCEPT ![c] = "up"]
    /\ outdated' = outdated \ {c}
    /\ UNCHANGED <<dialFailed, events, payload, pending, yielded,
                   failCount, signals, loop, upsets, causes, failures>>

ConnectionClosed(c) ==
    /\ Open(c) /\ upsets < MaxUpsets
    /\ upsets' = upsets + 1
    /\ CloseAll({c})
    /\ UNCHANGED <<link, events, pending, yielded, outdated, failCount, signals,
                   loop, causes, failures>>

\* The network between the two nodes.
LinkDown(c) ==
    /\ Open(c) /\ link[c] = "up" /\ upsets < MaxUpsets
    /\ upsets' = upsets + 1
    /\ link' = [link EXCEPT ![c] = "down"]
    /\ UNCHANGED <<outbound, dialFailed, events, payload, pending,
                   yielded, outdated, failCount, signals, loop, causes, failures>>

LinkUp(c) ==
    /\ Open(c) /\ link[c] = "down"
    /\ link' = [link EXCEPT ![c] = "up"]
    /\ UNCHANGED <<outbound, dialFailed, events, payload, pending,
                   yielded, outdated, failCount, signals, loop, upsets, causes,
                   failures>>

-----------------------------------------------------------------------------

\* What a step of c's handler means for the history and for the age of the
\* attestation.
Observe(c) ==
    /\ outdated' = IF outbound[c] = "idle" /\ outbound'[c] # "idle"
                   THEN outdated \cup {c} ELSE outdated
    /\ causes' = IF outbound[c] = "negotiating" /\ outbound'[c] = "none"
                 THEN causes \cup {"dial"} ELSE causes
    /\ failures' = IF /\ outbound[c] \in {"sending", "negotiating"}
                      /\ outbound'[c] = "none"
                      /\ failures <= MaxFailures
                   THEN failures + 1 ELSE failures

PollInbound(c) ==
    /\ ReceivePayload(c)
    /\ Observe(c)
    /\ UNCHANGED <<link, payload, pending, yielded, failCount, signals, loop,
                   upsets>>

PollRest(c) ==
    /\ \/ ReportDialFailure(c) \/ OpenStream(c) \/ RequestPayload(c)
       \/ SendSucceeds(c) \/ SendFails(c) \/ IdleExpires(c)
    /\ Observe(c)
    /\ UNCHANGED <<link, payload, pending, yielded, failCount, signals, loop,
                   upsets>>

Negotiated(c) ==
    /\ FullyNegotiatedOutbound(c) \/ DialUpgradeError(c)
    /\ Observe(c)
    /\ UNCHANGED <<link, payload, pending, yielded, failCount, signals, loop,
                   upsets>>

TakePayload(c) ==
    /\ OnBehaviourEvent(c)
    /\ UNCHANGED <<link, pending, yielded, outdated, failCount, signals, loop,
                   upsets, causes, failures>>

TakeEvent(c) ==
    /\ OnConnectionHandlerEvent(c)
    /\ UNCHANGED <<outbound, dialFailed, link, payload, signals, loop,
                   upsets, causes, failures>>

PollBehaviour ==
    /\ Poll
    /\ UNCHANGED <<outbound, dialFailed, link, events, outdated,
                   failCount, loop, upsets, causes, failures>>

SimulateHeartbeatFailure ==
    /\ TriggerHeartbeatFailure
    /\ UNCHANGED <<outbound, dialFailed, link, events, payload, yielded,
                   outdated, signals, loop, failures>>

Next ==
    \/ \E c \in Conn :
          \/ PollInbound(c) \/ PollRest(c) \/ Negotiated(c)
          \/ TakePayload(c) \/ TakeEvent(c)
          \/ ConnectionEstablished(c) \/ ConnectionClosed(c)
          \/ LinkDown(c) \/ LinkUp(c)
    \/ PollBehaviour \/ SimulateHeartbeatFailure
    \/ InternalHeartbeatFailure \/ TriggerRestart \/ Restart

\* Tasks that can run are polled and timers fire.  Strong fairness where the
\* step waits for its turn: the swarm takes the handlers' events in turn, and
\* a peer sends one payload in its idle time, which leaves the handler room.
Fairness ==
    /\ \A c \in Conn :
          /\ SF_vars(PollRest(c)) /\ SF_vars(TakeEvent(c))
          /\ WF_vars(Negotiated(c)) /\ WF_vars(TakePayload(c))
    /\ WF_vars(PollBehaviour)
    /\ WF_vars(InternalHeartbeatFailure) /\ WF_vars(TriggerRestart)

Spec == Init /\ [][Next]_vars

FairSpec == Spec /\ Fairness

-----------------------------------------------------------------------------
(* Properties.                                                             *)

\* Every variable has its type; the failure count stays a u32.
TypeOK ==
    /\ outbound \in [Conn -> OutboundState]
    /\ dialFailed \in [Conn -> BOOLEAN]
    /\ link \in [Conn -> {"up", "down"}]
    /\ events \in [Conn -> Seq(OutEvent)]
    /\ payload \in [Conn -> Payload]
    /\ pending \in Seq(HeartbeatAction)
    /\ yielded \in BOOLEAN
    /\ outdated \in SUBSET Conn
    /\ failCount \in 0..CountMax
    /\ signals \in 0..SignalBuf
    /\ loop \in {"running", "sleeping", "exited"}
    /\ upsets \in 0..MaxUpsets
    /\ causes \in SUBSET {"simulated", "dial"}
    /\ failures \in 0..(MaxFailures + 1)

\* Requests of c for a payload that are reported, queued or answered.
UnderWay(c) ==
    Cardinality({i \in DOMAIN events[c] :
                    events[c][i] = "RequestLocalHeartbeatPayloadToSend"})
    + Cardinality({i \in DOMAIN pending :
                    pending[i].kind = "HeartbeatRequest" /\ pending[i].conn = c})
    + IF payload[c] = "none" THEN 0 ELSE 1

\* A handler that waits for the payload has exactly one request under way, and
\* one that does not wait has none: no request is lost on the way through the
\* two queues, and none is made twice in a heartbeat cycle
\* (heartbeat_handler.rs, OutboundState: "`true` if the TeeAttestation has been
\* requested in the current `Heartbeat` cycle").
OneRequestPerCycle ==
    \A c \in Conn : Open(c) =>
        UnderWay(c) = IF outbound[c] = "requested" THEN 1 ELSE 0

\* The payload a handler gets after its idle time was attested after that idle
\* time, whatever the other handlers do between its refresh and its request
\* (heartbeat_handler.rs: "generate new TEE attestation").
HeartbeatsFreshlyAttested == \A c \in Conn : payload[c] # "outdated"

ShuttingDown == signals > 0 \/ loop # "running"

\* A node that no one told to fail, and that could open its streams, shuts
\* down only after more than MaxFailures sends failed: late and repeated
\* reports of failures never add up to more (on_connection_handler_event, poll).
ShutdownHasCause == ShuttingDown /\ causes = {} => failures > MaxFailures

\* A node that no one told to fail shuts down only after more than MaxFailures
\* attempts have failed (config.rs: "Max failures allowed").
FailuresTolerated ==
    ShuttingDown /\ "simulated" \notin causes => failures > MaxFailures

\* A connection that stays open and whose peer takes bytes is sent heartbeats
\* again and again, whatever happens on other connections, unless its handler
\* once failed to open a stream (heartbeat_handler.rs, poll).
HeartbeatsKeepComing ==
    \A c \in Conn :
        <>[](loop = "running" /\ Open(c) /\ link[c] = "up" /\ ~dialFailed[c])
        => []<>(outbound[c] = "sending") /\ []<>(outbound[c] = "idle")

CutOff ==
    /\ loop = "running"
    /\ \E c \in Conn : Open(c)
    /\ \A c \in Conn : Open(c) => link[c] = "down"

\* A node with connections, none of which takes its heartbeats, does not go on
\* running: it notices and shuts down (reincarnation.rs: "It realizes it is no
\* longer connected to the network").
CutOffNodeShutsDown == []<>~CutOff
=============================================================================
