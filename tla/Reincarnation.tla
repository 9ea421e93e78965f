--------------------------- MODULE Reincarnation ---------------------------
(***************************************************************************)
(* The life of a sovereign agent on the p2p network: it is spawned on a    *)
(* vessel, its secrets are threshold-encrypted for a next vessel, the key  *)
(* fragments are spread over provider nodes, and when the vessel stops     *)
(* sending heartbeats the next vessel collects the fragments, decrypts the *)
(* secrets, and does the same again one nonce later.                       *)
(*                                                                         *)
(* Every node runs a NetworkEvents loop (swarm events, 1s ticks, commands) *)
(* and a NodeClient listener that handles RespawnRequests one at a time.   *)
(* An action is one turn of that loop or one stretch of the listener       *)
(* between two awaits that can see other events.                           *)
(*                                                                         *)
(* Time is left out: how long a peer has been silent is a choice of the    *)
(* environment (Overdue), so a tick may find a silent peer offline at any  *)
(* moment, and a connected one that is slow MaxUpsets times.  A tick that  *)
(* finds two peers offline is two steps.                                   *)
(***************************************************************************)
EXTENDS PeerManager, FiniteSets

CONSTANTS Threshold,    \* fragments needed to decrypt (threshold)
          MaxCreated,   \* bound: reveries made per agent
          MaxFailures,  \* bound: node failures
          MaxUpsets     \* bound: connections lost or doubled, slow peers, routing
                        \* updates, repeated bootstraps

\* spawn_agent refuses a threshold above the number of fragments.
ASSUME ThresholdAssumption == Threshold \in 1..TotalFrags

VARIABLES
    status,    \* [Node -> Status]
    boot,      \* [Node -> Nat]: how often the node has started
    conn,      \* [Node -> SUBSET Node]: swarm.connected_peers()
    pm,        \* [Node -> PeerManagers]
    respawns,  \* [Node -> SUBSET RespawnId]: pending.respawns
    inbox,     \* [Node -> Seq(AgentVesselInfo)]: RespawnRequests for the
               \* listener; its head is the one being handled, if any
    task,      \* [Node -> Task]: where the listener is in handling it
    dht,       \* [Node -> VesselStatus]: signed status records on Kademlia
    msgs,      \* SUBSET Message: request-response traffic in flight
    created,   \* [Agent -> Seq(Reverie)]: history of the reveries made
    failures,  \* Nat: failures so far
    upsets     \* Nat: events of MaxUpsets' kinds so far

vars == <<status, boot, conn, pm, respawns, inbox, task, dht, msgs, created,
          failures, upsets>>

loopVars == <<status, boot, conn, failures, upsets>>

\* up: running.  sleeping: counting down to a reboot inside the event loop,
\* disconnected.  down: the process has exited.  wedged: the event loop task
\* has panicked; the process, and so its container, keeps running without it.
Status == {"up", "sleeping", "down", "wedged"}

RespawnId == Agent \X Nat \X Node

\* What the listener has of the fragments of the reverie it is handling.
Task == [pc : {"idle", "collect", "place"}, ok : SUBSET Node, failed : SUBSET Node]

Idle == [pc |-> "idle", ok |-> {}, failed |-> {}]

VesselStatus == [vessel_status : {"EmptyVessel", "ActiveVessel"}, boot : Nat]

\* sender is the boot of the requesting node: the response channel of a
\* request closes when that boot ends.
Message ==
    [type : {"SaveFragment"}, from : Node, sender : Nat, to : Node,
     reverie : Reverie, frag : 1..TotalFrags]
    \cup
    [type : {"SaveCiphertext"}, from : Node, sender : Nat, to : Node,
     reverie : Reverie]
    \cup
    [type : {"ProvidingFragment"}, from : Node, sender : Nat, to : Node,
     id : ReverieId, frag : 1..TotalFrags]
    \cup
    [type : {"MarkRespawnComplete"}, from : Node, sender : Nat, to : Node,
     info : AgentVesselInfo]
    \cup
    \* the request is signed with the key of the sender's boot
    [type : {"GetFragment"}, from : Node, sender : Nat, to : Node,
     id : ReverieId]
    \cup
    \* back to the requester; ok is FALSE for an OutboundFailure
    [type : {"GetFragmentResponse"}, from : Node, to : Node, id : ReverieId,
     ok : BOOLEAN]

Requests == {"SaveFragment", "SaveCiphertext", "ProvidingFragment",
             "MarkRespawnComplete", "GetFragment"}

-----------------------------------------------------------------------------

Up(n) == status[n] = "up"

\* The connection a request came in on is still there to answer on.
ChannelOpen(m) == Up(m.from) /\ boot[m.from] = m.sender

\* n has not heard from p for too long: no heartbeat of p can reach it, or p is
\* connected and slow, which is one of the upsets.
Overdue(n, p) == p \notin conn[n] \/ upsets < MaxUpsets

\* A message can only be lost with the connection it needs.
Lossy(m) == m.to \notin conn[m.from]

\* Everything a node knows is in memory.
Forget(n) ==
    /\ pm' = [pm EXCEPT ![n] = NewPeerManager]
    /\ respawns' = [respawns EXCEPT ![n] = {}]
    /\ inbox' = [inbox EXCEPT ![n] = <<>>]
    /\ task' = [task EXCEPT ![n] = Idle]

\* A node that stops being up leaves every connection; the peers'
\* ConnectionClosed handlers change nothing else.
Disconnect(n) ==
    conn' = [q \in Node |-> IF q = n THEN {} ELSE conn[q] \ {n}]

\* The answers it was waiting for have nobody to go to.
AnswersTo(n) == {m \in msgs : m.type = "GetFragmentResponse" /\ m.to = n}

\* An Err from a handler, or a panic in it, ends the event loop
\* (.expect("swarm handler error")).  With the loop goes the sender of the
\* listener's channel, and the listener panics on the None it receives.
Wedge(n) ==
    /\ status' = [status EXCEPT ![n] = "wedged"]
    /\ Disconnect(n)
    /\ Forget(n)
    /\ UNCHANGED <<boot, failures, upsets, dht, created>>

-----------------------------------------------------------------------------
(* Spawning: get_prospect_vessels, create_reverie and                      *)
(* broadcast_reverie_keyfrags.                                             *)

\* The vessels a node can use: connected peers whose status record says
\* EmptyVessel.
ProspectVessels(n) ==
    {p \in conn[n] : dht[p].vessel_status = "EmptyVessel"}

Providers == [1..TotalFrags -> Node]

\* Mutant: the target may hold a fragment of its own.
TargetMayProvide(n, target, providers) ==
    /\ target \in ProspectVessels(n)
    /\ \A i \in 1..TotalFrags : providers[i] \in ProspectVessels(n)
    /\ \A i, j \in 1..TotalFrags : providers[i] = providers[j] => i = j

\* The first of them in arrival order is the target, the next TotalFrags
\* hold the fragments.
CanPlace(n, target, providers) ==
    /\ target \in ProspectVessels(n)
    /\ \A i \in 1..TotalFrags : providers[i] \in ProspectVessels(n) \ {target}
    /\ \A i, j \in 1..TotalFrags : providers[i] = providers[j] => i = j

NewReverie(n, a, nonce, target, providers) ==
    [id |-> <<a, Len(created[a]) + 1>>, agent |-> a, nonce |-> nonce,
     source |-> n, target |-> target, providers |-> providers,
     verifying_key |-> <<target, dht[target].boot>>]

BroadcastMsgs(n, r) ==
    {[type |-> "SaveFragment", from |-> n, sender |-> boot[n],
      to |-> r.providers[i], reverie |-> r, frag |-> i] : i \in 1..TotalFrags}
    \cup
    {[type |-> "SaveCiphertext", from |-> n, sender |-> boot[n],
      to |-> r.target, reverie |-> r]}

\* The spawn_agent RPC on node n.  The name of an agent is used once.  The
\* sends are separate commands; a crash between two of them is a crash after
\* the step that loses the rest.
SpawnAgent(n, a, target, providers) ==
    /\ Up(n)
    /\ created[a] = <<>>
    /\ CanPlace(n, target, providers)
    /\ LET r == NewReverie(n, a, 0, target, providers) IN
         /\ created' = [created EXCEPT ![a] = Append(@, r)]
         /\ msgs' = msgs \cup BroadcastMsgs(n, r)
         /\ pm' = [pm EXCEPT ![n] = SetPeerInfoAgentVessel(@, n, VesselInfo(r))]
    /\ UNCHANGED <<loopVars, respawns, inbox, task, dht>>

-----------------------------------------------------------------------------
(* Inbound requests: handle_request_response.                              *)

Inbound(n, m, type) == Up(n) /\ m \in msgs /\ m.to = n /\ m.type = type

\* A provider re-encrypts and keeps its fragment and tells the next vessel.
SaveFragmentRequest(n, m) ==
    /\ Inbound(n, m, "SaveFragment")
    /\ LET r == m.reverie
           known == InsertReverieMetadata(
                      SetPeerInfoAgentVessel(pm[n], n, VesselInfo(r)), VesselInfo(r))
       IN /\ pm' = [pm EXCEPT ![n] = InsertCfrag(known, r)]
          /\ msgs' = (msgs \ {m}) \cup
                {[type |-> "ProvidingFragment", from |-> n, sender |-> boot[n],
                  to |-> r.target, id |-> r.id, frag |-> m.frag]}
    /\ UNCHANGED <<loopVars, respawns, inbox, task, dht, created>>

\* The next vessel learns who holds fragments; the provider's PeerInfo is
\* made anew.
ProvidingFragmentRequest(n, m) ==
    /\ Inbound(n, m, "ProvidingFragment")
    /\ pm' = [pm EXCEPT ![n] =
                 InsertPeerInfo(InsertKfragProvider(@, m.from, m.id, m.frag), m.from)]
    /\ msgs' = msgs \ {m}
    /\ UNCHANGED <<loopVars, respawns, inbox, task, dht, created>>

\* The next vessel stores the ciphertext and publishes itself as
\* ActiveVessel.
SaveCiphertextRequest(n, m) ==
    /\ Inbound(n, m, "SaveCiphertext")
    /\ LET r == m.reverie
           known == InsertReverieMetadata(
                      SetPeerInfoAgentVessel(pm[n], n, VesselInfo(r)), VesselInfo(r))
       IN pm' = [pm EXCEPT ![n] = InsertReverie(known, r)]
    /\ dht' = [dht EXCEPT ![n] = [vessel_status |-> "ActiveVessel", boot |-> boot[n]]]
    /\ msgs' = msgs \ {m}
    /\ UNCHANGED <<loopVars, respawns, inbox, task, created>>

\* Mutant: the failed vessel is not part of the id.
RespawnIdOfAgentOnly(info) == <<info.agent, info.nonce>>

RespawnIdOf(info) == <<info.agent, info.nonce, info.current_vessel>>

\* Mutant: the peer is removed, the marker stays.
MarkerKept(n, m) ==
    /\ Inbound(n, m, "MarkRespawnComplete")
    /\ pm' = [pm EXCEPT ![n] = RemovePeer(@, m.info.current_vessel)]
    /\ msgs' = msgs \ {m}
    /\ UNCHANGED <<loopVars, respawns, inbox, task, dht, created>>

MarkRespawnCompleteRequest(n, m) ==
    /\ Inbound(n, m, "MarkRespawnComplete")
    /\ respawns' = [respawns EXCEPT ![n] = @ \ {RespawnIdOf(m.info)}]
    /\ pm' = [pm EXCEPT ![n] = RemovePeer(@, m.info.current_vessel)]
    /\ msgs' = msgs \ {m}
    /\ UNCHANGED <<loopVars, inbox, task, dht, created>>

\* Mutant: anyone who asks for a fragment the node holds gets it.
HoldsFragment(n, m) == \E c \in pm[n].cfrags : c.id = m.id

\* verify_access: the signature must be by the key the reverie names.
HasAccess(n, m) ==
    \E c \in pm[n].cfrags : c.id = m.id /\ c.verifying_key = <<m.from, m.sender>>

\* What reaches the requester of m, if it is still there to wait for it.
Answer(m, ok) ==
    IF ChannelOpen(m)
    THEN {[type |-> "GetFragmentResponse", from |-> m.to, to |-> m.from,
           id |-> m.id, ok |-> ok]}
    ELSE {}

GetFragmentRequest(n, m) ==
    /\ Inbound(n, m, "GetFragment")
    /\ HasAccess(n, m)
    /\ msgs' = (msgs \ {m}) \cup Answer(m, TRUE)
    /\ UNCHANGED <<loopVars, pm, respawns, inbox, task, dht, created>>

\* No fragment for the reverie, or a signature by another key: the handler
\* returns Err, which ends the provider's event loop.  The requester sees
\* the connection fail.
GetFragmentRefused(n, m) ==
    /\ Inbound(n, m, "GetFragment")
    /\ ~HasAccess(n, m)
    /\ msgs' = (msgs \ (AnswersTo(n) \cup {m})) \cup Answer(m, FALSE)
    /\ Wedge(n)

\* The requester or the connection to it is gone when its request is handled:
\* send_response fails, and the expect or ? on it ends the event loop; whoever
\* waits for a fragment sees its request fail.  (The request may as well be
\* handled before the loss of the connection is noticed, as above.)
ResponseChannelClosed(n, m) ==
    /\ Up(n) /\ m \in msgs /\ m.to = n /\ m.type \in Requests
    /\ ~ChannelOpen(m) \/ m.from \notin conn[n]
    /\ msgs' = (msgs \ (AnswersTo(n) \cup {m}))
                \cup IF m.type = "GetFragment" THEN Answer(m, FALSE) ELSE {}
    /\ Wedge(n)

\* A lost request or response.  Only GetFragment has someone waiting, who
\* gets an OutboundFailure instead.
LoseMessage(m) ==
    /\ m \in msgs /\ Lossy(m)
    /\ msgs' = (msgs \ {m}) \cup
          CASE m.type = "GetFragment" -> Answer(m, FALSE)
            [] m.type = "GetFragmentResponse" -> {[m EXCEPT !.ok = FALSE]}
            [] OTHER -> {}
    /\ msgs' # msgs
    /\ UNCHANGED <<loopVars, pm, respawns, inbox, task, dht, created>>

-----------------------------------------------------------------------------
(* The listener: handle_respawn_request.                                   *)

\* A RespawnRequest is taken up: the reverie is looked up locally
\* (GetReverie of a SovereignAgent) and every provider it names is asked
\* for its fragment.  That the lookup finds it is RespawnsHaveCiphertext.
StartRespawn(n, r) ==
    /\ Up(n) /\ task[n].pc = "idle" /\ inbox[n] # <<>>
    /\ r \in pm[n].reverie /\ r.id = Head(inbox[n]).reverie_id
    /\ task' = [task EXCEPT ![n].pc = "collect"]
    /\ msgs' = msgs \cup
          {[type |-> "GetFragment", from |-> n, sender |-> boot[n],
            to |-> r.providers[i], id |-> r.id] : i \in 1..TotalFrags}
    /\ UNCHANGED <<loopVars, pm, respawns, inbox, dht, created>>

\* handle_respawn_request returns Err: it is logged, and the RespawnRequest
\* is gone.
DropRespawn(n) ==
    /\ inbox' = [inbox EXCEPT ![n] = Tail(@)]
    /\ task' = [task EXCEPT ![n] = Idle]
    /\ UNCHANGED <<loopVars, pm, respawns, dht, msgs, created>>

\* The event loop hands the answer to the waiting request_cfrags future.
GetFragmentResponse(n, m) ==
    /\ Inbound(n, m, "GetFragmentResponse")
    /\ task' = IF m.ok THEN [task EXCEPT ![n].ok = @ \cup {m.from}]
                       ELSE [task EXCEPT ![n].failed = @ \cup {m.from}]
    /\ msgs' = msgs \ {m}
    /\ UNCHANGED <<loopVars, pm, respawns, inbox, dht, created>>

\* request_cfrags waits for an answer from every provider.
AllAnswered(n) ==
    /\ Up(n) /\ task[n].pc = "collect"
    /\ Cardinality(task[n].ok \cup task[n].failed) = TotalFrags

\* Mutants: failed answers pass for fragments; the threshold is exceeded, not
\* reached.
AnyAnswersUsable(t) == t.ok \cup t.failed # {}
MoreThanThreshold(t) == t.failed = {} /\ Cardinality(t.ok) > Threshold

\* parse_cfrags: the first failed answer is returned as the error.
CfragsUsable(t) == t.failed = {} /\ Cardinality(t.ok) >= Threshold

CollectCfrags(n) ==
    /\ AllAnswered(n) /\ CfragsUsable(task[n])
    /\ task' = [task EXCEPT ![n].pc = "place"]
    /\ UNCHANGED <<loopVars, pm, respawns, inbox, dht, msgs, created>>

CollectFails(n) == AllAnswered(n) /\ ~CfragsUsable(task[n]) /\ DropRespawn(n)

\* get_prospect_vessels finds no vessel, or broadcast_reverie_keyfrags too
\* few providers.
PlaceFails(n) ==
    /\ Up(n) /\ task[n].pc = "place"
    /\ Cardinality(ProspectVessels(n)) <= TotalFrags
    /\ DropRespawn(n)

\* Mutant: the nonce is kept.
SameNonce(info) == info.nonce

\* increment_nonce
NextNonce(info) == info.nonce + 1

\* The command MarkPendingRespawnComplete tells the providers it finds.
MarkCompleteMsgs(n, known, prev) ==
    {[type |-> "MarkRespawnComplete", from |-> n, sender |-> boot[n], to |-> p,
      info |-> prev] : p \in KfragProviders(known, prev.reverie_id)}

\* The decrypted agent is placed again with the next nonce, this node its
\* vessel, and the respawn is marked complete here and at the providers of
\* the previous reverie this node has heard of.
PlaceAgent(n, target, providers) ==
    /\ Up(n) /\ task[n].pc = "place"
    /\ CanPlace(n, target, providers)
    /\ LET prev == Head(inbox[n])
           r == NewReverie(n, prev.agent, NextNonce(prev), target, providers)
           done == RemovePeer(SetPeerInfoAgentVessel(pm[n], n, VesselInfo(r)),
                              prev.current_vessel)
       IN /\ Len(created[prev.agent]) < MaxCreated
          /\ created' = [created EXCEPT ![prev.agent] = Append(@, r)]
          /\ pm' = [pm EXCEPT ![n] = done]
          /\ respawns' = [respawns EXCEPT ![n] = @ \ {RespawnIdOf(prev)}]
          /\ msgs' = msgs \cup BroadcastMsgs(n, r) \cup MarkCompleteMsgs(n, done, prev)
    /\ inbox' = [inbox EXCEPT ![n] = Tail(@)]
    /\ task' = [task EXCEPT ![n] = Idle]
    /\ UNCHANGED <<loopVars, dht>>

-----------------------------------------------------------------------------
(* Ticks, heartbeats, connections and Kademlia events.                     *)

\* handle_peer_heartbeat_failure finds p offline.  A vessel's silence marks
\* its agent as respawning; its next vessel dispatches the RespawnRequest
\* and forgets the peer, the others keep it until told that the respawn is
\* complete.
PeerHeartbeatFailure(n, p) ==
    /\ Up(n) /\ p \in pm[n].peer_info /\ Overdue(n, p)
    /\ LET hosted == {av \in pm[n].agent_vessel : av.current_vessel = p}
           mine == {av \in hosted : av.next_vessel = n}
       IN /\ respawns' = [respawns EXCEPT ![n] = @ \cup {RespawnIdOf(av) : av \in hosted}]
          /\ \/ /\ hosted = {}
                /\ pm' = [pm EXCEPT ![n] = RemovePeer(@, p)]
                /\ UNCHANGED inbox
             \/ \E av \in mine :
                /\ inbox' = [inbox EXCEPT ![n] = Append(@, av)]
                /\ pm' = [pm EXCEPT ![n] = RemovePeer(@, p)]
             \/ /\ hosted # {} /\ mine = {}
                /\ UNCHANGED <<pm, inbox>>
    /\ upsets' = IF p \in conn[n] THEN upsets + 1 ELSE upsets
    /\ UNCHANGED <<status, boot, conn, failures, task, dht, msgs, created>>

Heartbeat(n, p) ==
    /\ Up(n) /\ Up(p) /\ p \in conn[n]
    /\ pm' = [pm EXCEPT ![n] = UpdatePeerHeartbeat(@, p)]
    /\ UNCHANGED <<loopVars, respawns, inbox, task, dht, msgs, created>>

\* Both ends see a new connection before anything that comes over it, so
\* their two ConnectionEstablished events are one step.
ConnectionEstablished(n, p) ==
    /\ Up(n) /\ Up(p) /\ n # p /\ p \notin conn[n]
    /\ conn' = [conn EXCEPT ![n] = @ \cup {p}, ![p] = @ \cup {n}]
    /\ pm' = [pm EXCEPT ![n] = InsertPeerInfo(@, p), ![p] = InsertPeerInfo(@, n)]
    /\ UNCHANGED <<status, boot, failures, upsets, respawns, inbox, task, dht,
                   msgs, created>>

\* Two peers that dial each other get a second connection, and both make
\* the other's PeerInfo anew.
SecondConnection(n, p) ==
    /\ Up(n) /\ p \in conn[n] /\ upsets < MaxUpsets
    /\ pm' = [pm EXCEPT ![n] = InsertPeerInfo(@, p), ![p] = InsertPeerInfo(@, n)]
    /\ upsets' = upsets + 1
    /\ UNCHANGED <<status, boot, conn, failures, respawns, inbox, task, dht,
                   msgs, created>>

\* The network upsets the connections between two running nodes.
ConnectionLost(n, p) ==
    /\ Up(n) /\ Up(p) /\ p \in conn[n] /\ upsets < MaxUpsets
    /\ conn' = [conn EXCEPT ![n] = @ \ {p}, ![p] = @ \ {n}]
    /\ upsets' = upsets + 1
    /\ UNCHANGED <<status, boot, failures, pm, respawns, inbox, task, dht,
                   msgs, created>>

\* A routing table update names a peer that is not connected
\* (should_dial_peer): its PeerInfo is made anew before it is dialled.
RoutingUpdated(n, p) ==
    /\ Up(n) /\ n # p /\ p \notin conn[n] /\ upsets < MaxUpsets
    /\ pm' = [pm EXCEPT ![n] = InsertPeerInfo(@, p)]
    /\ upsets' = upsets + 1
    /\ UNCHANGED <<status, boot, conn, failures, respawns, inbox, task, dht,
                   msgs, created>>

\* BootstrapOk publishes peer_manager.vessel_status, which nothing ever sets
\* to another value: once after a start, and again at a periodic bootstrap.
Bootstrap(n) ==
    /\ Up(n)
    /\ dht' = [dht EXCEPT ![n] = [vessel_status |-> "EmptyVessel", boot |-> boot[n]]]
    /\ \/ dht[n].boot # boot[n] /\ UNCHANGED upsets
       \/ /\ dht[n].boot = boot[n] /\ upsets < MaxUpsets
          /\ upsets' = upsets + 1
    /\ UNCHANGED <<status, boot, conn, failures, pm, respawns, inbox, task,
                   msgs, created>>

-----------------------------------------------------------------------------
(* Failure and recovery of a node.                                         *)

\* handle_internal_heartbeat_failure: disconnect everyone, then sleep in
\* the event loop.  Nothing is deleted.
InternalHeartbeatFailure(n) ==
    /\ Up(n) /\ failures < MaxFailures
    /\ status' = [status EXCEPT ![n] = "sleeping"]
    /\ Disconnect(n)
    /\ msgs' = msgs \ AnswersTo(n)
    /\ failures' = failures + 1
    /\ UNCHANGED <<boot, upsets, pm, respawns, inbox, task, dht, created>>

\* trigger_restart: the process exits; nothing is saved.
TriggerRestart(n) ==
    /\ status[n] = "sleeping"
    /\ status' = [status EXCEPT ![n] = "down"]
    /\ Forget(n)
    /\ UNCHANGED <<boot, conn, dht, msgs, created, failures, upsets>>

\* The process dies without warning.
Crash(n) ==
    /\ Up(n) /\ failures < MaxFailures
    /\ status' = [status EXCEPT ![n] = "down"]
    /\ Disconnect(n)
    /\ Forget(n)
    /\ msgs' = msgs \ AnswersTo(n)
    /\ failures' = failures + 1
    /\ UNCHANGED <<boot, upsets, dht, created>>

\* The container is started again: same peer id, new verifying key.
Restart(n) ==
    /\ status[n] = "down"
    /\ status' = [status EXCEPT ![n] = "up"]
    /\ boot' = [boot EXCEPT ![n] = @ + 1]
    /\ UNCHANGED <<conn, pm, respawns, inbox, task, dht, msgs, created,
                   failures, upsets>>

-----------------------------------------------------------------------------

\* A network that has come up: everyone connected and bootstrapped.
Init ==
    /\ status = [n \in Node |-> "up"]
    /\ boot = [n \in Node |-> 0]
    /\ conn = [n \in Node |-> Node \ {n}]
    /\ pm = [n \in Node |-> [NewPeerManager EXCEPT !.peer_info = Node \ {n}]]
    /\ respawns = [n \in Node |-> {}]
    /\ inbox = [n \in Node |-> <<>>]
    /\ task = [n \in Node |-> Idle]
    /\ dht = [n \in Node |-> [vessel_status |-> "EmptyVessel", boot |-> 0]]
    /\ msgs = {}
    /\ created = [a \in Agent |-> <<>>]
    /\ failures = 0
    /\ upsets = 0

Place(n) ==
    \E target \in Node, providers \in Providers : PlaceAgent(n, target, providers)

Listener(n) ==
    \/ \E r \in pm[n].reverie : StartRespawn(n, r)
    \/ CollectCfrags(n)
    \/ CollectFails(n)
    \/ Place(n)
    \/ PlaceFails(n)

Deliver(n, m) ==
    \/ SaveFragmentRequest(n, m)
    \/ ProvidingFragmentRequest(n, m)
    \/ SaveCiphertextRequest(n, m)
    \/ MarkRespawnCompleteRequest(n, m)
    \/ GetFragmentRequest(n, m)
    \/ GetFragmentRefused(n, m)
    \/ GetFragmentResponse(n, m)

Environment ==
    \/ \E n, target \in Node, a \in Agent, providers \in Providers :
          SpawnAgent(n, a, target, providers)
    \/ \E n \in Node : InternalHeartbeatFailure(n) \/ Crash(n) \/ Bootstrap(n)
    \/ \E n, p \in Node :
          ConnectionLost(n, p) \/ RoutingUpdated(n, p) \/ SecondConnection(n, p)

Next ==
    \/ Environment
    \/ \E n \in Node : Listener(n) \/ TriggerRestart(n) \/ Restart(n)
    \/ \E n \in Node, m \in msgs : Deliver(n, m) \/ ResponseChannelClosed(n, m)
    \/ \E m \in msgs : LoseMessage(m)
    \/ \E n, p \in Node :
          PeerHeartbeatFailure(n, p) \/ Heartbeat(n, p) \/ ConnectionEstablished(n, p)

Spec == Init /\ [][Next]_vars

TypeOK ==
    /\ status \in [Node -> Status]
    /\ boot \in [Node -> Nat]
    /\ conn \in [Node -> SUBSET Node]
    /\ pm \in [Node -> PeerManagers]
    /\ respawns \in [Node -> SUBSET RespawnId]
    /\ inbox \in [Node -> Seq(AgentVesselInfo)]
    /\ task \in [Node -> Task]
    /\ dht \in [Node -> VesselStatus]
    /\ msgs \in SUBSET Message
    /\ created \in [Agent -> Seq(Reverie)]
    /\ failures \in Nat
    /\ upsets \in Nat

-----------------------------------------------------------------------------
(* Fairness: the event loop and the listener of a running node keep being  *)
(* polled, a message whose connection stands is delivered, a silent peer's *)
(* tick comes (every second), and two running nodes find each other again. *)

Fairness ==
    /\ \A n \in Node :
          /\ WF_vars(Listener(n))
          /\ WF_vars(\E m \in msgs : Deliver(n, m))
          /\ WF_vars(TriggerRestart(n))
          /\ WF_vars(\E p \in Node : PeerHeartbeatFailure(n, p))
          /\ WF_vars(\E p \in Node : ConnectionEstablished(n, p))
    /\ WF_vars(\E m \in msgs : LoseMessage(m))

-----------------------------------------------------------------------------
(* Properties.                                                             *)

Created(a) == {created[a][i] : i \in DOMAIN created[a]}
Reveries == UNION {Created(a) : a \in Agent}

\* The maps of every node's PeerManager agree with each other, through every
\* order in which handlers touch them (peer_manager/mod.rs).
PeerManagersConsistent ==
    \A n \in Node : ProviderMapsAgree(pm[n]) /\ VesselRecordsFiled(pm[n])

\* A vessel record is kept only by the nodes the reverie was addressed to, its
\* next vessel and its kfrag providers, and it is the record of that reverie
\* (reincarnation.rs: "Only the next_vessel and kfrag_providers store previous
\* vessel's agent_vessel info").
VesselRecordsOnlyAtGuardians ==
    \A n \in Node : \A av \in pm[n].agent_vessel :
        \E r \in Reveries :
            /\ av = VesselInfo(r)
            /\ n = r.target \/ \E i \in 1..TotalFrags : n = r.providers[i]

\* Where the right to respawn reverie r can be: on its way to the next
\* vessel, recorded there, or dispatched to the listener there.
CiphertextsInFlight(r) == {m \in msgs : m.type = "SaveCiphertext" /\ m.reverie = r}
RecordedAtTarget(r) == {av \in pm[r.target].agent_vessel : av = VesselInfo(r)}
Dispatched(r) == {i \in DOMAIN inbox[r.target] : inbox[r.target][i] = VesselInfo(r)}
Succeeded(r) == {s \in Created(r.agent) : s.nonce = r.nonce + 1}

\* A reverie is respawned at most once: the right to do so is in at most one
\* place, and gone once the successor exists.  Heartbeat timeouts, false
\* suspicions, restarts and late messages never make a second one.
OneRespawnPerReverie ==
    \A r \in Reveries :
        Cardinality(CiphertextsInFlight(r)) + Cardinality(RecordedAtTarget(r))
        + Cardinality(Dispatched(r)) + Cardinality(Succeeded(r)) <= 1

\* A node that watches a vessel as its agent's next vessel, or has dispatched
\* the respawn, holds the ciphertext: the lookup that starts a respawn never
\* comes back with "Reverie not found" (handle_respawn_request, get_reverie).
RespawnsHaveCiphertext ==
    \A n \in Node :
        \A av \in {x \in pm[n].agent_vessel : x.next_vessel = n}
                  \cup {inbox[n][i] : i \in DOMAIN inbox[n]} :
            \E r \in pm[n].reverie : r.id = av.reverie_id

\* A fragment answer goes to the next vessel of its reverie, in the boot whose
\* key the reverie names, and to nobody else, and it comes from a provider of
\* it (handle_request_response, verify_access).
FragmentsOnlyToNextVessel ==
    \A m \in msgs : m.type = "GetFragmentResponse" /\ m.ok =>
        \E r \in Reveries :
            /\ r.id = m.id /\ m.to = r.target
            /\ r.verifying_key = <<m.to, boot[m.to]>>
            /\ \E i \in 1..TotalFrags : m.from = r.providers[i]

\* A listener about to place an agent has fragments of the previous reverie
\* from at least Threshold of its providers, and is its next vessel
\* (parse_cfrags, reconstruct_agent_secrets_cfrags).
SecretsNeedThreshold ==
    \A n \in Node : task[n].pc = "place" =>
        \E r \in Reveries :
            /\ Head(inbox[n]) = VesselInfo(r) /\ r.target = n
            /\ Cardinality({i \in 1..TotalFrags : r.providers[i] \in task[n].ok})
                  >= Threshold

\* Refinement: the reveries made for an agent are a line of incarnations.
IncarnationOf(r) == [nonce |-> r.nonce, vessel |-> r.source, next |-> r.target]
Incarnations ==
    [a \in Agent |-> [k \in DOMAIN created[a] |-> IncarnationOf(created[a][k])]]
Lineage == INSTANCE AgentLineage WITH line <- Incarnations

\* Every reverie made for an agent continues its line: see AgentLineage.
ImplementsLineage == Lineage!Spec

\* As long as nothing has failed and no vessel hosts two agents, a next vessel
\* that has stored a ciphertext tracks the vessel it came from
\* (node_client/mod.rs: "Still need to send to the target vessel so that it
\* can track prev_vessel node for failure/respawning").
TargetTracksVessel ==
    failures = 0 /\ upsets = 0
    /\ (\A r, s \in Reveries : r.source = s.source => r = s)
    => \A n \in Node : \A r \in pm[n].reverie : VesselInfo(r) \in pm[n].agent_vessel

\* What a node knows of a vessel goes only with the peer's entry, on a
\* heartbeat timeout or a completed respawn, or to a newer record of that
\* vessel (swarm_handlers.rs: "Remove from peer manager after heartbeat
\* timeout, not when connection closes").
VesselRecordsKept ==
    [][\A n \in Node : \A av \in pm[n].agent_vessel \ pm'[n].agent_vessel :
          \/ status'[n] # "up"
          \/ av.current_vessel \notin pm'[n].peer_info
          \/ \E new \in pm'[n].agent_vessel : new.current_vessel = av.current_vessel]_vars

\* A respawn is given up for lack of fragments only when fewer than Threshold
\* arrived (node_client/mod.rs: the next vessel opens the capsule "by using at
\* least threshold cfrags").
ThresholdSuffices ==
    [][\A n \in Node :
          task[n].pc = "collect" /\ task'[n].pc = "idle" /\ status'[n] = "up"
          => Cardinality(task[n].ok) < Threshold]_vars

\* A fragment holder that refuses a request of a connected peer because of its
\* signature goes on running (network_event.rs: "otherwise, the request is
\* rejected").
RefusalIsHarmless ==
    [][\A n \in Node, m \in msgs :
          /\ Inbound(n, m, "GetFragment") /\ ChannelOpen(m) /\ m.from \in conn[n]
          /\ \E c \in pm[n].cfrags : c.id = m.id
          /\ ~HasAccess(n, m) /\ m \notin msgs'
          => status'[n] = "up"]_vars

\* An agent whose vessel has failed comes back (README: the network
\* transplants agents "whenever their vessel/server crashes").
AgentsComeBack ==
    \A a \in Agent : \A k \in 1..(MaxCreated - 1) :
        (Len(created[a]) = k /\ ~Up(created[a][k].source)) ~> (Len(created[a]) > k)

\* A node that marked an agent as respawning is told when the respawn is over
\* (MarkPendingRespawnComplete).
RespawnMarkersCleared ==
    \A n \in Node : (respawns[n] # {}) ~> (respawns[n] = {})
=============================================================================
