# A TLA+ model of the reveries network

The reveries network keeps autonomous agents alive on a peer-to-peer network of
TEE nodes. An agent runs in a *vessel*. Its secrets are encrypted for a *next
vessel* with threshold proxy re-encryption: the ciphertext goes to the next
vessel, re-encryption key fragments go to other nodes. When the vessel stops
sending heartbeats, the next vessel collects the fragments, decrypts the
secrets, becomes the vessel and hands the agent on to yet another next vessel.

The same machinery stores *memories*: secrets, such as API keys, that a user
leaves on the network and that others may use for a payment or with a
signature. An API key is delegated to the *LLM proxy* of a vessel, which puts
it into the agent's requests and reports the tokens it costs.

This directory holds TLA+ specifications of these protocols, TLC configurations
that check them on small instances, and TLAPS proofs for every instance.

Paths below are relative to `src/`; `P/` stands for `node/p2p-network/src/`.

## 1. Inventory

| Component | State it keeps | Operations | Hard about it |
|---|---|---|---|
| Peer manager, `P/network_events/peer_manager/` | `peer_info` (last heartbeat, agent hosted by each peer), `vessel_agent`, two provider maps, stored capsule fragments, ciphertexts and metadata | insert/remove of peers, vessel records, providers, fragments | the two provider maps must agree; a whole `PeerInfo` is replaced by an insert |
| Network event loop, `P/network_events/` | the swarm, `pending` requests, `pending.respawns` | request-response handlers, 1 s tick over silent peers, connection, Kademlia and heartbeat events, commands | an `Err` from a handler ends the loop; handlers of different peers interleave |
| Node client and its listener, `P/node_client/` | the RespawnRequest being handled | `spawn_agent`, `handle_respawn_request` (get reverie, collect fragments, decrypt, re-create, broadcast, mark complete) | many awaits between check and use; a failed respawn is not retried |
| Heartbeat behaviour, `P/behaviour/heartbeat_behaviour/` | one failure count, handler states per connection | send and receive heartbeats, trigger shutdown | shared failure count, dial failures never cleared |
| Container manager, `P/node_client/container_manager.rs` | restart channel | `trigger_restart` | restart races respawn: same timer |
| Kademlia records and queries, `P/network_events/kademlia_handlers.rs` | status record per node, holder of a reverie, name of an agent, pending query senders | put, get, bootstrap | a query that finds nothing answers nobody; a second lookup of a key takes the first one's sender; keys are told apart by prefix |
| Memory reveries, `P/node_client/memories.rs` | what each call has collected so far | `spawn_memory_reverie`, `delegate_api_key`, `execute_with_memory_reverie` | registration on the chain and broadcast are separate; every await may outlive a loop; deposits change between checks |
| LLM proxy, `llm-proxy/src/` | delegated keys, its signing key and CA, copied response bodies, one task per response | start and registration, key API, `handle_request`, `handle_response`, usage parsing, report | bounded channel drops chunks, streams report several times, restarts change keys |
| Usage reports, `P/usage_db.rs`, `P/node_client/usage_verification.rs`, `llm_proxy_client.rs` | proxy's key and CA, one TLS client, usage table | register, delegate, remove, verify, store | two locks, a client built once, no retry |
| Chain client, `node/runtime/src/near_runtime.rs` | none; the contract keeps reveries and deposits | `create_reverie`, `can_spend`, deposit, withdraw | shared nonce; a transaction may succeed unseen |
| Runtime, the rest of `node/runtime/src/` | none | re-encryption, attestation, EVM client | external |
| RPC, `node/rpc/src/` | none; each call is a task on a clone of the node client | forwarding | calls run concurrently |
| Command line, monitor, telemetry | none | display | |

What makes it correct:

- an agent has one line of incarnations: each is made by the next vessel of
  the one before, once, with the next nonce;
- fragments go to the next vessel only, and it needs `threshold` of them;
- the maps of the peer manager agree, and vessel records are where they are
  needed and nowhere else;
- an agent whose vessel fails comes back, and everyone who marked it as
  respawning learns that it has;
- a paid memory is on the chain before any of it is shared; a memory is opened
  only on its target, and with a payment on the nodes' contract only when a
  deposit covered the key;
- usage is charged to the reverie and spender whose key was used, at most once
  and, if the copy of the response has no gap, never above the provider's bill,
  and no report disappears without cause;
- calls come to an end.

Components interact by messages (libp2p request-response: `SaveFragment`,
`SaveCiphertext`, `ProvidingFragment`, `GetFragment`, `MarkRespawnComplete`),
by records on the DHT (a node's `VesselStatus` and keys), by a command channel
(client to event loop) and an event channel (event loop to listener).

## 2. Modules

| Module | Models |
|---|---|
| `PeerManager` | the `PeerManager` struct; every method is an operator from value to value |
| `Reincarnation` | event loops and listeners of all nodes, the messages between them, the DHT statuses, failures |
| `AgentLineage` | abstract specification: one line of incarnations per agent |
| `Heartbeat` | the heartbeat handlers of one node, the behaviour over them, its failure count, shutdown and reboot |
| `MCReincarnation` | instances for TLC: symmetry, and a specification of orderly failures |
| `LlmProxy` | the LLM proxy, its registration with the node, the node's verification and database |
| `MCLlmProxy` | an instance: keys, requests and provider replies |
| `MemoryReverie` | calls on memories, the loops and providers they use, DHT lookups, the NEAR contract |
| `MCMemoryReverie` | an instance: twelve calls on five nodes |
| `PeerManagerProofs` | the peer manager's operators keep its maps consistent |
| `ReincarnationProofs` | type correctness and consistency of all peer managers |
| `LineageProofs` | `Reincarnation` implements `AgentLineage`; at most one respawn per reverie |
| `FragmentProofs` | vessel records, ciphertexts and fragments are where they belong; secrets need the threshold |
| `HeartbeatProofs` | requests for payloads, the age of attestations, the cause of a shutdown |
| `LlmProxyProofs` | usage is booked to the right reverie and spender, without a gap never above the bill, and can be verified until a restart |
| `MemoryProofs` | types; holders of a memory are distinct; paid memories are registered before they are shared; payments on the nodes' contract are covered; no lookup and no provider is forgotten |

### PeerManager

Every `HashMap` is a set. `peer_info` is the set of its keys; the
`agent_vessel` field of an entry is an element of `agent_vessel` with that
entry's peer as `current_vessel`, which is how the code files it.
`kfrag_providers` and `peers_to_reverie_frags` are relations. Stored values
carry the id they are filed under. A reverie id, a random string in the code,
is the agent and a count. A verifying key is its owner and the owner's boot
number, because `UmbralKey::new` draws a random signer at each start.

### Reincarnation

An action is one turn of a node's event loop or one stretch of its listener
between two awaits at which something else can happen. The correspondence is
in `PROJECT.json` ("map"); in short:

- `SaveFragmentRequest`, `ProvidingFragmentRequest`, `SaveCiphertextRequest`,
  `MarkRespawnCompleteRequest`, `GetFragmentRequest`, `GetFragmentRefused`,
  `GetFragmentResponse`: the arms of `handle_request_response`;
- `ResponseChannelClosed`: `send_response(...)` of any of them failing because
  the requester or the connection to it is gone, which ends the event loop. The
  loss of a connection and the delivery of a request that came over it are not
  ordered, so the same request may also be handled normally. A request does not
  know its connection: one whose connection was lost and made again is taken to
  be answerable;
- `StartRespawn`, `CollectCfrags`, `CollectFails`,
  `PlaceAgent`, `PlaceFails`: the stages of `handle_respawn_request` and its
  error returns ("Reverie not found" is shown to be impossible by
  `RespawnsHaveCiphertext`). The listener handles one request at a time; the others wait
  in `inbox`;
- `PeerHeartbeatFailure`: one peer found offline by a tick: a disconnected one at
  any time, a connected one that is slow as one of the `MaxUpsets` upsets;
- `Heartbeat`, `ConnectionEstablished`, `SecondConnection`, `ConnectionLost`,
  `RoutingUpdated`, `Bootstrap`: swarm and Kademlia events;
- `InternalHeartbeatFailure`, `TriggerRestart`, `Crash`, `Restart`: a node
  that loses its own heartbeat disconnects, sleeps and restarts; a node may
  also die at once. Everything but its peer id is lost.
- `Wedge`: what a panic in the event loop leaves behind. The task is gone, the
  process and its container go on, so nothing restarts the node.

Left out, and why: time (whether a silent peer is overdue is a free choice, so
every timing is covered, including false suspicion of a disconnected or a slow
peer); in `ProspectVessels`, the wait for a status record that is not found and
the loss of a sender to another lookup, which leave the call hanging or with
fewer vessels (`MemoryReverie` has both; here a status is there or is not);
message contents beyond what properties tell apart; docker commands run after
a respawn; the cryptography, which is perfect; loss of a message while its
connection stands (libp2p's streams are reliable).

### AgentLineage

`line[a]` is a sequence of incarnations `[nonce, vessel, next]`. `Spawn` makes
the first, `Reincarnate` appends one whose vessel is the previous `next` and
whose nonce is one more. The refinement mapping reads the line off the history
`created` of reveries.

### Heartbeat

One node and its connections. A `HeartbeatHandler` is `outbound[c]` (its
`OutboundState`, with `closed` for no connection), `dialFailed[c]`
(`dial_failures`), its events to the behaviour (`events[c]`) and the payload on
its way back (`payload[c]`). The behaviour is `pending` (`pending_events`),
`failCount` and the age of `current_heartbeat_payload`: `outdated` is the set
of handlers whose idle time ended after its attestation was made. An action is
one arm of a handler's `poll` or `on_connection_event`, one event taken by
`on_connection_handler_event`, or one action popped by the behaviour's `poll`.
The order of the two last is libp2p's: the swarm takes a handler's event only
after the behaviour returned `Pending` (`AtHandlerEvents`; `yielded` records
that the shutdown check returns `Pending` with actions left). `Reincarnation`
uses the same component from outside: its `Heartbeat` is a payload that comes
out here, its `InternalHeartbeatFailure` the shutdown.

Left out: timers' lengths (a timer may fire whenever it is set), the inbound
stream's own state (the peer opens, fills and breaks it), the stream of
heartbeats for subscribers of the node client (a full channel drops an item and
nothing waits for it), block heights.

### LlmProxy

The number of a start of the proxy (`boot`) names the signing key and the CA
made at it. `proxyKey`, `proxyCa` and `httpClient` say which of them the node
knows: key and CA are stored under two locks (`RegisterLlmProxyPubkey`,
`StoreCaCert`), the TLS client is a `OnceCell` that keeps the first CA, and the
proxy keeps a server certificate it finds on disk (`ServerCertAfter`). A
registration is posted once; a restarted node forgets key and CA.

A request takes its key in `HandleRequest` (any of the delegated Anthropic
keys), which fixes the context its usage is booked under. `PollFrame` passes a
piece of the response on and offers what the copy gets of it to the bounded
channel, `TrySend` by `TrySend`; `LogSseUpdate`, `LogChunk` and `LoggerEnds` are
the task that reads the copy; `ReportUsage` is the node. A reply says what the
provider bills, how it is encoded, which field names it uses and its pieces. The
pieces of a body are chunks of its bytes, cut anywhere, and `log_buffer` holds
those that were not dropped, end to end (`Readings`): the whole text is read as
it is; a part of a compressed one is not read at all; a prefix is read as nothing,
or as the whole if only blanks are missing; and a text with a gap may not parse,
or parse with numbers joined from the digits of several, which the constant
`Misreadings` lists and the code cannot tell from true ones.

The history `lost` records the first thing that cost a request a report, one of
eight: a piece of the copy was dropped, the response was cut, the proxy died, the
TEE quote could not be made (`QuoteFails`: the task panics), the post failed, the
node had another key or none, it refused the quote, or it could not store the row
(which `report_usage` only logs, answering `Ok`).
Requests share only the key store and the database, whose rows are keyed by
request, so the instance has one request.

The code's limits are in the model, not hidden by it: rows of streamed
responses name no spender (`llm-proxy/src/usage.rs:311` overwrites the usage
that had been given one); a linked tool call is the first tool result of the
conversation; usage in brotli bodies, compressed streams, OpenAI bodies and
DeepSeek streams is not found. `Billable` states what the proxy can read.

Left out: interception of TLS, headers, the split of an event over chunks
(`SSEParser` buffers up to a separator), signatures of internal API calls
(perfect), logging.

### MemoryReverie

A call of the RPC server is a task with a stage `st[t]`; it talks to its node's
event loop by commands and waits on channels whose senders are in `pending`.
`LookUp` inserts a sender and thereby displaces the one under the same key,
whose waiter fails. Keys of records are sequences of words; `Classify` is
`KademliaKey::from`. `LoopDies` is the `expect("swarm handler error")`: what the
loop had pending, its queries and its command channel are gone. A provider's
loop dies of a `GetFragment` it must refuse or cannot check with the chain.

`StartSpawn`, `StatusesDone`, `FetchNonce`, `SendTransaction`,
`BroadcastReverieKeyfrags` and `HandleBroadcast` are `spawn_memory_reverie`;
a reverie is registered on the contract of the node's environment (`EnvContract`);
the transaction may succeed, fail, be refused for its nonce (all nodes sign
with one account) or succeed unseen. `got` holds the statuses that
`get_prospect_vessels` keeps, those of empty vessels; filtering them as they
come or once they are complete is the same. The providers are counted only after the
registration, so a reverie may be on the chain and nowhere else. `StartAccess`,
`RequestCfrags` and `FinishAccess` are the two uses of a memory. `Deposit` and
`Withdraw` are those of the accounts that keys name. A NEAR key names a contract,
an account and an amount, all of the requester's choice: the provider asks that
contract `can_spend` and compares none of the three with the access condition the
fragment was stored with (`Grants`). `EnvContract` answers by what is registered
and deposited on it; another contract may answer anything. Both are external and
modelled from how the client uses them. Histories:
`funded` (the deposit covered the key at some moment since the fragments were
asked for) and `missed` (a query of the call found nothing).

Left out: the copy of the reverie that goes to the target vessel and the
`ProvidingFragment` broadcast, which no operation on a memory reads
(`Reincarnation` models them); `record_spend`, which no node calls; records that
are malformed, unsigned or without a publisher, which no node of this code
publishes (a handler's error on one is a `LoopCrashes`); the LLM call of an
execution.

## 3. Runs

| Run | Instance | Result |
|---|---|---|
| `safety` | 3 nodes, 1 agent, 1 fragment, 2 incarnations, 1 failure, 1 upset, symmetric in nodes; 127 k states | passes |
| `fragments` | 4 nodes, 2 fragments of which 2 needed, 1 failure; 68 k states | passes |
| `orderly` | 4 nodes, 1 fragment, 2 incarnations, 1 orderly failure, fair; 14 k states | passes |
| `threshold` | 4 nodes, 2 fragments of which 1 needed | violated: finding 1 |
| `refusal` | as `safety`, 1 incarnation | violated: finding 2 |
| `reconnect` | no failure, 1 upset | violated: finding 3 |
| `two_agents` | 2 agents, no failure, no upset | violated: finding 4 |
| `cycles` | `Heartbeat`: 2 connections, `max_failures` 1, 2 upsets, fair; 107 k states | passes |
| `tolerance` | as `cycles`, 1 upset | violated: finding 5 |
| `proxy` | `LlmProxy`: 1 request, 2 reveries, 4 keys, 7 replies, `ChannelCap` 2, 1 restart, 2 key calls, fair; 967 k states | passes |
| `memories` | `MemoryReverie`: 5 nodes, any 2 of 12 calls, 2 accounts, deposit 1, one loop may crash, fair; 472 k states | passes |
| `names` | as `memories`, the 2 calls on names | violated: finding 6 |

`safety` checks `TypeOK`, `PeerManagersConsistent`,
`VesselRecordsOnlyAtGuardians` (records only at the next vessel and the
providers, and true to the reverie), `OneRespawnPerReverie` (the right to
respawn is in one place at most), `RespawnsHaveCiphertext` (who may respawn
holds the ciphertext), `FragmentsOnlyToNextVessel` (an answered
request came from the next vessel in the boot whose key the reverie names) and
`ImplementsLineage`. `fragments` checks `SecretsNeedThreshold`. `orderly`
checks `AgentsComeBack` and `RespawnMarkersCleared`.

`cycles` checks `TypeOK` (the saturating count), `OneRequestPerCycle` (a
handler waits for a payload exactly when one request of it is under way),
`HeartbeatsFreshlyAttested` (a payload is attested after the idle time it
ends), `ShutdownHasCause`, `HeartbeatsKeepComing` and `CutOffNodeShutsDown`.

`proxy` checks `TypeOK`, `UsageBookedToInjectedKey` (a row names the reverie and
spender of the key the request took, whatever happens to that key meanwhile),
`NoReverieOvercharged` (the tokens booked to a reverie from streams and from
bodies copied without a gap are at most those providers billed for its key; both
are counted token by token), `DelegatedUsageVerifies` (until the proxy or the node
restarts, no report about a delegated key is refused for its signature, however
the two steps of the registration cross with delegations and requests) and
`UsageStoredOrAccountedFor` (a readable response that ended is stored, or one of
the eight causes is on record). Two limits of the code are why the second and the
third are not stronger. Over bodies with a gap `NoReverieOvercharged` is false:
TLC finds a row above the bill at once. After a restart `DelegatedUsageVerifies`
is false: the registrations of two starts can overlap, or the second be lost
while the old server certificate is kept, and then the node delegates with the CA
of one start and verifies with the key of another; those reports are among the
eight causes.

`memories` checks `TypeOK`, `VesselsDistinct` (a spawn gets no vessel twice,
although calls share queries and senders), `RegisteredBeforeShared`,
`SecretsNeedDeposit` (a memory is opened on its target only, and with a key for
`EnvContract` only if the account in the key had deposited the amount in it, for
that reverie, since the fragments were asked for; of a key for another contract
nothing is claimed, since the provider takes that contract's word),
`LookupsAnswered` (unless one of its queries found nothing, a lookup ends),
`AccessesEnd` (a call that asked for fragments ends, although a provider's loop
may die of that very request), and the invariants these two rest on,
`LookupsUnderWay` and `ProvidersAccountedFor`.

**Bounds.** Three nodes are a vessel, a next vessel and a provider; after one
failure and restart the third can be the next target, so a full second
hand-over happens. Four nodes allow two providers, or a spare node while one
is gone. `MaxCreated` = 2 covers the first placement and a respawn; the proofs
cover longer lines. One failure and one upset already reach every action,
every panic and every stale message. Combinations of several failures are
covered by the proofs, for the properties proved.

In `cycles` two connections are enough for one handler to disturb another; two
upsets let one link fail twice, both fail, or a simulated failure meet a real
one. `Forced` and `CountMax` stand for 10 000 and 2^32 - 1: all that matters is
that they are above `max_failures`. The buffers are of size 1, which makes
every wait for room happen.

In `proxy`, `ChannelCap` = 2 is below the number of pieces of a reply, so chunks
are dropped at every position; the code's 100 only makes that rarer. One
restart, of either side, lets a registration, a delegation, a copy and a report
meet a changed key; two key calls let a key be overwritten or removed under a
request. The replies cover a regular stream, two messages in one stream,
another provider's events, compressed streams and bodies of every encoding, and
counts of zero. `Misreadings` has a count below and one above the bill.

In `memories` two calls are enough for what properties relate: a spawn and an
access of its reverie, two spawns that race for a nonce or for statuses, two
accesses that displace each other. The calls include a spawn that pays and then
finds too few providers, a threshold that is refused, an access away from the
target, a key of the wrong kind and one for another contract. Two accounts let a
deposit of one meet the key of the other. A deposit of 1 is the price. The safety
properties are proved for any number of calls.

**Fairness** (`Fairness` of `Reincarnation`). Weak fairness of each node's listener, of the
delivery of messages to it, of ticks over its silent peers, of the reboot
timer, of reconnection of two running nodes and of noticing a lost message:
tokio keeps polling a task that is ready, ticks come every second, timers
fire, Kademlia re-dials and libp2p reports an outbound failure. No fairness is
assumed of restarts of a crashed process, of spawning, failures or upsets.

`Fairness` of `Heartbeat`: handler tasks and the event loop are polled and
timers fire (weak). Two steps wait for their turn and need strong fairness: the
swarm takes the events of ready connections in turn, so each gets its turn; and
a peer sends one payload per idle time, so an inbound stream leaves its handler
room to report. No fairness of links or of reconnection.

`Fairness` of `LlmProxy`: the task of a response is polled while it has
something to read, and a post ends within its timeout. Nothing makes a provider
finish its response, a client make a request or a process restart.

`Fairness` of `MemoryReverie`: a Kademlia query ends (it has a timeout), a
request is answered or times out, a task whose answer has come is polled. There
are finitely many calls, each waits and asks once, so one condition per kind of
step suffices and `[]<>` of "nobody waits" says that every wait ends. Nothing is
assumed of transactions, publications of statuses or loops that die.

**Orderly failures.** The code gives no liveness under arbitrary failures: a
respawn that fails is not retried, a record can be overwritten, a vessel that
is back before its timeout is not respawned. `OrderlySpec` therefore restricts
when a node fails (no hand-over under way) and when it is back (the next
vessel has noticed). This is the scenario of the repository's respawn test.

**Deadlock** is not checked in the runs of `Reincarnation`, `LlmProxy` and
`MemoryReverie`: a network in which event loops have panicked, or in which all
requests, calls and bounds are used up, has nothing left to do. That nobody is
left waiting is what the liveness properties say.

### Findings

1. `threshold`: `parse_cfrags` (`P/node_client/mod.rs:441`) gives up at the
   first failed answer, though `threshold` good ones arrived. The comment of
   `decrypt_cfrags` promises opening "using at least threshold cfrags".
2. `refusal`: a `GetFragmentRequest` refused for its signature ends the
   provider's event loop
   (`P/network_events/request_response_handlers.rs:91`, and the `expect` at
   `P/network_events/mod.rs:200`), though the request type's doc says it "is
   rejected". An honest next vessel causes this after a restart, because its key
   is new. A request for a fragment the node does not hold (`:57`) ends the same.
3. `reconnect`: `ConnectionEstablished` (`P/network_events/swarm_handlers.rs:67`)
   re-creates the peer's `PeerInfo` and erases the vessel record in it; the
   comment at line 85 says peers are only removed "after heartbeat timeout".
4. `two_agents`: `ProvidingFragmentRequest`
   (`request_response_handlers.rs:219`) does the same for the provider, which
   may be the vessel of another agent; that agent is then not watched.
5. `tolerance`: a `DialUpgradeError` sets `dial_failures`, which nothing
   clears (`P/behaviour/heartbeat_behaviour/heartbeat_handler.rs:127`, `:264`),
   so one stream that cannot be opened is reported at every poll and reboots
   the node whatever `max_failures` is, even with other connections healthy.
   `config.rs` says `max_failures` are allowed and that then the connection is
   closed. `HeartbeatsKeepComing` therefore excludes such handlers.
6. `names`: `KademliaKey::from` (`P/types/kademlia_keys.rs:39`) tests the prefix
   `reverie_` before `reverie_id_to_name_`, so the record of a name is taken for
   a reverie and its waiter is never answered. `P/node_client/commands.rs:33`
   says of the command "Gets the ReverieId for an agent from Kademlia".

## 4. Proofs

A theorem holds for every value of the constants that satisfies the named
assumptions. The theorems about agents hold for any sets of nodes and agents, any `TotalFrags` > 0 and
`Threshold` in `1..TotalFrags` (`TotalFragsAssumption`, `ThresholdAssumption`;
`spawn_agent` refuses other thresholds), and any bounds.

- `PeerManagerProofs`: each operator maps a well-formed value (typed,
  `ProviderMapsAgree`, `VesselRecordsFiled`) to a well-formed value.
- `ReincarnationProofs!TypeCorrect`, `PeerManagersStayConsistent`. The
  inductive invariant `Inv` adds to the two properties that a busy listener has
  a request at the head of its inbox (`BusyListenerHasRequest`), without which
  the types of `Head` and `Tail` are unknown.
- `LineageProofs!LineageRefined`, `AtMostOneRespawn`. The right to respawn a
  reverie is a *token* with three forms: the `SaveCiphertext` message, the
  vessel record at the next vessel, the request in the listener's inbox. The
  inductive invariant `Line` says that the reveries of an agent are numbered by
  their nonce (`Numbered`), that ciphertexts go to the next vessel and
  fragments elsewhere (`Addressed`), that every token is for the latest reverie
  of its agent, and that an agent has one token at most (`Tokens`). Most steps
  make no token (`QuietStep`); three move it (`CiphertextBecomesRecord`,
  `RecordBecomesRequest`, `RequestBecomesCiphertext`); `SpawnAgent` makes the
  first. Without `Addressed` a provider that is also the next vessel could turn
  a fragment into a second token. The refinement then follows because a
  placement works on a token, hence on the latest reverie.

- `FragmentProofs`, which builds on `Line`. `RecordsAtGuardians` and
  `CiphertextAtHand` need the invariant `Known`: ids name one reverie each
  (`Named`), and every message, stored value and request is about a reverie that
  was made and was addressed to the node that has it (`MsgKnown`, `PmKnown`,
  `RequestsKnown`). `PmKnown` also says that no node has itself among its peers,
  so that no handler files a record about its own node.
  `FragmentsReachOnlyNextVessel` and `DecryptionNeedsThreshold` need `Asking`:
  what is outstanding for a listener, a request or its answer, is for the reverie
  it is collecting and from a provider that has not answered yet (`Awaits`), there
  is one per provider (`AskedOnce`), and what it has taken came from providers of
  that reverie (`Taken`). The point is that `task[n].ok` does not say which
  reverie an answer was for: a late answer for one reverie would be counted for
  the next, unless nothing is outstanding when a listener ends its collection.
  That follows by counting: as many providers have answered as were asked, and
  each was asked once (`NothingOutstanding`). A restarted vessel gets nothing
  with its old key, because a request carries the boot it was sent in
  (`SentBefore`, `KeysCurrent`).

- `HeartbeatProofs`: for any connections, `MaxFailures` < `Forced` <= `CountMax`,
  buffers of at least one and any upsets (`CountsAssumption`,
  `BuffersAssumption`, `UpsetsAssumption`). `TypeCorrect` bounds the count and the
  signals. `RequestsNeitherLostNorRepeated` is inductive with the types; the work
  is that each of append, take and filter changes the number of requests in a
  queue by the number it should. `PayloadsFreshlyAttested` needs `RefreshAhead`:
  a handler for which the attestation is too old has a refresh in its own queue
  and no request before it; so the refresh is done before the request is read.
  `ShutdownsHaveCause` needs `FailuresCounted`: as long as nothing else is the
  cause, the count and the reports still under way together are at most the
  failures that happened.

- `LlmProxyProofs`: for any requests (finitely many), keys, reveries, replies and
  bounds. Besides bounds and `None` being no value of its option types
  (`CapAssumption`, `BoundsAssumption`, `OptionAssumption`, `ContextAssumption`,
  `LossAssumption`), the assumptions are that a refusal bills nothing and has no
  usage in it (`RefusalAssumption`) and that a provider bills at least the counts
  its stream tells (`BillsAssumption`); without the latter nothing on this side
  could bound the booking. Of `Misreadings` nothing is assumed.
  `UsageBookedToOwner` follows the context of a request from the injected key to
  the report and the row (`Booked`). `UsageVerifiesUntilRestart` needs the chain of
  events before a restart (`KeyComesFirst`): a request used a delegated key only
  if one was served, that only if the CA was stored, and that only after the key;
  it builds on `Booked` for who reports. `ReveriesNotOvercharged` follows the
  counts (`Charged`): every piece in the channel and the usage collected so far are
  within the bill of the reply, hence every report of a stream is; the report of a
  body copied without a gap is the bill itself, and what a body's task has read no
  longer changes once it has reported; and a request has one row (`RowsUnique`). The sum over rows is then bounded by an
  injection: token *i* booked for a request is token *i* billed for it. This is
  why `TotalTokens` is the number of pairs of a request and a token: a sum over a
  set would need induction.

- `MemoryProofs`: for any nodes, calls, connections, statuses and bounds
  (`CallAssumption`: a call is at a node, accesses a reverie some call spawns, a
  payment is by an account, and thresholds are positive; `ConnectedAssumption`: peers are nodes;
  `DepositAssumption`). For `PaidMemoriesRegistered` and `PaidMemoriesFunded` the
  inductive invariant `Inv` follows a reverie and an access through their stages.
  `SharedIsRegistered` extends the first property to what may still be shared:
  a call at the stage `registered` and a broadcast in the command channel.
  For the second, a fragment on its way or received for a key on `EnvContract` was
  given under a deposit (`FragmentsFunded`), which needs that nothing is asked for before the lookup
  has ended (`QuietBefore`); and the target of an accessed reverie no longer
  changes, because what is on the DHT comes from a spawn that has ended
  (`AccessedIsShared`, `BroadcastIsFinal`). That last fact needs to know which
  calls a displaced sender can fail (`Waiters`, `DisplacedWait`). Steps that only
  start calls or let them fail are treated once (`StartsAndFailures`).
  `TypeCorrect` and `HoldersDistinct` need `More` as well: a waiter for a status
  waits for a node that has not answered its call (`WaitersOpen`), which holds
  because an answer takes every sender under its key out of the map; and a spawn
  that broadcasts has a provider for each fragment (`ChosenEnough`), without which
  the addressees of fragments and requests need not be nodes.
  `NoLookupForgotten` and `NoProviderForgotten` are the parts of `LookupsAnswered`
  and `AccessesEnd` that do not depend on fairness: what a call waits for is
  under way. The first needs that a key a spawn or an access looks up is
  classified as what it is (`KeysClassified`), which does not hold for names
  (finding 6); the second that nothing has failed before a call asks
  (`UnfailedBefore`) and that the providers of an accessed reverie stay
  (`ProvidersStay`).

The inductive invariants were also checked with TLC on the instances of section
3, except for conjuncts that only say a value is some record or sequence. All
invariants and the refinement that the passing runs check are proved.

Only model-checked: the liveness properties `AgentsComeBack`,
`RespawnMarkersCleared`, `HeartbeatsKeepComing`, `CutOffNodeShutsDown`,
`UsageStoredOrAccountedFor`, `LookupsAnswered` and `AccessesEnd`, because fairness
and `ENABLED` are out of the prover's reach.

## 5. Plan

1. Proofs: more of what the liveness properties rest on. For
   `UsageStoredOrAccountedFor`: the report of a complete body is under way until
   it is stored or its loss is on record. For streams this needs to know where in
   a stream the counts are, so it cannot be stated for all replies. For
   `RespawnMarkersCleared`: who holds a marker and which message will clear it.
2. `Heartbeat` with time as ticks: the race of a vessel's reboot and its
   agent's respawn, which wait for the same `max_time_before_rotation`.
3. Pure algorithms against reference definitions: heartbeat averages, SSE
   parsing over chunk boundaries.

## 6. Not modelled

- The NEAR contract is not in the repository; `record_spend` and its
  administration are called by no node, nor is the EVM client.
- TEE quotes, Umbral, TLS and signatures are taken as perfect.
- RPC subscriptions, reads of state, the command line, telemetry, the monitor,
  example agents and deployment files keep no protocol state or are pure input
  and output.
- The bounded event channel between the event loop and the listener: more than a
  hundred vessels must fail between two steps of the listener to fill it, so
  `inbox` is unbounded.
- Heartbeat averages are only displayed.
