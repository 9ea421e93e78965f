--------------------------- MODULE MemoryReverie ---------------------------
(***************************************************************************)
(* Memories: secrets a user stores on the network for others to use.       *)
(*                                                                         *)
(* spawn_memory_reverie looks up the vessel statuses of the connected      *)
(* peers on the DHT, takes the first empty vessel as the target and the    *)
(* next ones as fragment providers, registers the reverie on the NEAR      *)
(* contract when its access condition asks for it, and sends the fragments *)
(* out.  delegate_api_key and execute_with_memory_reverie, called on the   *)
(* target, look the reverie up on the DHT and collect the providers'       *)
(* fragments, which each provider gives only to a valid access key.        *)
(*                                                                         *)
(* A call of the RPC server is a task of its own on the node; it speaks to *)
(* the node's network event loop through commands and waits for answers on *)
(* channels whose senders the loop keeps in its pending maps.  A reverie   *)
(* is named by the call that spawns it.                                    *)
(***************************************************************************)
EXTENDS Integers, Sequences, FiniteSets, SequencesExt

CONSTANTS Node,
          Task,        \* RPC calls
          Call,        \* [Task -> call]: see Spawns, Accesses and NameLookups
          Connected,   \* [Node -> SUBSET Node]: connections
          VesselStatus,\* [Node -> {"EmptyVessel", "NeverVessel", "ActiveVessel"}]
          Bootstrapped,\* the nodes that have published their status before
          Account,     \* NEAR accounts that may spend
          EnvContract, \* NEAR_CONTRACT_ACCOUNT_ID, where reveries are registered
          MaxCalls,    \* bound: how many of the calls are made
          MaxDeposit,  \* bound: an account's deposit for a reverie
          Crashing,    \* bound: the nodes whose loop may die of something else
          None         \* Option::None

\* A spawn is [op, at, threshold, total, condition], an access (delegate or
\* execute) [op, at, reverie, key]; the broadcast of an agent and the lookup of
\* its name are [op, at, name].  A key for a NEAR contract is [kind, contract,
\* spender, amount], all three of the requester's choice; another key is a
\* signature, [kind, valid].
Spawns      == {t \in Task : Call[t].op = "spawn"}
Accesses    == {t \in Task : Call[t].op \in {"delegate", "execute"}}
NameLookups == {t \in Task : Call[t].op = "name"}
AgentSpawns == {t \in Task : Call[t].op = "agent"}

At(t) == Call[t].at
OnNear(r) == Call[r].condition = "near"

ASSUME CallAssumption ==
    /\ Task = Spawns \cup Accesses \cup NameLookups \cup AgentSpawns
    /\ \A t \in Task : At(t) \in Node
    /\ \A t \in Accesses : /\ Call[t].reverie \in Spawns
                           /\ Call[t].key.kind = "near" => Call[t].key.spender \in Account
    /\ \A t \in Spawns : Call[t].threshold \in Nat \ {0} /\ Call[t].total \in Nat

ASSUME ConnectedAssumption == \A n \in Node : Connected[n] \subseteq Node

ASSUME DepositAssumption == MaxDeposit \in Nat

VARIABLES
    \* each node's event loop
    loop,       \* [Node -> {"running", "dead"}]
    pending,    \* waiters [at, kind, key, task]: PendingRequests
    queries,    \* Kademlia queries [at, key, task] that have not ended
    outbox,     \* [Spawns -> 0..total+1]: commands of a broadcast in the channel
    cfrags,     \* [Node -> SUBSET Spawns]: fragments a provider holds
    \* the network
    dht,        \* the keys of the records
    msgs,       \* [type, task, peer]: requests and responses on their way
    \* the calls
    st,         \* [Task -> Stage]
    got,        \* [Spawns -> Seq(Node)]: empty vessels, in the order they came
    chosen,     \* [Spawns -> [target, providers] \cup {None}]
    nonce,      \* [Spawns -> Nat]: the nonce read for the transaction
    answers,    \* [Accesses -> [ok, err]]: the providers that have answered
    \* EnvContract and the signer's account
    onChain,    \* SUBSET Spawns: registered reveries
    chainNonce, \* Nat: nonce of the signer's access key
    balance,    \* [Spawns \X Account -> Nat]: who has deposited how much for what
    \* history
    funded,     \* [Accesses -> BOOLEAN]: the deposit covered the key, once asked
    missed      \* SUBSET Task: calls one of whose queries found nothing

loopVars  == <<loop, pending, queries, outbox>>
netVars   == <<dht, msgs, cfrags>>
callVars  == <<got, chosen, nonce, answers>>
chainVars == <<onChain, chainNonce, balance>>
histVars  == <<funded, missed>>
vars == <<loopVars, netVars, st, callVars, chainVars, histVars>>

Stage == {"idle", "statuses", "unregistered", "signing", "registered",
          "lookup", "found", "requesting", "done", "failed"}

-----------------------------------------------------------------------------
(* Record keys (kademlia_keys.rs): words joined by an underscore.          *)

StatusKey(n)  == <<"vessel_peer_id", n>>
ReverieKey(r) == <<"reverie", r>>
NameKey(nm)   == <<"reverie", "id_to_name", nm>>

\* Mutant: the status prefix is compared with the bare peer id.
ClassifyBare(key) ==
    CASE IsPrefix(<<"reverie">>, key) -> "reverie"
      [] IsPrefix(<<"reverie", "id_to_name">>, key) -> "name"
      [] OTHER -> "unknown"

\* KademliaKey::from: the first prefix that fits.
Classify(key) ==
    IF IsPrefix(<<"vessel_peer_id">>, key) THEN "status"
    ELSE IF IsPrefix(<<"reverie">>, key) THEN "reverie"
    ELSE IF IsPrefix(<<"reverie", "id_to_name">>, key) THEN "name"
    ELSE "unknown"

-----------------------------------------------------------------------------
(* The event loop and its pending maps.                                    *)

\* HashMap::insert: the waiter it replaces loses its sender.
Displaced(n, kind, keys) ==
    {p \in pending : p.at = n /\ p.kind = kind /\ p.key \in keys}

\* One lookup of each key for call t of node n.
LookUp(t, kind, keys) ==
    LET n == At(t) IN
    /\ pending' = (pending \ Displaced(n, kind, keys))
                  \cup [at : {n}, kind : {kind}, key : keys, task : {t}]
    /\ queries' = queries \cup [at : {n}, key : keys, task : {t}]
    /\ UNCHANGED <<loop, outbox>>

\* A waiter on a oneshot channel fails when its sender is dropped; one that
\* waits for statuses has one sender less.
StWithout(ws, s) ==
    [x \in Task |-> IF \E p \in ws : p.task = x /\ p.kind # "status"
                    THEN "failed" ELSE s[x]]

\* Mutant: what is pending survives the loop.
LoopDiesAlone(n) ==
    /\ loop' = [loop EXCEPT ![n] = "dead"]
    /\ outbox' = [r \in Spawns |-> IF At(r) = n THEN 0 ELSE outbox[r]]
    /\ UNCHANGED <<pending, queries, st>>

\* A handler's error ends the loop: `expect("swarm handler error")`.  What it
\* had pending, running and in its command channel goes with it.
LoopDies(n) ==
    /\ loop' = [loop EXCEPT ![n] = "dead"]
    /\ pending' = {p \in pending : p.at # n}
    /\ queries' = {q \in queries : q.at # n}
    /\ outbox' = [r \in Spawns |-> IF At(r) = n THEN 0 ELSE outbox[r]]
    /\ st' = [x \in Task |->
                IF At(x) = n /\ st[x] = "requesting" THEN "failed"
                ELSE StWithout(pending \ pending', st)[x]]

\* Any other panic in the loop.
LoopCrashes(n) ==
    /\ n \in Crashing /\ loop[n] = "running"
    /\ LoopDies(n)
    /\ UNCHANGED <<netVars, callVars, chainVars, histVars>>

\* BootstrapOk: the node publishes its signed status.
PublishStatus(n) ==
    /\ loop[n] = "running" /\ StatusKey(n) \notin dht
    /\ dht' = dht \cup {StatusKey(n)}
    /\ UNCHANGED <<loopVars, msgs, cfrags, st, callVars, chainVars, histVars>>

\* get_prospect_vessels keeps the empty vessels among the statuses.
Prospects(vessels, n) ==
    IF VesselStatus[n] = "EmptyVessel" THEN Append(vessels, n) ELSE vessels

\* Mutant: the sender is looked up and left in its map.
KeepSenders(ws) == pending

\* Waiters are answered through senders that are removed from their map.
RemoveSenders(ws) == pending \ ws

\* handle_kademlia_query_result, FoundRecord: whoever waits under the kind the
\* key is taken for is answered.
QueryFound(q) ==
    /\ q \in queries /\ q.key \in dht
    /\ queries' = queries \ {q}
    /\ LET ws == Displaced(q.at, Classify(q.key), {q.key})
       IN /\ pending' = RemoveSenders(ws)
          /\ got' = [t \in Spawns |->
                       IF \E p \in ws : p.task = t THEN Prospects(got[t], q.key[2])
                       ELSE got[t]]
          /\ st' = [t \in Task |->
                      IF \E p \in ws : p.task = t /\ t \in Accesses THEN "found"
                      ELSE IF \E p \in ws : p.task = t /\ t \in NameLookups THEN "done"
                      ELSE st[t]]
    /\ UNCHANGED <<loop, outbox, netVars, chosen, nonce, answers, chainVars, histVars>>

\* A query that ends without a record (not stored yet, or a timeout) falls
\* through to the last arm: nobody is answered and the waiter stays.
QueryMisses(q) ==
    /\ q \in queries
    /\ queries' = queries \ {q}
    /\ missed' = missed \cup {q.task}
    /\ UNCHANGED <<loop, pending, outbox, netVars, st, callVars, chainVars, funded>>

-----------------------------------------------------------------------------
(* spawn_memory_reverie.                                                   *)

\* The RPC server takes the call t.
Received(t) == st[t] = "idle" /\ Cardinality({x \in Task : st[x] # "idle"}) < MaxCalls

\* swarm.connected_peers: a dead loop has dropped its swarm.
Peers(n) == {p \in Connected[n] : loop[p] = "running"}

\* get_prospect_vessels asks for the statuses of the peers.
StartSpawn(t) ==
    /\ t \in Spawns /\ Received(t)
    /\ \/ /\ Call[t].threshold > Call[t].total \/ loop[At(t)] = "dead"
          /\ st' = [st EXCEPT ![t] = "failed"]
          /\ UNCHANGED loopVars
       \/ /\ Call[t].threshold <= Call[t].total /\ loop[At(t)] = "running"
          /\ LookUp(t, "status", {StatusKey(p) : p \in Peers(At(t))})
          /\ st' = [st EXCEPT ![t] = "statuses"]
    /\ UNCHANGED <<netVars, callVars, chainVars, histVars>>

\* The first empty vessel that answered is the target, the others may provide.
ChosenFrom(vessels) == [target |-> Head(vessels), providers |-> Tail(vessels)]

\* get_prospect_vessels fails without a vessel, and if the target is one of
\* the others as well.
NoTarget(vessels) ==
    vessels = <<>> \/ \E i \in 2..Len(vessels) : vessels[i] = vessels[1]

\* No sender is left, so the list is complete; create_reverie.
StatusesDone(t) ==
    /\ t \in Spawns /\ st[t] = "statuses"
    /\ ~\E p \in pending : p.task = t
    /\ IF NoTarget(got[t])
       THEN st' = [st EXCEPT ![t] = "failed"] /\ UNCHANGED chosen
       ELSE /\ chosen' = [chosen EXCEPT ![t] = ChosenFrom(got[t])]
            /\ st' = [st EXCEPT ![t] = IF OnNear(t) THEN "unregistered" ELSE "registered"]
    /\ UNCHANGED <<loopVars, netVars, got, nonce, answers, chainVars, histVars>>

\* NearRuntime::create_reverie: the signer's nonce is read from the chain, or
\* a query fails...
FetchNonce(t) ==
    /\ t \in Spawns /\ st[t] = "unregistered"
    /\ \/ /\ nonce' = [nonce EXCEPT ![t] = chainNonce + 1]
          /\ st' = [st EXCEPT ![t] = "signing"]
       \/ st' = [st EXCEPT ![t] = "failed"] /\ UNCHANGED nonce
    /\ UNCHANGED <<loopVars, netVars, got, chosen, answers, chainVars, histVars>>

\* Mutant: the outcome's status is not looked at.
AfterAnyTx(outcome) ==
    IF outcome \in {"success", "failure"} THEN "registered" ELSE "failed"

\* The call goes on only after a SuccessValue; a failure trips the assert.
AfterTx(outcome) == IF outcome = "success" THEN "registered" ELSE "failed"

\* ... and the transaction is sent with it.  The chain refuses the second of two
\* with one nonce; the contract may fail; it may succeed and the answer not come.
SendTransaction(t) ==
    /\ t \in Spawns /\ st[t] = "signing"
    /\ \E outcome \in {"success", "failure", "timeout", "refused"} :
          /\ nonce[t] <= chainNonce => outcome = "refused"
          /\ chainNonce' = IF outcome = "refused" THEN chainNonce ELSE nonce[t]
          /\ onChain' = IF outcome \in {"success", "timeout"} THEN onChain \cup {t}
                        ELSE onChain
          /\ st' = [st EXCEPT ![t] = AfterTx(outcome)]
    /\ UNCHANGED <<loopVars, netVars, callVars, balance, histVars>>

\* broadcast_reverie_keyfrags counts the providers only now, and puts its
\* commands into the loop's channel.
BroadcastReverieKeyfrags(t) ==
    /\ t \in Spawns /\ st[t] = "registered"
    /\ IF Len(chosen[t].providers) < Call[t].total \/ loop[At(t)] = "dead"
       THEN st' = [st EXCEPT ![t] = "failed"] /\ UNCHANGED outbox
       ELSE /\ st' = [st EXCEPT ![t] = "done"]
            /\ outbox' = [outbox EXCEPT ![t] = Call[t].total + 1]
    /\ UNCHANGED <<loop, pending, queries, netVars, callVars, chainVars, histVars>>

\* The providers that get a fragment: as many as there are fragments.
Providers(r) == {chosen[r].providers[i] : i \in 1..Call[r].total}

\* The loop takes the next command: SendReverieKeyfrag for each provider, then
\* SaveReverieOnNetwork.  The copy that goes to the target vessel afterwards
\* is read by no operation on a memory.
HandleBroadcast(r) ==
    /\ outbox[r] > 0
    /\ outbox' = [outbox EXCEPT ![r] = @ - 1]
    /\ IF outbox[r] = 1
       THEN dht' = dht \cup {ReverieKey(r)} /\ UNCHANGED msgs
       ELSE /\ msgs' = msgs \cup
                 {[type |-> "save", task |-> r,
                   peer |-> chosen[r].providers[Call[r].total + 2 - outbox[r]]]}
            /\ UNCHANGED dht
    /\ UNCHANGED <<loop, pending, queries, cfrags, st, callVars, chainVars, histVars>>

\* SaveFragmentRequest at the provider.
SaveFragment(m) ==
    /\ m \in msgs /\ m.type = "save" /\ loop[m.peer] = "running"
    /\ msgs' = msgs \ {m}
    /\ cfrags' = [cfrags EXCEPT ![m.peer] = @ \cup {m.task}]
    /\ UNCHANGED <<loopVars, dht, st, callVars, chainVars, histVars>>

\* The fragment does not arrive; the broadcaster only logs it.
SaveLost(m) ==
    /\ m \in msgs /\ m.type = "save"
    /\ msgs' = msgs \ {m}
    /\ UNCHANGED <<loopVars, dht, cfrags, st, callVars, chainVars, histVars>>

-----------------------------------------------------------------------------
(* delegate_api_key and execute_with_memory_reverie.                       *)

\* Mutant: it is enough that the contract knows the reverie.
IsRegistered(r, who, amount) == r \in onChain

\* can_spend of EnvContract.
CanSpend(r, who, amount) == r \in onChain /\ balance[<<r, who>>] >= amount

\* get_reverie for a memory; a call that waits for the same record here fails.
StartAccess(t) ==
    /\ t \in Accesses /\ Received(t)
    /\ LET keys == {ReverieKey(Call[t].reverie)} IN
       \/ /\ loop[At(t)] = "dead"
          /\ st' = [st EXCEPT ![t] = "failed"]
          /\ UNCHANGED loopVars
       \/ /\ loop[At(t)] = "running"
          /\ LookUp(t, "reverie", keys)
          /\ st' = [StWithout(Displaced(At(t), "reverie", keys), st)
                        EXCEPT ![t] = "lookup"]
    /\ UNCHANGED <<netVars, callVars, chainVars, histVars>>

\* The key of t is a payment on the contract the reveries are registered on.
PaysHere(t) == Call[t].key.kind = "near" /\ Call[t].key.contract = EnvContract

\* The deposit of the account in the key of t, for the reverie, covers the
\* amount in the key.
Covers(t, deposit) ==
    PaysHere(t) => deposit[<<Call[t].reverie, Call[t].key.spender>>] >= Call[t].key.amount

\* request_cfrags asks every provider the record names.
RequestCfrags(t) ==
    /\ t \in Accesses /\ st[t] = "found"
    /\ IF loop[At(t)] = "dead"
       THEN st' = [st EXCEPT ![t] = "failed"] /\ UNCHANGED <<msgs, funded>>
       ELSE /\ st' = [st EXCEPT ![t] = "requesting"]
            /\ msgs' = msgs \cup [type : {"get"}, task : {t},
                                  peer : Providers(Call[t].reverie)]
            /\ funded' = [funded EXCEPT ![t] = Covers(t, balance)]
    /\ UNCHANGED <<loopVars, dht, cfrags, callVars, chainVars, missed>>

\* AccessKey::verify_access; the other kinds are not implemented.
VerifyAccess(key, condition) ==
    key.kind \in {"umbral", "ecdsa"} /\ key.kind = condition /\ key.valid

\* The check of GetFragmentRequest may succeed.  The contract that is asked is
\* the one in the key, and another than EnvContract may say what it likes; the
\* key is not compared with the reverie's condition.
Grants(r, key) ==
    IF key.kind = "near"
    THEN key.contract = EnvContract => CanSpend(r, key.spender, key.amount)
    ELSE VerifyAccess(key, Call[r].condition)

\* GetFragmentRequest at the provider: the fragment goes back.
GetFragment(m) ==
    /\ m \in msgs /\ m.type = "get" /\ loop[m.peer] = "running"
    /\ LET r == Call[m.task].reverie
       IN r \in cfrags[m.peer] /\ Grants(r, Call[m.task].key)
    /\ msgs' = (msgs \ {m}) \cup {[m EXCEPT !.type = "cfrag"]}
    /\ UNCHANGED <<loopVars, dht, cfrags, st, callVars, chainVars, histVars>>

\* The same handler without a fragment, with a key that does not open it, or
\* with no or a negative answer from the chain: its error ends the provider's
\* loop.
GetFragmentFails(m) ==
    /\ m \in msgs /\ m.type = "get" /\ loop[m.peer] = "running"
    /\ LET r == Call[m.task].reverie
       IN \/ r \notin cfrags[m.peer]
          \/ ~Grants(r, Call[m.task].key)
          \/ Call[m.task].key.kind = "near"
    /\ LoopDies(m.peer)
    /\ UNCHANGED <<netVars, callVars, chainVars, histVars>>

\* GetFragmentResponse reaches the loop that asked.
ReceiveFragment(m) ==
    /\ m \in msgs /\ m.type = "cfrag" /\ loop[At(m.task)] = "running"
    /\ msgs' = msgs \ {m}
    /\ answers' = [answers EXCEPT ![m.task].ok = @ \cup {m.peer}]
    /\ UNCHANGED <<loopVars, dht, cfrags, st, got, chosen, nonce, chainVars, histVars>>

\* Mutant: the failure is logged, and the sender kept.
FailureIgnored(m) ==
    /\ m \in msgs /\ m.type \in {"get", "cfrag"}
    /\ msgs' = msgs \ {m}
    /\ UNCHANGED <<loopVars, dht, cfrags, st, callVars, chainVars, histVars>>

\* OutboundFailure: a timeout, or the provider's connection closed.
OutboundFailure(m) ==
    /\ m \in msgs /\ m.type \in {"get", "cfrag"}
    /\ msgs' = msgs \ {m}
    /\ answers' = [answers EXCEPT ![m.task].err = @ \cup {m.peer}]
    /\ UNCHANGED <<loopVars, dht, cfrags, st, got, chosen, nonce, chainVars, histVars>>

\* parse_cfrags and decrypt_cfrags: no error among the answers, enough of
\* them, and the capsule opens only with the target's key.
Decrypts(t) ==
    LET r == Call[t].reverie IN
    /\ answers[t].err = {}
    /\ Cardinality(answers[t].ok) >= Call[r].threshold
    /\ At(t) = chosen[r].target

\* All have answered.  A delegation also needs the key in the secrets and the
\* proxy; an execution succeeds whatever the LLM says.
FinishAccess(t) ==
    /\ t \in Accesses /\ st[t] = "requesting"
    /\ answers[t].ok \cup answers[t].err = Providers(Call[t].reverie)
    /\ \/ ~Decrypts(t) /\ st' = [st EXCEPT ![t] = "failed"]
       \/ Decrypts(t) /\ st' = [st EXCEPT ![t] = "done"]
       \/ Call[t].op = "delegate" /\ st' = [st EXCEPT ![t] = "failed"]
    /\ UNCHANGED <<loopVars, netVars, callVars, chainVars, histVars>>

\* SaveReverieOnNetwork or SendReverieToSpecificPeer for an agent put its name
\* on the DHT (the rest of them is Reincarnation's).
SaveAgentName(t) ==
    /\ t \in AgentSpawns /\ Received(t)
    /\ IF loop[At(t)] = "dead"
       THEN st' = [st EXCEPT ![t] = "failed"] /\ UNCHANGED dht
       ELSE /\ st' = [st EXCEPT ![t] = "done"]
            /\ dht' = dht \cup {NameKey(Call[t].name)}
    /\ UNCHANGED <<loopVars, msgs, cfrags, callVars, chainVars, histVars>>

\* get_reverie_id_by_name.
StartNameLookup(t) ==
    /\ t \in NameLookups /\ Received(t)
    /\ LET keys == {NameKey(Call[t].name)} IN
       \/ /\ loop[At(t)] = "dead"
          /\ st' = [st EXCEPT ![t] = "failed"]
          /\ UNCHANGED loopVars
       \/ /\ loop[At(t)] = "running"
          /\ LookUp(t, "name", keys)
          /\ st' = [StWithout(Displaced(At(t), "name", keys), st)
                        EXCEPT ![t] = "lookup"]
    /\ UNCHANGED <<netVars, callVars, chainVars, histVars>>

-----------------------------------------------------------------------------
(* The spender's transactions.                                             *)

Asking(t) == st[t] = "requesting"

\* deposit, and withdraw of all of it, by an account that some key names.
SetBalance(r, who, b) ==
    /\ \E t \in Accesses : PaysHere(t) /\ Call[t].reverie = r /\ Call[t].key.spender = who
    /\ balance' = [balance EXCEPT ![<<r, who>>] = b]
    /\ funded' = [t \in Accesses |-> funded[t] \/ (Asking(t) /\ Covers(t, balance'))]
    /\ UNCHANGED <<loopVars, netVars, st, callVars, onChain, chainNonce, missed>>

Deposit(r, who) ==
    /\ r \in onChain /\ balance[<<r, who>>] < MaxDeposit
    /\ SetBalance(r, who, balance[<<r, who>>] + 1)

Withdraw(r, who) ==
    r \in onChain /\ balance[<<r, who>>] > 0 /\ SetBalance(r, who, 0)

-----------------------------------------------------------------------------

Init ==
    /\ loop = [n \in Node |-> "running"]
    /\ pending = {} /\ queries = {} /\ msgs = {}
    /\ dht = {StatusKey(n) : n \in Bootstrapped}
    /\ outbox = [r \in Spawns |-> 0]
    /\ cfrags = [n \in Node |-> {}]
    /\ st = [t \in Task |-> "idle"]
    /\ got = [t \in Spawns |-> <<>>]
    /\ chosen = [t \in Spawns |-> None]
    /\ nonce = [t \in Spawns |-> 0]
    /\ answers = [t \in Accesses |-> [ok |-> {}, err |-> {}]]
    /\ onChain = {} /\ chainNonce = 0
    /\ balance = [p \in Spawns \X Account |-> 0]
    /\ funded = [t \in Accesses |-> FALSE]
    /\ missed = {}

Next ==
    \/ \E n \in Node : PublishStatus(n) \/ LoopCrashes(n)
    \/ \E q \in queries : QueryFound(q) \/ QueryMisses(q)
    \/ \E t \in Task :
          \/ StartSpawn(t) \/ StatusesDone(t) \/ FetchNonce(t) \/ SendTransaction(t)
          \/ BroadcastReverieKeyfrags(t)
          \/ StartAccess(t) \/ RequestCfrags(t) \/ FinishAccess(t)
          \/ SaveAgentName(t) \/ StartNameLookup(t)
    \/ \E r \in Spawns : HandleBroadcast(r)
    \/ \E r \in Spawns, who \in Account : Deposit(r, who) \/ Withdraw(r, who)
    \/ \E m \in msgs :
          \/ SaveFragment(m) \/ SaveLost(m)
          \/ GetFragment(m) \/ GetFragmentFails(m)
          \/ ReceiveFragment(m) \/ OutboundFailure(m)

\* A query ends; a request is answered or times out; a task whose answer has
\* come is polled.  There are finitely many of each, so one condition per kind
\* of step is enough.
Fairness ==
    /\ WF_vars(\E q \in queries : QueryFound(q) \/ QueryMisses(q))
    /\ WF_vars(\E m \in msgs : ReceiveFragment(m) \/ OutboundFailure(m))
    /\ WF_vars(\E t \in Task : StatusesDone(t) \/ RequestCfrags(t) \/ FinishAccess(t))

Spec == Init /\ [][Next]_vars

FairSpec == Spec /\ Fairness

-----------------------------------------------------------------------------
(* Properties.                                                             *)

\* Every variable has its type, and a waiter waits in the map of its kind.
TypeOK ==
    /\ loop \in [Node -> {"running", "dead"}]
    /\ outbox \in [Spawns -> Nat]
    /\ \A p \in pending : /\ p.at = At(p.task) /\ loop[p.at] = "running"
                          /\ st[p.task] = IF p.kind = "status" THEN "statuses" ELSE "lookup"
    /\ \A q \in queries : q.at = At(q.task)
    /\ cfrags \in [Node -> SUBSET Spawns]
    /\ \A m \in msgs : m.type \in {"save", "get", "cfrag"} /\ m.task \in Task
                       /\ m.peer \in Node
    /\ st \in [Task -> Stage]
    /\ got \in [Spawns -> Seq(Node)]
    /\ \A r \in Spawns : chosen[r] # None => chosen[r].target \in Node
    /\ nonce \in [Spawns -> Nat] /\ chainNonce \in Nat
    /\ answers \in [Accesses -> [ok : SUBSET Node, err : SUBSET Node]]
    /\ onChain \subseteq Spawns
    /\ balance \in [Spawns \X Account -> 0..MaxDeposit]
    /\ funded \in [Accesses -> BOOLEAN]

\* The vessels a spawn chooses its target and its providers from are different
\* nodes, so that it has as many holders as fragments, although calls at one
\* node replace each other's senders and are answered by each other's queries
\* (GetNodeVesselStatusesFromKademlia, handle_kademlia_query_result).
VesselsDistinct ==
    \A r \in Spawns : \A i, j \in DOMAIN got[r] : got[r][i] = got[r][j] => i = j

\* No part of a reverie that is paid for on NEAR leaves the node that spawns
\* it before the contract knows the reverie, although the transaction may be
\* refused, fail or go unanswered (spawn_memory_reverie).
RegisteredBeforeShared ==
    \A r \in Spawns :
        OnNear(r) /\ (\/ ReverieKey(r) \in dht
                      \/ \E n \in Node : r \in cfrags[n]
                      \/ \E m \in msgs : m.type = "save" /\ m.task = r)
            => r \in onChain

\* A memory is opened only on its target; and with a payment on the contract
\* its nodes register on only if the account in the key had deposited, for that
\* very reverie, the amount in the key, at some moment after the fragments were
\* asked for; the deposit may be gone by then, since no step of the node
\* spends it (GetFragmentRequest, decrypt_cfrags).  The key's contract, account
\* and amount are the requester's: the code compares none of them with the
\* reverie's access condition, so of a key for another contract nothing is
\* claimed.
SecretsNeedDeposit ==
    \A t \in Accesses :
        st[t] = "done" => /\ At(t) = chosen[Call[t].reverie].target
                          /\ PaysHere(t) => funded[t]

Waiting(t) == st[t] \in {"statuses", "lookup"}

\* A lookup of statuses or of a reverie is answered or given up, unless one of
\* its queries found nothing, although other calls replace its senders and use
\* its queries (GetNodeVesselStatusesFromKademlia, GetReverie,
\* handle_kademlia_query_result).
LookupsAnswered ==
    []<>(\A t \in Spawns \cup Accesses : Waiting(t) => t \in missed)

\* What LookupsAnswered rests on: a call that waits for a status or a reverie
\* still has its own query under way, unless one of its queries found nothing,
\* however queries and senders of several calls cross (handle_kademlia_query_result).
LookupsUnderWay ==
    \A p \in pending :
        p.kind # "name" =>
            \/ p.task \in missed
            \/ \E q \in queries : q.task = p.task /\ q.at = p.at /\ q.key = p.key

\* The providers whose answer to t is still to come.
AskedBy(t) == {m.peer : m \in {x \in msgs : x.type \in {"get", "cfrag"} /\ x.task = t}}

\* What AccessesEnd rests on: every provider that was asked has answered or
\* still can, and nobody else is waited for, although providers' loops die of
\* requests and answers time out (request_cfrags, OutboundFailure).
ProvidersAccountedFor ==
    \A t \in Accesses :
        Asking(t) => answers[t].ok \cup answers[t].err \cup AskedBy(t)
                         = Providers(Call[t].reverie)

\* A call that has asked for fragments comes to an end, whichever of the loops
\* dies meanwhile (request_cfrags, OutboundFailure).
AccessesEnd ==
    []<>(\A t \in Accesses : ~Asking(t))

\* "Gets the ReverieId for an agent from Kademlia": a lookup of a name that is
\* on the DHT, none of whose queries fails, is answered (GetReverieIdByName).
NamesFound ==
    \A t \in NameLookups :
        (Waiting(t) /\ NameKey(Call[t].name) \in dht) ~> (~Waiting(t) \/ t \in missed)
=============================================================================
