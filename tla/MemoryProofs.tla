---------------------------- MODULE MemoryProofs ----------------------------
(***************************************************************************)
(* Memories, for any nodes, calls and bounds: a reverie that is paid for   *)
(* is on the chain before any part of it is shared, a memory is opened     *)
(* only on its target, and with a payment on the contract its nodes        *)
(* register on only after a deposit covered the key, and its holders are   *)
(* distinct nodes.                                                         *)
(***************************************************************************)
EXTENDS MemoryReverie, FiniteSetTheorems, SequenceTheorems, TLAPS

\* What the steps need to know of the variables' shape.
IsMsg(m)    == \E ty, ta, pe : m = [type |-> ty, task |-> ta, peer |-> pe]
IsAnswer(x) == \E ok, err : x = [ok |-> ok, err |-> err]

Shape ==
    /\ st \in [Task -> Stage]
    /\ outbox \in [Spawns -> Nat]
    /\ cfrags = [n \in Node |-> cfrags[n]]
    /\ \A m \in msgs : IsMsg(m)
    /\ chosen = [r \in Spawns |-> chosen[r]]
    /\ answers = [t \in Accesses |-> answers[t]]
    /\ \A t \in Accesses : IsAnswer(answers[t])
    /\ funded \in [Accesses -> BOOLEAN]

\* A waiter waits in the map of its kind, under the key its call asks for.
\* Its call has not been answered yet.
Waiters ==
    \A p \in pending :
        /\ p.at = At(p.task)
        /\ \/ p.kind = "status" /\ p.task \in Spawns
           \/ /\ p.kind = "reverie" /\ p.task \in Accesses /\ st[p.task] = "lookup"
              /\ p.key = ReverieKey(Call[p.task].reverie)
           \/ /\ p.kind = "name" /\ p.task \in NameLookups /\ st[p.task] = "lookup"
              /\ p.key = NameKey(Call[p.task].name)

\* A paid reverie that may still be shared, or is, is on the chain.
ToBeShared(r) ==
    \/ st[r] = "registered"
    \/ outbox[r] > 0
    \/ ReverieKey(r) \in dht
    \/ \E n \in Node : r \in cfrags[n]
    \/ \E m \in msgs : m.type = "save" /\ m.task = r

SharedIsRegistered ==
    \A r \in Spawns : OnNear(r) /\ ToBeShared(r) => r \in onChain

\* What is broadcast comes from a spawn that has ended, so its target stays.
BroadcastIsFinal ==
    \A r \in Spawns : outbox[r] > 0 \/ ReverieKey(r) \in dht => st[r] = "done"

\* An access has gone past its lookup only for a reverie on the DHT.
AccessedIsShared ==
    \A t \in Accesses :
        st[t] \in {"found", "requesting", "done"} => ReverieKey(Call[t].reverie) \in dht

\* Nothing is asked for before the lookup has ended.
QuietBefore ==
    \A t \in Accesses :
        st[t] \in {"idle", "lookup", "found"} =>
            /\ answers[t].ok = {}
            /\ \A m \in msgs : m.type # "save" => m.task # t

\* While t asks, a deposit that covers its key is remembered, and a fragment
\* that a provider has given was given under such a deposit.
FragmentsFunded ==
    \A t \in Accesses :
        PaysHere(t) /\ st[t] = "requesting" =>
            /\ Covers(t, balance) => funded[t]
            /\ answers[t].ok # {} => funded[t]
            /\ \A m \in msgs : m.type = "cfrag" /\ m.task = t => funded[t]

Inv == /\ Shape /\ Waiters /\ SharedIsRegistered
       /\ BroadcastIsFinal /\ AccessedIsShared /\ QuietBefore /\ FragmentsFunded
       /\ SecretsNeedDeposit

-----------------------------------------------------------------------------
(* Facts about keys, calls and displaced waiters.                          *)

\* Record keys of different kinds differ.
LEMMA KeysDiffer ==
    /\ \A r, n : ReverieKey(r) # StatusKey(n)
    /\ \A r, nm : ReverieKey(r) # NameKey(nm)
    /\ \A r1, r2 : ReverieKey(r1) = ReverieKey(r2) => r1 = r2
<1>1. \A r, n : ReverieKey(r) # StatusKey(n)
  BY DEF ReverieKey, StatusKey
<1>2. \A r, nm : Len(ReverieKey(r)) = 2 /\ Len(NameKey(nm)) = 3
  BY DEF ReverieKey, NameKey
<1>3. \A r1, r2 : ReverieKey(r1) = ReverieKey(r2) => r1 = r2
  BY DEF ReverieKey
<1> QED  BY <1>1, <1>2, <1>3

\* A call is of one kind.
LEMMA CallsDiffer ==
    /\ \A t \in Accesses : t \in Task /\ t \notin Spawns /\ t \notin NameLookups
                          /\ t \notin AgentSpawns
    /\ \A t \in Spawns : t \in Task /\ t \notin NameLookups /\ t \notin AgentSpawns
    /\ NameLookups \subseteq Task
  BY DEF Accesses, Spawns, NameLookups, AgentSpawns

\* A call that loses its sender fails, the others go on.
LEMMA WithoutFails ==
    ASSUME NEW ws, NEW s, NEW x \in Task
    PROVE  /\ StWithout(ws, s)[x] = "failed" \/ StWithout(ws, s)[x] = s[x]
           /\ StWithout(ws, s)[x] # s[x] => \E p \in ws : p.task = x /\ p.kind # "status"
           /\ (\E p \in ws : p.task = x /\ p.kind # "status")
                  => StWithout(ws, s)[x] = "failed"
  BY DEF StWithout

LEMMA InvInit == Init => Inv
<1> SUFFICES ASSUME Init PROVE Inv  OBVIOUS
<1>1. Shape
  BY CallsDiffer DEF Init, Shape, Stage, IsAnswer
<1>2. \A r : ReverieKey(r) \notin dht
  BY KeysDiffer DEF Init
<1>3. \A t \in Task : st[t] = "idle"
  BY DEF Init
<1>4. SharedIsRegistered /\ BroadcastIsFinal
  BY <1>2, <1>3, CallsDiffer DEF Init, SharedIsRegistered, ToBeShared, BroadcastIsFinal
<1>5. Waiters /\ AccessedIsShared /\ QuietBefore /\ FragmentsFunded /\ SecretsNeedDeposit
  BY <1>3, CallsDiffer
     DEF Init, Waiters, AccessedIsShared, QuietBefore, FragmentsFunded, SecretsNeedDeposit
<1> QED  BY <1>1, <1>4, <1>5 DEF Inv

-----------------------------------------------------------------------------
(* Steps that only start calls or let them fail.                           *)

\* A call is started, or one that waits or asks fails.
StartsOrFails(x) ==
    \/ st'[x] = st[x]
    \/ st[x] = "idle" /\ st'[x] \in {"statuses", "lookup", "failed"}
    \/ st[x] \in {"lookup", "requesting"} /\ st'[x] = "failed"

LEMMA StartsAndFailures ==
    ASSUME Inv, st' \in [Task -> Stage], \A x \in Task : StartsOrFails(x),
           outbox' \in [Spawns -> Nat],
           \A r \in Spawns : outbox'[r] = outbox[r] \/ outbox'[r] = 0,
           UNCHANGED <<netVars, callVars, chainVars, histVars>>
    PROVE  /\ Shape' /\ SharedIsRegistered' /\ BroadcastIsFinal' /\ AccessedIsShared'
           /\ QuietBefore' /\ FragmentsFunded' /\ SecretsNeedDeposit'
<1> USE DEF Inv, netVars, callVars, chainVars, histVars, StartsOrFails
<1>1. Shape'
  BY DEF Shape, IsMsg, IsAnswer
<1>2. SharedIsRegistered' /\ BroadcastIsFinal'
  BY CallsDiffer DEF SharedIsRegistered, ToBeShared, BroadcastIsFinal
<1>3. AccessedIsShared' /\ QuietBefore' /\ SecretsNeedDeposit'
  BY CallsDiffer DEF AccessedIsShared, QuietBefore, SecretsNeedDeposit
<1>4. FragmentsFunded'
  BY CallsDiffer DEF FragmentsFunded, PaysHere, Covers
<1> QED  BY <1>1, <1>2, <1>3, <1>4

\* Only calls that wait lose a sender.
LEMMA DisplacedWait ==
    ASSUME Inv, NEW ws \in SUBSET pending
    PROVE  /\ StWithout(ws, st) \in [Task -> Stage]
           /\ \A x \in Task : StWithout(ws, st)[x] # st[x] =>
                 st[x] = "lookup" /\ StWithout(ws, st)[x] = "failed"
<1>1. StWithout(ws, st) \in [Task -> Stage]
  BY DEF Inv, Shape, StWithout, Stage
<1>2. \A p \in ws : p.kind # "status" => st[p.task] = "lookup"
  BY DEF Inv, Waiters
<1> QED  BY <1>1, <1>2, WithoutFails

\* What dies with a loop fails or is dropped.
LEMMA LoopDiesKeeps ==
    ASSUME Inv, NEW n, LoopDies(n), UNCHANGED <<netVars, callVars, chainVars, histVars>>
    PROVE  Inv'
<1> DEFINE ws == pending \ pending'
<1>0. ws \in SUBSET pending  OBVIOUS
<1>1. st' = [x \in Task |-> IF At(x) = n /\ st[x] = "requesting" THEN "failed"
                            ELSE StWithout(ws, st)[x]]
  BY DEF LoopDies
<1>2. /\ StWithout(ws, st) \in [Task -> Stage]
      /\ \A x \in Task : StWithout(ws, st)[x] # st[x] =>
            st[x] = "lookup" /\ StWithout(ws, st)[x] = "failed"
  BY <1>0, DisplacedWait
<1> HIDE DEF ws
<1>3. st' \in [Task -> Stage] /\ \A x \in Task : StartsOrFails(x)
  BY <1>1, <1>2 DEF Stage, StartsOrFails
<1>4. /\ outbox' \in [Spawns -> Nat]
      /\ \A r \in Spawns : outbox'[r] = outbox[r] \/ outbox'[r] = 0
  BY DEF LoopDies, Inv, Shape
<1>5. Waiters'
  <2> SUFFICES ASSUME NEW p \in pending', p.kind # "status" PROVE st'[p.task] = st[p.task]
    BY CallsDiffer DEF Inv, Waiters, LoopDies
  <2>1. p \in pending /\ p.at # n /\ p.at = At(p.task) /\ p.task \in Task
        /\ st[p.task] = "lookup"
    BY CallsDiffer DEF Inv, Waiters, LoopDies, NameLookups
  <2>2. \A w \in ws : w.at = n /\ w.at = At(w.task)
    BY DEF Inv, Waiters, LoopDies, ws
  <2>3. StWithout(ws, st)[p.task] = st[p.task]
    BY <2>1, <2>2, WithoutFails
  <2> QED  BY <1>1, <2>1, <2>3
<1> QED  BY <1>3, <1>4, <1>5, StartsAndFailures DEF Inv

\* A lookup of one key, of a kind other than a status.
LEMMA LookUpKeeps ==
    ASSUME Inv, NEW t \in Task, st[t] = "idle", NEW kind, NEW key,
           LookUp(t, kind, {key}),
           st' = [StWithout(Displaced(At(t), kind, {key}), st) EXCEPT ![t] = "lookup"],
           \/ kind = "reverie" /\ t \in Accesses /\ key = ReverieKey(Call[t].reverie)
           \/ kind = "name" /\ t \in NameLookups /\ key = NameKey(Call[t].name),
           UNCHANGED <<netVars, callVars, chainVars, histVars>>
    PROVE  Inv'
<1> DEFINE ws == Displaced(At(t), kind, {key})
<1>0. ws \in SUBSET pending  BY DEF Displaced
<1>1. st' = [StWithout(ws, st) EXCEPT ![t] = "lookup"]  OBVIOUS
<1>2. /\ StWithout(ws, st) \in [Task -> Stage]
      /\ \A x \in Task : StWithout(ws, st)[x] # st[x] =>
            st[x] = "lookup" /\ StWithout(ws, st)[x] = "failed"
  BY <1>0, DisplacedWait
<1>3. \A p : p \in ws <=> p \in pending /\ p.at = At(t) /\ p.kind = kind /\ p.key = key
  BY DEF Displaced
<1>4. pending' = (pending \ ws) \cup [at : {At(t)}, kind : {kind}, key : {key}, task : {t}]
  BY DEF LookUp
<1> HIDE DEF ws
<1>5. st' \in [Task -> Stage] /\ \A x \in Task : StartsOrFails(x)
  BY <1>1, <1>2 DEF Stage, StartsOrFails
<1>6. /\ outbox' \in [Spawns -> Nat]
      /\ \A r \in Spawns : outbox'[r] = outbox[r] \/ outbox'[r] = 0
  BY DEF LookUp, Inv, Shape
<1>7. Waiters'
  <2>1. ASSUME NEW p \in pending, p \notin ws, p.kind # "status"
        PROVE  st'[p.task] = st[p.task]
    <3>1. p.task \in Task /\ p.task # t
      BY <2>1, CallsDiffer DEF Inv, Waiters, NameLookups
    <3>2. \A w \in ws : w.kind # "status" => w.task # p.task
      BY <1>3, <2>1, CallsDiffer DEF Inv, Waiters
    <3>3. StWithout(ws, st)[p.task] = st[p.task]
      BY <3>1, <3>2, WithoutFails
    <3> QED  BY <1>1, <1>2, <3>1, <3>3
  <2>2. ASSUME NEW p \in [at : {At(t)}, kind : {kind}, key : {key}, task : {t}]
        PROVE  p.at = At(t) /\ p.kind = kind /\ p.key = key /\ p.task = t
    OBVIOUS
  <2>3. st'[t] = "lookup"
    BY <1>1, <1>2
  <2>4. ASSUME NEW p \in pending'
        PROVE  \/ p \in pending /\ p \notin ws
               \/ p.at = At(t) /\ p.kind = kind /\ p.key = key /\ p.task = t
    BY <1>4, <2>2
  <2> QED  BY <2>1, <2>3, <2>4 DEF Inv, Waiters
<1> QED  BY <1>5, <1>6, <1>7, StartsAndFailures DEF Inv

-----------------------------------------------------------------------------
(* The other steps.                                                        *)

\* The status of a node is no reverie.
LEMMA PublishStatusKeeps == ASSUME Inv, NEW n, PublishStatus(n) PROVE Inv'
<1> USE DEF Inv, loopVars, netVars, callVars, chainVars, histVars, PublishStatus
<1>1. Shape' /\ Waiters'
  BY DEF Shape, Waiters
<1>2. SharedIsRegistered' /\ BroadcastIsFinal'
  BY KeysDiffer DEF SharedIsRegistered, ToBeShared, BroadcastIsFinal
<1>3. AccessedIsShared' /\ QuietBefore'
  BY DEF AccessedIsShared, QuietBefore
<1>4. FragmentsFunded' /\ SecretsNeedDeposit'
  BY DEF FragmentsFunded, SecretsNeedDeposit
<1> QED  BY <1>1, <1>2, <1>3, <1>4

\* Nobody is answered.
LEMMA QueryMissesKeeps == ASSUME Inv, NEW q, QueryMisses(q) PROVE Inv'
<1> USE DEF Inv, loopVars, netVars, callVars, chainVars, histVars, QueryMisses
<1>1. Shape' /\ Waiters'
  BY DEF Shape, Waiters
<1>2. SharedIsRegistered' /\ BroadcastIsFinal'
  BY DEF SharedIsRegistered, ToBeShared, BroadcastIsFinal
<1>3. AccessedIsShared' /\ QuietBefore'
  BY DEF AccessedIsShared, QuietBefore
<1>4. FragmentsFunded' /\ SecretsNeedDeposit'
  BY DEF FragmentsFunded, SecretsNeedDeposit
<1> QED  BY <1>1, <1>2, <1>3, <1>4

\* The target is chosen before anything is broadcast.
LEMMA StatusesDoneKeeps == ASSUME Inv, NEW t, StatusesDone(t) PROVE Inv'
<1> USE DEF Inv, loopVars, netVars, callVars, chainVars, histVars, StatusesDone
<1>1. Shape' /\ Waiters'
  BY CallsDiffer DEF Shape, Waiters, Stage
<1>2. SharedIsRegistered' /\ BroadcastIsFinal'
  BY CallsDiffer DEF Shape, SharedIsRegistered, ToBeShared, BroadcastIsFinal
<1>3. AccessedIsShared' /\ QuietBefore'
  BY CallsDiffer DEF Shape, AccessedIsShared, QuietBefore
<1>4. FragmentsFunded' /\ SecretsNeedDeposit'
  BY CallAssumption
     DEF Shape, BroadcastIsFinal, AccessedIsShared, FragmentsFunded, SecretsNeedDeposit
<1> QED  BY <1>1, <1>2, <1>3, <1>4

\* Nothing is shared before the transaction.
LEMMA FetchNonceKeeps == ASSUME Inv, NEW t, FetchNonce(t) PROVE Inv'
<1> USE DEF Inv, loopVars, netVars, callVars, chainVars, histVars, FetchNonce
<1>1. Shape' /\ Waiters'
  BY CallsDiffer DEF Shape, Waiters, Stage
<1>2. SharedIsRegistered' /\ BroadcastIsFinal'
  BY CallsDiffer DEF Shape, SharedIsRegistered, ToBeShared, BroadcastIsFinal
<1>3. AccessedIsShared' /\ QuietBefore'
  BY CallsDiffer DEF Shape, AccessedIsShared, QuietBefore
<1>4. FragmentsFunded' /\ SecretsNeedDeposit'
  BY CallsDiffer DEF Shape, FragmentsFunded, SecretsNeedDeposit
<1> QED  BY <1>1, <1>2, <1>3, <1>4

\* Only a transaction that succeeded leads on, and it has registered the reverie.
LEMMA SendTransactionKeeps == ASSUME Inv, NEW t, SendTransaction(t) PROVE Inv'
<1> USE DEF Inv, loopVars, netVars, callVars, chainVars, histVars, SendTransaction, AfterTx
<1>1. Shape' /\ Waiters'
  BY CallsDiffer DEF Shape, Waiters, Stage
<1>2. SharedIsRegistered' /\ BroadcastIsFinal'
  BY CallsDiffer DEF Shape, SharedIsRegistered, ToBeShared, BroadcastIsFinal
<1>3. AccessedIsShared' /\ QuietBefore'
  BY CallsDiffer DEF Shape, AccessedIsShared, QuietBefore
<1>4. FragmentsFunded' /\ SecretsNeedDeposit'
  BY CallsDiffer DEF Shape, FragmentsFunded, Covers, SecretsNeedDeposit
<1> QED  BY <1>1, <1>2, <1>3, <1>4

\* The name of an agent is no reverie.
LEMMA SaveAgentNameKeeps == ASSUME Inv, NEW t, SaveAgentName(t) PROVE Inv'
<1> USE DEF Inv, loopVars, netVars, callVars, chainVars, histVars, SaveAgentName, Received
<1>1. Shape' /\ Waiters'
  BY CallsDiffer DEF Shape, Waiters, Stage
<1>2. SharedIsRegistered' /\ BroadcastIsFinal'
  BY KeysDiffer, CallsDiffer DEF Shape, SharedIsRegistered, ToBeShared, BroadcastIsFinal
<1>3. AccessedIsShared' /\ QuietBefore'
  BY CallsDiffer DEF Shape, AccessedIsShared, QuietBefore
<1>4. FragmentsFunded' /\ SecretsNeedDeposit'
  BY CallsDiffer DEF Shape, FragmentsFunded, SecretsNeedDeposit, IsMsg
<1> QED  BY <1>1, <1>2, <1>3, <1>4

\* A broadcast goes on for a reverie that is on the chain and whose spawn has ended.
LEMMA HandleBroadcastKeeps == ASSUME Inv, NEW r \in Spawns, HandleBroadcast(r) PROVE Inv'
<1> USE DEF Inv, loopVars, netVars, callVars, chainVars, histVars, HandleBroadcast
<1>1. Shape' /\ Waiters'
  BY DEF Shape, Waiters, IsMsg
<1>2. SharedIsRegistered' /\ BroadcastIsFinal'
  BY KeysDiffer DEF Shape, SharedIsRegistered, ToBeShared, BroadcastIsFinal
<1>3. AccessedIsShared' /\ QuietBefore'
  BY DEF AccessedIsShared, QuietBefore
<1>4. FragmentsFunded' /\ SecretsNeedDeposit'
  BY CallAssumption DEF FragmentsFunded, SecretsNeedDeposit
<1> QED  BY <1>1, <1>2, <1>3, <1>4

\* A lost fragment leaves less to show.
LEMMA SaveLostKeeps == ASSUME Inv, NEW m, SaveLost(m) PROVE Inv'
<1> USE DEF Inv, loopVars, netVars, callVars, chainVars, histVars, SaveLost
<1>1. Shape' /\ Waiters'
  BY DEF Shape, Waiters
<1>2. SharedIsRegistered' /\ BroadcastIsFinal'
  BY DEF SharedIsRegistered, ToBeShared, BroadcastIsFinal
<1>3. AccessedIsShared' /\ QuietBefore'
  BY DEF AccessedIsShared, QuietBefore
<1>4. FragmentsFunded' /\ SecretsNeedDeposit'
  BY DEF FragmentsFunded, SecretsNeedDeposit
<1> QED  BY <1>1, <1>2, <1>3, <1>4

LEMMA LoopCrashesKeeps == ASSUME Inv, NEW n, LoopCrashes(n) PROVE Inv'
  BY LoopDiesKeeps DEF LoopCrashes

LEMMA GetFragmentFailsKeeps == ASSUME Inv, NEW m, GetFragmentFails(m) PROVE Inv'
  BY LoopDiesKeeps DEF GetFragmentFails

\* A call that is refused at once.
LEMMA RefusedKeeps ==
    ASSUME Inv, NEW t \in Task, st[t] = "idle", st' = [st EXCEPT ![t] = "failed"],
           UNCHANGED <<loopVars, netVars, callVars, chainVars, histVars>>
    PROVE  Inv'
<1>1. st' \in [Task -> Stage] /\ \A x \in Task : StartsOrFails(x)
  BY DEF Inv, Shape, Stage, StartsOrFails
<1>2. Waiters'
  BY DEF Inv, Waiters, Shape, loopVars
<1> QED  BY <1>1, <1>2, StartsAndFailures DEF Inv, loopVars, Shape

LEMMA StartAccessKeeps == ASSUME Inv, NEW t \in Task, StartAccess(t) PROVE Inv'
  BY LookUpKeeps, RefusedKeeps DEF StartAccess, Received

LEMMA StartNameLookupKeeps == ASSUME Inv, NEW t \in Task, StartNameLookup(t) PROVE Inv'
  BY LookUpKeeps, RefusedKeeps DEF StartNameLookup, Received

LEMMA StartSpawnKeeps == ASSUME Inv, NEW t \in Task, StartSpawn(t) PROVE Inv'
<1>1. CASE st' = [st EXCEPT ![t] = "failed"] /\ UNCHANGED loopVars
  BY <1>1, RefusedKeeps DEF StartSpawn, Received
<1>2. CASE \E keys : LookUp(t, "status", keys) /\ st' = [st EXCEPT ![t] = "statuses"]
  <2>1. st' \in [Task -> Stage] /\ \A x \in Task : StartsOrFails(x)
    BY <1>2 DEF Inv, Shape, Stage, StartsOrFails, StartSpawn, Received
  <2>2. outbox' = outbox
    BY <1>2 DEF LookUp
  <2>3. Waiters'
    BY <1>2, CallsDiffer DEF Inv, Waiters, Shape, LookUp, StartSpawn, Received
  <2> QED  BY <2>1, <2>2, <2>3, StartsAndFailures DEF Inv, Shape, StartSpawn
<1> QED  BY <1>1, <1>2 DEF StartSpawn

\* The waiters that a found record answers wait for that very key.
LEMMA QueryFoundKeeps == ASSUME Inv, NEW q, QueryFound(q) PROVE Inv'
<1> USE DEF Inv, netVars, chainVars, histVars
<1> DEFINE ws == Displaced(q.at, Classify(q.key), {q.key})
<1>1. \A p \in ws : p \in pending /\ p.key = q.key /\ p.key \in dht
  BY DEF Displaced, QueryFound
<1>2. /\ pending' = pending \ ws
      /\ st' = [t \in Task |->
                  IF \E p \in ws : p.task = t /\ t \in Accesses THEN "found"
                  ELSE IF \E p \in ws : p.task = t /\ t \in NameLookups THEN "done"
                  ELSE st[t]]
      /\ UNCHANGED <<outbox, netVars, chosen, answers, chainVars, histVars>>
  BY DEF QueryFound, RemoveSenders
<1>3. \A p1 \in ws : \A p2 \in pending : p1.kind = p2.kind /\ p1.task = p2.task => p2 \in ws
               \/ p2.kind = "status"
  BY DEF Displaced, Waiters
<1> HIDE DEF ws
<1>4. \A t \in Accesses : st'[t] = st[t]
         \/ /\ st[t] = "lookup" /\ st'[t] = "found"
            /\ ReverieKey(Call[t].reverie) \in dht
  BY <1>1, <1>2, CallsDiffer DEF Waiters
<1>5. \A t \in Spawns : st'[t] = st[t]
  BY <1>2, CallsDiffer
<1>6. Shape'
  BY <1>2 DEF Shape, Stage, IsMsg, IsAnswer
<1>7. Waiters'
  <2> SUFFICES ASSUME NEW p \in pending', p.kind # "status" PROVE st'[p.task] = st[p.task]
    BY <1>2 DEF Waiters
  <2>1. p \in pending /\ p \notin ws /\ p.task \in Task
    BY <1>2, CallsDiffer DEF Waiters, NameLookups
  <2>2. \A w \in ws : w.task = p.task => w.kind = p.kind \/ w.kind = "status"
    BY <1>1, <2>1, CallsDiffer DEF Waiters
  <2>3. \A w \in ws : w.task # p.task
    BY <1>1, <1>3, <2>1, <2>2, CallsDiffer DEF Waiters
  <2> QED  BY <1>2, <2>1, <2>3
<1>8. SharedIsRegistered' /\ BroadcastIsFinal'
  BY <1>2, <1>5 DEF SharedIsRegistered, ToBeShared, BroadcastIsFinal
<1>9. AccessedIsShared' /\ QuietBefore'
  BY <1>2, <1>4 DEF AccessedIsShared, QuietBefore
<1>10. FragmentsFunded' /\ SecretsNeedDeposit'
  BY <1>2, <1>4 DEF FragmentsFunded, PaysHere, Covers, SecretsNeedDeposit
<1> QED  BY <1>6, <1>7, <1>8, <1>9, <1>10

\* The spawn ends as its broadcast begins.
LEMMA BroadcastKeeps ==
    ASSUME Inv, NEW t \in Task, BroadcastReverieKeyfrags(t) PROVE Inv'
<1> USE DEF Inv, netVars, callVars, chainVars, histVars, BroadcastReverieKeyfrags
<1>1. t \in Spawns /\ Call[t].total + 1 \in Nat
  BY CallAssumption
<1>2. /\ st' \in [Task -> Stage] /\ outbox' \in [Spawns -> Nat]
      /\ \A x \in Task : x # t => st'[x] = st[x]
      /\ \A r \in Spawns : r # t => outbox'[r] = outbox[r]
      /\ st'[t] = "done" \/ outbox'[t] = outbox[t]
  BY <1>1 DEF Shape, Stage
<1>3. Shape' /\ Waiters'
  BY <1>1, <1>2, CallsDiffer DEF Shape, IsMsg, IsAnswer, Waiters
<1>4. SharedIsRegistered' /\ BroadcastIsFinal'
  BY <1>1, <1>2, CallsDiffer DEF SharedIsRegistered, ToBeShared, BroadcastIsFinal
<1>5. AccessedIsShared' /\ QuietBefore' /\ FragmentsFunded' /\ SecretsNeedDeposit'
  BY <1>1, <1>2, CallsDiffer
     DEF AccessedIsShared, QuietBefore, FragmentsFunded, PaysHere, Covers, SecretsNeedDeposit
<1> QED  BY <1>3, <1>4, <1>5

\* What was deposited when the fragments are asked for is remembered.
LEMMA RequestCfragsKeeps == ASSUME Inv, NEW t \in Task, RequestCfrags(t) PROVE Inv'
<1> USE DEF Inv, loopVars, callVars, chainVars, RequestCfrags
<1>1. t \in Accesses /\ st[t] = "found"
  OBVIOUS
<1>2. \A m \in msgs' : m \in msgs \/ (IsMsg(m) /\ m.type = "get")
  BY DEF IsMsg
<1>3. /\ funded' \in [Accesses -> BOOLEAN]
      /\ \A x \in Accesses : x # t => funded'[x] = funded[x]
      /\ st'[t] = "requesting" => (Covers(t, balance) => funded'[t])
      /\ st' \in [Task -> Stage] /\ \A x \in Task : x # t => st'[x] = st[x]
      /\ st'[t] \in {"failed", "requesting"}
  BY <1>1 DEF Shape, Stage, Covers
<1>4. Shape' /\ Waiters'
  BY <1>1, <1>2, <1>3, CallsDiffer DEF Shape, IsAnswer, Waiters
<1>5. SharedIsRegistered' /\ BroadcastIsFinal'
  BY <1>1, <1>2, <1>3, CallsDiffer DEF SharedIsRegistered, ToBeShared, BroadcastIsFinal
<1>6. AccessedIsShared'
  BY <1>1, <1>3, CallsDiffer DEF AccessedIsShared
<1>7. QuietBefore'
  <2>1. \A x \in Accesses : x # t => \A m \in msgs' : m.task = x => m \in msgs
    OBVIOUS
  <2> QED  BY <1>1, <1>3, <2>1, CallsDiffer DEF QuietBefore
<1>8. FragmentsFunded'
  <2>1. \A m \in msgs' : m.type = "cfrag" => m \in msgs
    BY <1>2
  <2>2. Covers(t, balance') => Covers(t, balance)
    BY DEF Covers
  <2> QED  BY <1>1, <1>3, <2>1, <2>2, CallsDiffer
           DEF FragmentsFunded, QuietBefore, PaysHere, Covers
<1>9. SecretsNeedDeposit'
  BY <1>1, <1>3, CallsDiffer DEF SecretsNeedDeposit
<1> QED  BY <1>4, <1>5, <1>6, <1>7, <1>8, <1>9

\* An access needs an answer, and every answer was funded.
LEMMA FinishAccessKeeps == ASSUME Inv, NEW t \in Task, FinishAccess(t) PROVE Inv'
<1> USE DEF Inv, loopVars, netVars, callVars, chainVars, histVars
<1>0. /\ t \in Accesses /\ st[t] = "requesting" /\ st \in [Task -> Stage]
      /\ \/ st' = [st EXCEPT ![t] = "failed"]
         \/ st' = [st EXCEPT ![t] = "done"] /\ Decrypts(t)
      /\ UNCHANGED <<loopVars, netVars, callVars, chainVars, histVars>>
  BY DEF Shape, FinishAccess
<1>1. /\ st' \in [Task -> Stage] /\ \A x \in Task : x # t => st'[x] = st[x]
      /\ st'[t] = "failed" \/ (st'[t] = "done" /\ Decrypts(t))
  BY <1>0 DEF Stage
<1>2. Shape' /\ Waiters'
  BY <1>0, <1>1, CallsDiffer DEF Shape, IsMsg, IsAnswer, Waiters
<1>3. SharedIsRegistered' /\ BroadcastIsFinal'
  BY <1>0, <1>1, CallsDiffer DEF SharedIsRegistered, ToBeShared, BroadcastIsFinal
<1>4. AccessedIsShared' /\ QuietBefore' /\ FragmentsFunded'
  BY <1>0, <1>1, CallsDiffer
     DEF AccessedIsShared, QuietBefore, FragmentsFunded, PaysHere, Covers
<1>5. Decrypts(t) => answers[t].ok # {}
  <2>1. Call[Call[t].reverie].threshold \in Nat \ {0}
    BY <1>0, CallAssumption
  <2>2. Cardinality({}) = 0
    BY FS_EmptySet
  <2> QED  BY <2>1, <2>2 DEF Decrypts
<1>6. SecretsNeedDeposit'
  BY <1>0, <1>1, <1>5, CallsDiffer
     DEF SecretsNeedDeposit, FragmentsFunded, PaysHere, Decrypts
<1> QED  BY <1>2, <1>3, <1>4, <1>6

\* Every deposit while a call asks is remembered; none is forgotten.
LEMMA SetBalanceKeeps == ASSUME Inv, NEW r, NEW who, NEW b, SetBalance(r, who, b) PROVE Inv'
<1> USE DEF Inv, loopVars, netVars, callVars, histVars, SetBalance
<1>1. /\ funded' \in [Accesses -> BOOLEAN]
      /\ \A t \in Accesses : funded[t] => funded'[t]
      /\ \A t \in Accesses : st[t] = "requesting" /\ Covers(t, balance') => funded'[t]
  BY DEF Shape, Asking
<1>2. Shape' /\ Waiters'
  BY <1>1 DEF Shape, IsMsg, IsAnswer, Waiters
<1>3. SharedIsRegistered' /\ BroadcastIsFinal' /\ AccessedIsShared' /\ QuietBefore'
  BY DEF SharedIsRegistered, ToBeShared, BroadcastIsFinal, AccessedIsShared, QuietBefore
<1>4. FragmentsFunded'
  <2>1. \A t : Covers(t, balance)' <=> Covers(t, balance')
    BY DEF Covers
  <2> QED  BY <1>1, <2>1 DEF FragmentsFunded, PaysHere
<1>5. SecretsNeedDeposit'
  BY <1>1 DEF SecretsNeedDeposit
<1> QED  BY <1>2, <1>3, <1>4, <1>5

\* A fragment that is saved was on its way.
LEMMA SaveFragmentKeeps == ASSUME Inv, NEW m, SaveFragment(m) PROVE Inv'
<1> USE DEF Inv, loopVars, callVars, chainVars, histVars, SaveFragment
<1>1. /\ cfrags' = [n \in Node |-> cfrags'[n]] /\ msgs' \subseteq msgs
      /\ \A n \in Node : \A r \in cfrags'[n] :
            r \in cfrags[n] \/ (r = m.task /\ m.type = "save")
  BY DEF Shape
<1>2. Shape' /\ Waiters'
  BY <1>1 DEF Shape, IsMsg, IsAnswer, Waiters
<1>3. SharedIsRegistered' /\ BroadcastIsFinal'
  BY <1>1 DEF SharedIsRegistered, ToBeShared, BroadcastIsFinal
<1>4. AccessedIsShared' /\ QuietBefore' /\ FragmentsFunded' /\ SecretsNeedDeposit'
  BY <1>1 DEF AccessedIsShared, QuietBefore, FragmentsFunded, PaysHere, Covers,
              SecretsNeedDeposit
<1> QED  BY <1>2, <1>3, <1>4

\* A provider gives a fragment only under a deposit that covers the key.
LEMMA GetFragmentKeeps == ASSUME Inv, NEW m, GetFragment(m) PROVE Inv'
<1> USE DEF Inv, loopVars, callVars, chainVars, histVars, GetFragment
<1> DEFINE c == [m EXCEPT !.type = "cfrag"]
<1>1. IsMsg(c) /\ c.type = "cfrag" /\ c.task = m.task /\ m.type = "get" /\ m \in msgs
  <2>1. PICK ty, ta, pe : m = [type |-> ty, task |-> ta, peer |-> pe]
    BY DEF Shape, IsMsg
  <2>2. c = [type |-> "cfrag", task |-> ta, peer |-> pe]
    BY <2>1
  <2>3. m.type = "get" /\ m \in msgs
    OBVIOUS
  <2> HIDE DEF c
  <2>4. IsMsg(c)
    BY <2>2 DEF IsMsg
  <2> QED  BY <2>1, <2>2, <2>3, <2>4
<1>2. \A x \in msgs' : x \in msgs \/ x = c
  OBVIOUS
<1> HIDE DEF c
<1>3. Shape' /\ Waiters'
  BY <1>1, <1>2 DEF Shape, IsAnswer, Waiters
<1>4. SharedIsRegistered' /\ BroadcastIsFinal'
  BY <1>1, <1>2 DEF SharedIsRegistered, ToBeShared, BroadcastIsFinal
<1>5. AccessedIsShared' /\ QuietBefore' /\ SecretsNeedDeposit'
  BY <1>1, <1>2 DEF AccessedIsShared, QuietBefore, SecretsNeedDeposit
<1>6. PaysHere(m.task) => Covers(m.task, balance)
  BY DEF Grants, CanSpend, PaysHere, Covers
<1>7. FragmentsFunded'
  BY <1>1, <1>2, <1>6 DEF FragmentsFunded, PaysHere, Covers
<1> QED  BY <1>3, <1>4, <1>5, <1>7

\* An answer was a fragment on its way.
LEMMA ReceiveFragmentKeeps == ASSUME Inv, NEW m, ReceiveFragment(m) PROVE Inv'
<1> USE DEF Inv, loopVars, chainVars, histVars, ReceiveFragment
<1>1. /\ answers' = [t \in Accesses |-> answers'[t]] /\ msgs' \subseteq msgs
      /\ m \in msgs /\ m.type = "cfrag"
      /\ \A t \in Accesses : IsAnswer(answers'[t])
      /\ \A t \in Accesses : t # m.task => answers'[t] = answers[t]
  <2>1. answers' = [t \in Accesses |->
                     IF t = m.task THEN [answers[t] EXCEPT !.ok = @ \cup {m.peer}]
                     ELSE answers[t]]
    BY DEF Shape
  <2>2. \A t \in Accesses : IsAnswer(answers[t])
    BY DEF Shape
  <2>3. ASSUME NEW t \in Accesses
        PROVE  IsAnswer(answers'[t]) /\ (t # m.task => answers'[t] = answers[t])
    <3>1. CASE t = m.task
      <4>1. PICK ok, err : answers[t] = [ok |-> ok, err |-> err]
        BY <2>2 DEF IsAnswer
      <4>2. answers'[t] = [ok |-> ok \cup {m.peer}, err |-> err]
        BY <2>1, <3>1, <4>1
      <4> QED  BY <3>1, <4>1, <4>2 DEF IsAnswer
    <3>2. CASE t # m.task
      BY <2>1, <2>2, <3>2
    <3> QED  BY <3>1, <3>2
  <2> QED  BY <2>1, <2>3
<1>2. Shape' /\ Waiters'
  BY <1>1 DEF Shape, IsMsg, Waiters
<1>3. SharedIsRegistered' /\ BroadcastIsFinal'
  BY <1>1 DEF SharedIsRegistered, ToBeShared, BroadcastIsFinal
<1>4. AccessedIsShared' /\ QuietBefore' /\ FragmentsFunded' /\ SecretsNeedDeposit'
  BY <1>1 DEF AccessedIsShared, QuietBefore, FragmentsFunded, PaysHere, Covers,
              SecretsNeedDeposit
<1> QED  BY <1>2, <1>3, <1>4

\* A failure adds no fragment.
LEMMA OutboundFailureKeeps == ASSUME Inv, NEW m, OutboundFailure(m) PROVE Inv'
<1> USE DEF Inv, loopVars, chainVars, histVars, OutboundFailure
<1>1. /\ answers' = [t \in Accesses |-> answers'[t]] /\ msgs' \subseteq msgs
      /\ \A t \in Accesses : IsAnswer(answers'[t]) /\ answers'[t].ok = answers[t].ok
  <2>1. answers' = [t \in Accesses |->
                     IF t = m.task THEN [answers[t] EXCEPT !.err = @ \cup {m.peer}]
                     ELSE answers[t]]
    BY DEF Shape
  <2>2. \A t \in Accesses : IsAnswer(answers[t])
    BY DEF Shape
  <2>3. ASSUME NEW t \in Accesses
        PROVE  IsAnswer(answers'[t]) /\ answers'[t].ok = answers[t].ok
    <3>1. CASE t = m.task
      <4>1. PICK ok, err : answers[t] = [ok |-> ok, err |-> err]
        BY <2>2 DEF IsAnswer
      <4>2. answers'[t] = [ok |-> ok, err |-> err \cup {m.peer}]
        BY <2>1, <3>1, <4>1
      <4>3. IsAnswer(answers'[t])
        BY <4>2 DEF IsAnswer
      <4> QED  BY <4>1, <4>2, <4>3
    <3>2. CASE t # m.task
      BY <2>1, <2>2, <3>2
    <3> QED  BY <3>1, <3>2
  <2> QED  BY <2>1, <2>3
<1>2. Shape' /\ Waiters'
  BY <1>1 DEF Shape, IsMsg, Waiters
<1>3. SharedIsRegistered' /\ BroadcastIsFinal'
  BY <1>1 DEF SharedIsRegistered, ToBeShared, BroadcastIsFinal
<1>4. AccessedIsShared' /\ QuietBefore' /\ FragmentsFunded' /\ SecretsNeedDeposit'
  BY <1>1 DEF AccessedIsShared, QuietBefore, FragmentsFunded, PaysHere, Covers,
              SecretsNeedDeposit
<1> QED  BY <1>2, <1>3, <1>4

-----------------------------------------------------------------------------
(* The theorems.                                                           *)

LEMMA StutterKeeps == ASSUME Inv, UNCHANGED vars PROVE Inv'
<1> USE DEF Inv, vars, loopVars, netVars, callVars, chainVars, histVars
<1>1. Shape' /\ Waiters'
  BY DEF Shape, IsMsg, IsAnswer, Waiters
<1>2. SharedIsRegistered' /\ BroadcastIsFinal' /\ AccessedIsShared' /\ QuietBefore'
  BY DEF SharedIsRegistered, ToBeShared, BroadcastIsFinal, AccessedIsShared, QuietBefore
<1>3. FragmentsFunded' /\ SecretsNeedDeposit'
  BY DEF FragmentsFunded, PaysHere, Covers, SecretsNeedDeposit
<1> QED  BY <1>1, <1>2, <1>3

LEMMA InvStep == Inv /\ [Next]_vars => Inv'
<1> SUFFICES ASSUME Inv, [Next]_vars PROVE Inv'  OBVIOUS
<1>1. ASSUME NEW n \in Node, PublishStatus(n) \/ LoopCrashes(n) PROVE Inv'
  BY <1>1, PublishStatusKeeps, LoopCrashesKeeps
<1>2. ASSUME NEW q \in queries, QueryFound(q) \/ QueryMisses(q) PROVE Inv'
  BY <1>2, QueryFoundKeeps, QueryMissesKeeps
<1>3. ASSUME NEW t \in Task,
             \/ StartSpawn(t) \/ StatusesDone(t) \/ FetchNonce(t) \/ SendTransaction(t)
             \/ BroadcastReverieKeyfrags(t)
      PROVE  Inv'
  BY <1>3, StartSpawnKeeps, StatusesDoneKeeps, FetchNonceKeeps, SendTransactionKeeps,
     BroadcastKeeps
<1>4. ASSUME NEW t \in Task,
             \/ StartAccess(t) \/ RequestCfrags(t) \/ FinishAccess(t)
             \/ SaveAgentName(t) \/ StartNameLookup(t)
      PROVE  Inv'
  BY <1>4, StartAccessKeeps, RequestCfragsKeeps, FinishAccessKeeps, SaveAgentNameKeeps,
     StartNameLookupKeeps
<1>5. ASSUME NEW r \in Spawns,
             HandleBroadcast(r) \/ \E who \in Account : Deposit(r, who) \/ Withdraw(r, who)
      PROVE  Inv'
  BY <1>5, HandleBroadcastKeeps, SetBalanceKeeps DEF Deposit, Withdraw
<1>6. ASSUME NEW m \in msgs,
             \/ SaveFragment(m) \/ SaveLost(m)
             \/ GetFragment(m) \/ GetFragmentFails(m)
             \/ ReceiveFragment(m) \/ OutboundFailure(m)
      PROVE  Inv'
  BY <1>6, SaveFragmentKeeps, SaveLostKeeps, GetFragmentKeeps, GetFragmentFailsKeeps,
     ReceiveFragmentKeeps, OutboundFailureKeeps
<1>7. CASE UNCHANGED vars
  BY <1>7, StutterKeeps
<1> QED  BY <1>1, <1>2, <1>3, <1>4, <1>5, <1>6, <1>7 DEF Next

LEMMA InvAlways == Spec => []Inv
  BY InvInit, InvStep, PTL DEF Spec

\* However transactions end, however many calls spawn reveries at once and
\* whatever fails, no part of a paid reverie leaves its node before the
\* contract knows the reverie (spawn_memory_reverie, NearRuntime::create_reverie).
THEOREM PaidMemoriesRegistered == Spec => []RegisteredBeforeShared
<1>1. Inv => RegisteredBeforeShared
  BY DEF Inv, SharedIsRegistered, ToBeShared, RegisteredBeforeShared
<1> QED  BY <1>1, InvAlways, PTL

\* Whatever is deposited and withdrawn meanwhile, an access that succeeds ran on
\* the target of its reverie and, if its key is a payment on the contract the
\* reveries are registered on, the account in the key had deposited the amount in
\* the key, for that reverie, after the fragments were asked for
\* (GetFragmentRequest, decrypt_cfrags).  A key for another contract is taken on
\* that contract's word: of it only the target is claimed.
THEOREM PaidMemoriesFunded == Spec => []SecretsNeedDeposit
<1>1. Inv => SecretsNeedDeposit
  BY DEF Inv
<1> QED  BY <1>1, InvAlways, PTL

-----------------------------------------------------------------------------
(* Types, and that no vessel answers a spawn twice.                        *)

IsChosen(x) == x \in [target : Node, providers : Seq(Node)]

Typed ==
    /\ loop \in [Node -> {"running", "dead"}]
    /\ cfrags \in [Node -> SUBSET Spawns]
    /\ got \in [Spawns -> Seq(Node)]
    /\ nonce \in [Spawns -> Nat] /\ chainNonce \in Nat
    /\ answers \in [Accesses -> [ok : SUBSET Node, err : SUBSET Node]]
    /\ onChain \subseteq Spawns
    /\ balance \in [Spawns \X Account -> 0..MaxDeposit]

\* The loop of a waiter runs, and a waiter for a status waits for that of a
\* node that has not answered its call yet.
WaitersOpen ==
    \A p \in pending :
        /\ loop[p.at] = "running"
        /\ p.kind = "status" =>
              /\ st[p.task] = "statuses"
              /\ \E n \in Node : /\ p.key = StatusKey(n)
                                /\ \A i \in DOMAIN got[p.task] : got[p.task][i] # n

QueriesHome == \A q \in queries : q.at = At(q.task)

UnaskedBefore == \A t \in Spawns : st[t] = "idle" => got[t] = <<>>

\* Fragments go to nodes for reveries, and requests for them are accesses'.
MsgsAddressed ==
    \A m \in msgs :
        /\ m.peer \in Node
        /\ \/ m.type = "save" /\ m.task \in Spawns
           \/ m.type \in {"get", "cfrag"} /\ m.task \in Accesses

\* A spawn that has come past its statuses has chosen, and one that broadcasts
\* has a provider for every fragment.
ChosenEnough ==
    \A r \in Spawns :
        /\ chosen[r] = None \/ IsChosen(chosen[r])
        /\ st[r] \in {"unregistered", "signing", "registered", "done"} => IsChosen(chosen[r])
        /\ st[r] = "done" => /\ Call[r].total <= Len(chosen[r].providers)
                             /\ outbox[r] <= Call[r].total + 1

More == /\ Typed /\ WaitersOpen /\ QueriesHome /\ UnaskedBefore /\ VesselsDistinct
        /\ MsgsAddressed /\ ChosenEnough

LEMMA MoreInit == Init => More
<1> SUFFICES ASSUME Init PROVE More  OBVIOUS
<1>1. Typed
  BY DepositAssumption DEF Init, Typed
<1>2. UnaskedBefore /\ VesselsDistinct
  BY DEF Init, UnaskedBefore, VesselsDistinct
<1>3. ChosenEnough
  BY CallsDiffer DEF Init, ChosenEnough
<1> QED
  BY <1>1, <1>2, <1>3 DEF Init, More, WaitersOpen, QueriesHome, MsgsAddressed

\* Calls that start or fail choose nothing and send nothing.
LEMMA StartsTyped ==
    ASSUME Inv, More, \A x \in Task : StartsOrFails(x),
           loop' \in [Node -> {"running", "dead"}],
           \A r \in Spawns : outbox'[r] = outbox[r] \/ outbox'[r] = 0,
           UNCHANGED <<netVars, callVars, chainVars, histVars>>
    PROVE  Typed' /\ UnaskedBefore' /\ VesselsDistinct' /\ MsgsAddressed' /\ ChosenEnough'
<1> USE DEF netVars, callVars, chainVars
<1>1. Typed' /\ VesselsDistinct' /\ MsgsAddressed'
  BY DEF More, Typed, VesselsDistinct, MsgsAddressed
<1>2. UnaskedBefore'
  BY CallsDiffer DEF More, UnaskedBefore, StartsOrFails
<1>3. \A r \in Spawns : st'[r] \in {"unregistered", "signing", "registered", "done"}
         => st'[r] = st[r]
  BY CallsDiffer DEF StartsOrFails
<1>4. \A r \in Spawns : Call[r].total \in Nat
  BY CallAssumption
<1>5. ChosenEnough'
  BY <1>3, <1>4 DEF More, ChosenEnough, IsChosen
<1> QED  BY <1>1, <1>2, <1>5

\* The waiters that a dead loop leaves are other loops'.
LEMMA LoopDiesTyped ==
    ASSUME Inv, More, NEW n, LoopDies(n), UNCHANGED <<netVars, callVars, chainVars, histVars>>
    PROVE  More'
<1> DEFINE ws == pending \ pending'
<1>0. ws \in SUBSET pending  OBVIOUS
<1>1. st' = [x \in Task |-> IF At(x) = n /\ st[x] = "requesting" THEN "failed"
                            ELSE StWithout(ws, st)[x]]
  BY DEF LoopDies
<1>2. \A x \in Task : StWithout(ws, st)[x] # st[x] =>
            st[x] = "lookup" /\ StWithout(ws, st)[x] = "failed"
  BY <1>0, DisplacedWait
<1>3. \A w \in ws : w.at = n /\ w.at = At(w.task)
  BY DEF Inv, Waiters, LoopDies
<1> HIDE DEF ws
<1>4. \A x \in Task : StartsOrFails(x)
  BY <1>1, <1>2 DEF StartsOrFails
<1>5. \A r \in Spawns : outbox'[r] = outbox[r] \/ outbox'[r] = 0
  BY DEF LoopDies
<1>6. loop' \in [Node -> {"running", "dead"}]
  BY DEF LoopDies, More, Typed
<1>7. QueriesHome'
  BY DEF LoopDies, More, QueriesHome
<1>8. WaitersOpen'
  <2>0. pending' \subseteq pending /\ got' = got
    BY DEF LoopDies, callVars
  <2> SUFFICES ASSUME NEW p \in pending'
               PROVE  /\ loop'[p.at] = loop[p.at]
                      /\ p.kind = "status" => st'[p.task] = st[p.task]
    BY <2>0 DEF WaitersOpen, More
  <2>1. p \in pending /\ p.at # n /\ p.at = At(p.task)
    BY DEF LoopDies, Inv, Waiters
  <2>2. loop'[p.at] = loop[p.at]
    BY <2>1 DEF LoopDies, More, Typed
  <2>3. ASSUME p.kind = "status" PROVE st'[p.task] = st[p.task]
    <3>1. p.task \in Task /\ st[p.task] = "statuses"
      BY <2>1, <2>3, CallsDiffer DEF Inv, Waiters, More, WaitersOpen
    <3> QED  BY <1>1, <1>2, <3>1
  <2> QED  BY <2>2, <2>3
<1> QED  BY <1>4, <1>5, <1>6, <1>7, <1>8, StartsTyped DEF More

\* A lookup of one key, of a kind other than a status.
LEMMA LookUpTyped ==
    ASSUME Inv, More, NEW t \in Task, st[t] = "idle", NEW kind, NEW key,
           LookUp(t, kind, {key}), loop[At(t)] = "running",
           st' = [StWithout(Displaced(At(t), kind, {key}), st) EXCEPT ![t] = "lookup"],
           kind # "status", t \notin Spawns,
           UNCHANGED <<netVars, callVars, chainVars, histVars>>
    PROVE  More'
<1> DEFINE ws == Displaced(At(t), kind, {key})
<1>0. ws \in SUBSET pending  BY DEF Displaced
<1>1. st' = [StWithout(ws, st) EXCEPT ![t] = "lookup"]  OBVIOUS
<1>2. /\ StWithout(ws, st) \in [Task -> Stage]
      /\ \A x \in Task : StWithout(ws, st)[x] # st[x] =>
            st[x] = "lookup" /\ StWithout(ws, st)[x] = "failed"
  BY <1>0, DisplacedWait
<1>3. pending' \subseteq pending \cup [at : {At(t)}, kind : {kind}, key : {key}, task : {t}]
  BY DEF LookUp
<1>4. QueriesHome'
  <2>1. \A q \in [at : {At(t)}, key : {key}, task : {t}] : q.at = At(q.task)
    OBVIOUS
  <2> QED  BY <2>1 DEF LookUp, More, QueriesHome
<1> HIDE DEF ws
<1>5. \A x \in Task : StartsOrFails(x)
  BY <1>1, <1>2 DEF StartsOrFails
<1>6. WaitersOpen'
  <2>1. ASSUME NEW p \in [at : {At(t)}, kind : {kind}, key : {key}, task : {t}]
        PROVE  p.at = At(t) /\ p.kind = kind
    OBVIOUS
  <2>2. ASSUME NEW p \in pending, p.kind = "status"
        PROVE  st'[p.task] = st[p.task]
    <3>1. p.task \in Task /\ p.task # t /\ st[p.task] = "statuses"
      BY <2>2, CallsDiffer DEF Inv, Waiters, More, WaitersOpen
    <3> QED  BY <1>1, <1>2, <3>1
  <2>3. loop' = loop /\ got' = got
    BY DEF LookUp, callVars
  <2> QED  BY <1>3, <2>1, <2>2, <2>3 DEF WaitersOpen, More
<1>7. \A r \in Spawns : outbox'[r] = outbox[r] \/ outbox'[r] = 0
  BY DEF LookUp
<1>8. loop' \in [Node -> {"running", "dead"}]
  BY DEF LookUp, More, Typed
<1> QED  BY <1>4, <1>5, <1>6, <1>7, <1>8, StartsTyped DEF More

\* A call that is refused starts nothing.
LEMMA RefusedTyped ==
    ASSUME Inv, More, NEW t \in Task, st[t] = "idle", st' = [st EXCEPT ![t] = "failed"],
           UNCHANGED <<loopVars, netVars, callVars, chainVars, histVars>>
    PROVE  More'
<1>1. \A x \in Task : StartsOrFails(x)
  BY DEF Inv, Shape, StartsOrFails
<1>2. WaitersOpen' /\ QueriesHome'
  BY CallsDiffer DEF Inv, Shape, Waiters, More, WaitersOpen, QueriesHome, loopVars, callVars
<1>3. loop' \in [Node -> {"running", "dead"}] /\ outbox' = outbox
  BY DEF loopVars, More, Typed
<1> QED  BY <1>1, <1>2, <1>3, StartsTyped DEF More

LEMMA StartAccessTyped == ASSUME Inv, More, NEW t \in Task, StartAccess(t) PROVE More'
  BY LookUpTyped, RefusedTyped, CallsDiffer DEF StartAccess, Received

LEMMA StartNameLookupTyped == ASSUME Inv, More, NEW t \in Task, StartNameLookup(t) PROVE More'
  BY LookUpTyped, RefusedTyped, CallsDiffer DEF StartNameLookup, Received

\* A spawn asks its peers, none of which has answered it before.
LEMMA StartSpawnTyped == ASSUME Inv, More, NEW t \in Task, StartSpawn(t) PROVE More'
<1>0. t \in Spawns /\ st[t] = "idle"
  BY DEF StartSpawn, Received
<1>1. CASE st' = [st EXCEPT ![t] = "failed"] /\ UNCHANGED loopVars
  BY <1>0, <1>1, RefusedTyped DEF StartSpawn
<1>2. CASE /\ loop[At(t)] = "running"
           /\ LookUp(t, "status", {StatusKey(p) : p \in Peers(At(t))})
           /\ st' = [st EXCEPT ![t] = "statuses"]
  <2> DEFINE keys == {StatusKey(p) : p \in Peers(At(t))}
             new  == [at : {At(t)}, kind : {"status"}, key : keys, task : {t}]
  <2>1. At(t) \in Node /\ \A k \in keys : \E n \in Node : k = StatusKey(n)
    BY CallAssumption, ConnectedAssumption DEF Peers
  <2>2. pending' \subseteq pending \cup new
    BY <1>2 DEF LookUp
  <2>3. queries' = queries \cup [at : {At(t)}, key : keys, task : {t}]
    BY <1>2 DEF LookUp
  <2> HIDE DEF keys
  <2>4. \A p \in new : p.at = At(t) /\ p.key \in keys /\ p.task = t
    OBVIOUS
  <2>5. \A q \in [at : {At(t)}, key : keys, task : {t}] : q.at = At(q.task)
    OBVIOUS
  <2>6. QueriesHome'
    BY <2>3, <2>5 DEF More, QueriesHome
  <2> HIDE DEF new
  <2>7. got' = got /\ got[t] = <<>> /\ loop' = loop
    BY <1>0, <1>2 DEF StartSpawn, LookUp, callVars, More, UnaskedBefore
  <2>8. st'[t] = "statuses" /\ \A x \in Task : x # t => st'[x] = st[x]
    BY <1>2 DEF Inv, Shape
  <2>9. WaitersOpen'
    <3>1. ASSUME NEW p \in new
          PROVE  /\ loop'[p.at] = "running" /\ st'[p.task] = "statuses"
                 /\ \E n \in Node : /\ p.key = StatusKey(n)
                                   /\ \A i \in DOMAIN got'[p.task] : got'[p.task][i] # n
      <4>1. PICK n \in Node : p.key = StatusKey(n)
        BY <2>1, <2>4
      <4>2. DOMAIN got'[p.task] = {}
        BY <2>4, <2>7
      <4> QED  BY <1>2, <2>4, <2>7, <2>8, <4>1, <4>2
    <3>2. ASSUME NEW p \in pending, p.kind = "status"
          PROVE  st'[p.task] = st[p.task]
      BY <1>0, <2>8, <3>2, CallsDiffer DEF Inv, Waiters, More, WaitersOpen
    <3> QED  BY <2>2, <2>7, <3>1, <3>2 DEF WaitersOpen, More
  <2>10. \A x \in Task : StartsOrFails(x)
    BY <1>0, <2>8 DEF StartsOrFails
  <2>11. loop' \in [Node -> {"running", "dead"}] /\ outbox' = outbox
    BY <1>2 DEF LookUp, More, Typed
  <2> QED  BY <2>6, <2>9, <2>10, <2>11, StartsTyped DEF More, StartSpawn
<1> QED  BY <1>1, <1>2 DEF StartSpawn

-----------------------------------------------------------------------------
(* A status that is found.                                                 *)

\* A node that is added to a list without it leaves the list without repetition.
LEMMA AppendDistinct ==
    ASSUME NEW s \in Seq(Node), NEW n \in Node,
           \A i \in DOMAIN s : s[i] # n,
           \A i, j \in DOMAIN s : s[i] = s[j] => i = j
    PROVE  LET a == Append(s, n)
           IN  /\ a \in Seq(Node)
               /\ \A i, j \in DOMAIN a : a[i] = a[j] => i = j
               /\ \A i \in DOMAIN a : a[i] = n \/ \E j \in DOMAIN s : a[i] = s[j]
  OBVIOUS

\* The spawns that a found status answers waited for that node, once.
LEMMA QueryFoundTyped == ASSUME Inv, More, NEW q, QueryFound(q) PROVE More'
<1> DEFINE ws == Displaced(q.at, Classify(q.key), {q.key})
           answered(t) == \E p \in ws : p.task = t
<1>1. \A p : p \in ws <=> /\ p \in pending /\ p.at = q.at
                          /\ p.kind = Classify(q.key) /\ p.key = q.key
  BY DEF Displaced
<1>2. /\ pending' = pending \ ws
      /\ got' = [t \in Spawns |->
                   IF answered(t) THEN Prospects(got[t], q.key[2]) ELSE got[t]]
      /\ st' = [t \in Task |->
                  IF \E p \in ws : p.task = t /\ t \in Accesses THEN "found"
                  ELSE IF \E p \in ws : p.task = t /\ t \in NameLookups THEN "done"
                  ELSE st[t]]
      /\ queries' \subseteq queries
      /\ UNCHANGED <<loop, outbox, netVars, chosen, nonce, answers, chainVars>>
  BY DEF QueryFound, RemoveSenders, histVars
<1> HIDE DEF ws
<1>3. \A t \in Spawns : st'[t] = st[t]
  BY <1>2, CallsDiffer
<1>4. ASSUME NEW t \in Spawns, answered(t)
      PROVE  /\ Classify(q.key) = "status" /\ q.at = At(t)
             /\ q.key[2] \in Node /\ q.key = StatusKey(q.key[2])
             /\ \A i \in DOMAIN got[t] : got[t][i] # q.key[2]
  <2>1. PICK p \in ws : p.task = t
    BY <1>4
  <2>2. p \in pending /\ p.at = q.at /\ p.kind = Classify(q.key) /\ p.key = q.key
    BY <1>1
  <2>3. p.kind = "status" /\ p.at = At(t)
    BY <2>1, <2>2, CallsDiffer DEF Inv, Waiters
  <2>4. PICK n \in Node : p.key = StatusKey(n) /\ \A i \in DOMAIN got[t] : got[t][i] # n
    BY <2>1, <2>2, <2>3 DEF More, WaitersOpen
  <2>5. StatusKey(n)[2] = n
    BY DEF StatusKey
  <2> QED  BY <2>2, <2>3, <2>4, <2>5
<1>5. ASSUME NEW t \in Spawns
      PROVE  /\ got'[t] \in Seq(Node)
             /\ \A i, j \in DOMAIN got'[t] : got'[t][i] = got'[t][j] => i = j
             /\ \A i \in DOMAIN got'[t] : \/ \E j \in DOMAIN got[t] : got'[t][i] = got[t][j]
                                          \/ answered(t) /\ got'[t][i] = q.key[2]
  <2>1. /\ got[t] \in Seq(Node)
        /\ \A i, j \in DOMAIN got[t] : got[t][i] = got[t][j] => i = j
    BY DEF More, Typed, VesselsDistinct
  <2>2. CASE got'[t] = got[t]
    BY <2>1, <2>2
  <2>3. CASE answered(t) /\ got'[t] = Append(got[t], q.key[2])
    BY <1>4, <2>1, <2>3, AppendDistinct
  <2> QED  BY <1>2, <2>2, <2>3 DEF Prospects
<1>6. Typed' /\ VesselsDistinct' /\ UnaskedBefore'
  <2>1. got' \in [Spawns -> Seq(Node)]
    BY <1>2, <1>5
  <2>2. Typed'
    BY <1>2, <2>1 DEF More, Typed, netVars, chainVars
  <2>3. \A t \in Spawns : st[t] = "idle" => got'[t] = <<>>
    <3> SUFFICES ASSUME NEW t \in Spawns, st[t] = "idle" PROVE ~answered(t)
      BY <1>2 DEF More, UnaskedBefore
    <3>1. \A p \in ws : p.task = t => p.kind = "status" /\ st[t] = "statuses"
      BY <1>1, CallsDiffer DEF Inv, Waiters, More, WaitersOpen
    <3> QED  BY <3>1
  <2> QED  BY <1>3, <1>5, <2>2, <2>3 DEF VesselsDistinct, UnaskedBefore
<1>7. WaitersOpen'
  <2> SUFFICES ASSUME NEW p \in pending', p.kind = "status"
               PROVE  /\ st'[p.task] = "statuses"
                      /\ \E n \in Node : /\ p.key = StatusKey(n)
                                        /\ \A i \in DOMAIN got'[p.task] : got'[p.task][i] # n
    BY <1>2 DEF More, WaitersOpen
  <2>1. p \in pending /\ p \notin ws
    BY <1>2
  <2>2. p.task \in Spawns /\ p.at = At(p.task) /\ st[p.task] = "statuses"
    BY <2>1, CallsDiffer DEF Inv, Waiters, More, WaitersOpen
  <2>3. PICK n \in Node : /\ p.key = StatusKey(n)
                          /\ \A i \in DOMAIN got[p.task] : got[p.task][i] # n
    BY <2>1 DEF More, WaitersOpen
  <2>4. answered(p.task) => n # q.key[2]
    BY <1>1, <1>4, <2>1, <2>2, <2>3
  <2> QED  BY <1>3, <1>5, <2>2, <2>3, <2>4
<1>8. QueriesHome' /\ MsgsAddressed'
  BY <1>2 DEF More, QueriesHome, MsgsAddressed, netVars
<1>9. ChosenEnough'
  BY <1>2, <1>3 DEF More, ChosenEnough, IsChosen
<1> QED  BY <1>6, <1>7, <1>8, <1>9 DEF More

-----------------------------------------------------------------------------
(* The other steps.  A call that waits for statuses or has broadcast is       *)
(* moved by no other call.                                                    *)

\* Steps that leave the loops, the messages and the chain alone.
LEMMA CallStepTyped ==
    ASSUME Inv, More, NEW t \in Task, \A x \in Task : x # t => st'[x] = st[x],
           st'[t] # "idle", \A p \in pending : p.task # t \/ p.kind # "status",
           UNCHANGED <<loopVars, msgs, cfrags, got, answers>>
    PROVE  /\ WaitersOpen' /\ QueriesHome' /\ UnaskedBefore' /\ VesselsDistinct'
           /\ MsgsAddressed'
<1>1. WaitersOpen'
  BY CallsDiffer DEF Inv, Waiters, More, WaitersOpen, loopVars
<1>2. UnaskedBefore'
  BY CallsDiffer DEF More, UnaskedBefore
<1>3. QueriesHome' /\ VesselsDistinct' /\ MsgsAddressed'
  BY DEF More, QueriesHome, VesselsDistinct, MsgsAddressed, loopVars
<1> QED  BY <1>1, <1>2, <1>3

\* The first of the vessels is a node, and so are the others.
LEMMA ChosenIsChosen ==
    ASSUME NEW s \in Seq(Node), ~NoTarget(s) PROVE IsChosen(ChosenFrom(s))
<1>1. s # <<>>
  BY DEF NoTarget
<1>2. Head(s) \in Node /\ Tail(s) \in Seq(Node)
  BY <1>1
<1> QED  BY <1>2 DEF IsChosen, ChosenFrom

LEMMA StatusesDoneTyped == ASSUME Inv, More, NEW t \in Task, StatusesDone(t) PROVE More'
<1>1. t \in Spawns /\ st[t] = "statuses" /\ got[t] \in Seq(Node)
  BY DEF StatusesDone, More, Typed
<1>2. /\ \A x \in Task : x # t => st'[x] = st[x]
      /\ st'[t] \in {"failed", "unregistered", "registered"}
      /\ \A p \in pending : p.task # t
      /\ \A r \in Spawns : r # t => chosen'[r] = chosen[r]
      /\ UNCHANGED <<loopVars, netVars, got, nonce, answers, chainVars>>
  BY DEF StatusesDone, Inv, Shape
<1>3. IF NoTarget(got[t]) THEN st'[t] = "failed" /\ chosen'[t] = chosen[t]
      ELSE chosen'[t] = ChosenFrom(got[t])
  BY <1>1 DEF StatusesDone, Inv, Shape
<1>4. \/ st'[t] = "failed" /\ chosen'[t] = chosen[t]
      \/ IsChosen(chosen'[t])
  BY <1>1, <1>3, ChosenIsChosen
<1>5. ChosenEnough'
  <2> SUFFICES ASSUME NEW r \in Spawns
               PROVE  /\ chosen'[r] = None \/ IsChosen(chosen'[r])
                      /\ st'[r] \in {"unregistered", "signing", "registered", "done"}
                            => IsChosen(chosen'[r])
                      /\ st'[r] = "done" => /\ Call[r].total <= Len(chosen'[r].providers)
                                            /\ outbox'[r] <= Call[r].total + 1
    BY DEF ChosenEnough, IsChosen
  <2>1. CASE r = t
    BY <1>2, <1>4, <2>1 DEF More, ChosenEnough
  <2>2. CASE r # t
    BY <1>2, <2>2, CallsDiffer DEF More, ChosenEnough, loopVars
  <2> QED  BY <2>1, <2>2
<1>6. Typed'
  BY <1>2 DEF More, Typed, loopVars, netVars, chainVars
<1>7. /\ WaitersOpen' /\ QueriesHome' /\ UnaskedBefore' /\ VesselsDistinct'
      /\ MsgsAddressed'
  BY <1>1, <1>2, CallStepTyped DEF netVars
<1> QED  BY <1>5, <1>6, <1>7 DEF More

\* A spawn goes on with what it has chosen.
LEMMA SpawnGoesOn ==
    ASSUME Inv, More, NEW t \in Spawns, st[t] \in {"unregistered", "signing", "registered"},
           \A x \in Task : x # t => st'[x] = st[x],
           st'[t] \in {"signing", "registered", "failed"},
           UNCHANGED <<loopVars, netVars, got, chosen, answers>>
    PROVE  /\ WaitersOpen' /\ QueriesHome' /\ UnaskedBefore' /\ VesselsDistinct'
           /\ MsgsAddressed' /\ ChosenEnough'
<1>1. t \in Task /\ \A p \in pending : p.task # t \/ p.kind # "status"
  BY CallsDiffer DEF More, WaitersOpen
<1>2. ChosenEnough'
  BY CallsDiffer DEF More, ChosenEnough, IsChosen, loopVars
<1> QED  BY <1>1, <1>2, CallStepTyped DEF netVars

LEMMA FetchNonceTyped == ASSUME Inv, More, NEW t \in Task, FetchNonce(t) PROVE More'
<1>1. /\ t \in Spawns /\ st[t] = "unregistered"
      /\ \A x \in Task : x # t => st'[x] = st[x]
      /\ st'[t] \in {"signing", "registered", "failed"}
      /\ UNCHANGED <<loopVars, netVars, got, chosen, answers>>
  BY DEF FetchNonce, Inv, Shape
<1>2. Typed'
  BY DEF FetchNonce, More, Typed, loopVars, netVars, chainVars
<1> QED  BY <1>1, <1>2, SpawnGoesOn DEF More

LEMMA SendTransactionTyped == ASSUME Inv, More, NEW t \in Task, SendTransaction(t) PROVE More'
<1>1. /\ t \in Spawns /\ st[t] = "signing"
      /\ \A x \in Task : x # t => st'[x] = st[x]
      /\ st'[t] \in {"signing", "registered", "failed"}
      /\ UNCHANGED <<loopVars, netVars, got, chosen, answers>>
  BY DEF SendTransaction, AfterTx, Inv, Shape, callVars
<1>2. Typed'
  BY <1>1 DEF SendTransaction, More, Typed, loopVars, netVars, callVars
<1> QED  BY <1>1, <1>2, SpawnGoesOn DEF More

\* There is a provider for every fragment when the broadcast begins.
LEMMA BroadcastTyped ==
    ASSUME Inv, More, NEW t \in Task, BroadcastReverieKeyfrags(t) PROVE More'
<1>1. /\ t \in Spawns /\ st[t] = "registered" /\ Call[t].total \in Nat
      /\ IsChosen(chosen[t])
  BY CallAssumption DEF BroadcastReverieKeyfrags, More, ChosenEnough
<1>2. Len(chosen[t].providers) \in Nat
  BY <1>1 DEF IsChosen
<1>3. /\ \A x \in Task : x # t => st'[x] = st[x]
      /\ \A r \in Spawns : r # t => outbox'[r] = outbox[r]
      /\ \/ st'[t] = "failed"
         \/ /\ st'[t] = "done" /\ outbox'[t] = Call[t].total + 1
            /\ ~(Len(chosen[t].providers) < Call[t].total)
      /\ UNCHANGED <<loop, pending, queries, netVars, callVars, chainVars>>
  BY <1>1 DEF BroadcastReverieKeyfrags, Inv, Shape
<1>4. \A p \in pending : p.task # t \/ p.kind # "status"
  BY <1>1 DEF More, WaitersOpen
<1>5. WaitersOpen' /\ QueriesHome'
  BY <1>3, <1>4, CallsDiffer DEF Inv, Waiters, More, WaitersOpen, QueriesHome, callVars
<1>6. UnaskedBefore' /\ VesselsDistinct' /\ MsgsAddressed' /\ Typed'
  BY <1>3, CallsDiffer
     DEF More, UnaskedBefore, VesselsDistinct, MsgsAddressed, Typed, netVars, callVars, chainVars
<1>7. ChosenEnough'
  <2> SUFFICES ASSUME NEW r \in Spawns
               PROVE  /\ chosen'[r] = None \/ IsChosen(chosen'[r])
                      /\ st'[r] \in {"unregistered", "signing", "registered", "done"}
                            => IsChosen(chosen'[r])
                      /\ st'[r] = "done" => /\ Call[r].total <= Len(chosen'[r].providers)
                                            /\ outbox'[r] <= Call[r].total + 1
    BY DEF ChosenEnough, IsChosen
  <2>1. CASE r = t
    BY <1>1, <1>2, <1>3, <2>1 DEF callVars
  <2>2. CASE r # t
    BY <1>3, <2>2, CallsDiffer DEF More, ChosenEnough, callVars
  <2> QED  BY <2>1, <2>2
<1> QED  BY <1>5, <1>6, <1>7 DEF More

\* Steps that move no call and no loop.
LEMMA NetStepTyped ==
    ASSUME Inv, More, Typed', MsgsAddressed',
           UNCHANGED <<loopVars, st, got, chosen>>
    PROVE  More'
<1>1. WaitersOpen' /\ QueriesHome' /\ UnaskedBefore' /\ VesselsDistinct'
  BY DEF More, WaitersOpen, QueriesHome, UnaskedBefore, VesselsDistinct, loopVars
<1>2. ChosenEnough'
  BY DEF More, ChosenEnough, IsChosen, loopVars
<1> QED  BY <1>1, <1>2 DEF More

LEMMA PublishStatusTyped == ASSUME Inv, More, NEW n, PublishStatus(n) PROVE More'
<1> USE DEF PublishStatus, loopVars, callVars, chainVars
<1>1. Typed' /\ MsgsAddressed'
  BY DEF More, Typed, MsgsAddressed
<1> QED  BY <1>1, NetStepTyped

LEMMA QueryMissesTyped == ASSUME Inv, More, NEW q, QueryMisses(q) PROVE More'
<1> USE DEF QueryMisses, netVars, callVars, chainVars
<1>1. Typed' /\ MsgsAddressed' /\ QueriesHome'
  BY DEF More, Typed, MsgsAddressed, QueriesHome
<1>2. WaitersOpen' /\ UnaskedBefore' /\ VesselsDistinct'
  BY DEF More, WaitersOpen, UnaskedBefore, VesselsDistinct
<1>3. ChosenEnough'
  BY DEF More, ChosenEnough, IsChosen
<1> QED  BY <1>1, <1>2, <1>3 DEF More

\* The providers of a broadcast are nodes.
LEMMA ProvidersAreNodes ==
    ASSUME Inv, More, NEW r \in Spawns, st[r] = "done",
           NEW i \in 1..Call[r].total
    PROVE  chosen[r].providers[i] \in Node
<1>1. IsChosen(chosen[r]) /\ Call[r].total <= Len(chosen[r].providers)
  BY DEF More, ChosenEnough
<1>2. chosen[r].providers \in Seq(Node) /\ Call[r].total \in Nat
  BY <1>1, CallAssumption DEF IsChosen
<1>3. i \in 1..Len(chosen[r].providers)
  BY <1>1, <1>2
<1> QED  BY <1>2, <1>3

LEMMA HandleBroadcastTyped ==
    ASSUME Inv, More, NEW r \in Spawns, HandleBroadcast(r) PROVE More'
<1>1. st[r] = "done" /\ outbox[r] \in Nat /\ outbox[r] > 0 /\ Call[r].total \in Nat
  BY CallAssumption DEF HandleBroadcast, Inv, Shape, BroadcastIsFinal
<1>2. outbox[r] <= Call[r].total + 1
  BY <1>1 DEF More, ChosenEnough
<1>3. MsgsAddressed'
  <2>1. CASE outbox[r] = 1
    BY <2>1 DEF HandleBroadcast, More, MsgsAddressed
  <2>2. CASE outbox[r] # 1
    <3>1. Call[r].total + 2 - outbox[r] \in 1..Call[r].total
      BY <1>1, <1>2, <2>2
    <3>2. chosen[r].providers[Call[r].total + 2 - outbox[r]] \in Node
      BY <1>1, <3>1, ProvidersAreNodes
    <3> QED  BY <2>2, <3>2 DEF HandleBroadcast, More, MsgsAddressed
  <2> QED  BY <2>1, <2>2
<1>4. /\ UNCHANGED <<loop, pending, queries, cfrags, st, callVars, chainVars>>
      /\ outbox' = [outbox EXCEPT ![r] = outbox[r] - 1]
  BY DEF HandleBroadcast
<1>5. Typed' /\ QueriesHome' /\ UnaskedBefore' /\ VesselsDistinct' /\ WaitersOpen'
  BY <1>4 DEF More, Typed, QueriesHome, UnaskedBefore, VesselsDistinct, WaitersOpen,
              callVars, chainVars
<1>6. \A x \in Spawns : outbox'[x] = outbox[x] \/ (x = r /\ outbox'[x] <= Call[x].total + 1)
  BY <1>1, <1>2, <1>4 DEF Inv, Shape
<1>7. ChosenEnough'
  BY <1>4, <1>6 DEF More, ChosenEnough, IsChosen, callVars
<1> QED  BY <1>3, <1>5, <1>7 DEF More

LEMMA SaveFragmentTyped == ASSUME Inv, More, NEW m, SaveFragment(m) PROVE More'
<1> USE DEF SaveFragment, loopVars, callVars, chainVars
<1>1. m.task \in Spawns
  BY DEF More, MsgsAddressed
<1>2. cfrags' \in [Node -> SUBSET Spawns]
  BY <1>1 DEF More, Typed
<1>3. Typed' /\ MsgsAddressed'
  BY <1>2 DEF More, Typed, MsgsAddressed
<1> QED  BY <1>3, NetStepTyped

LEMMA SaveLostTyped == ASSUME Inv, More, NEW m, SaveLost(m) PROVE More'
<1> USE DEF SaveLost, loopVars, callVars, chainVars
<1>1. Typed' /\ MsgsAddressed'
  BY DEF More, Typed, MsgsAddressed
<1> QED  BY <1>1, NetStepTyped

\* Every provider of a shared reverie is asked.
LEMMA RequestCfragsTyped == ASSUME Inv, More, NEW t \in Task, RequestCfrags(t) PROVE More'
<1> DEFINE r == Call[t].reverie
<1>1. t \in Accesses /\ st[t] = "found"
  BY DEF RequestCfrags
<1>2. r \in Spawns /\ st[r] = "done"
  BY <1>1, CallAssumption DEF Inv, AccessedIsShared, BroadcastIsFinal
<1>3. Providers(r) \subseteq Node
  BY <1>2, ProvidersAreNodes DEF Providers
<1>4. \A x \in [type : {"get"}, task : {t}, peer : Providers(r)] :
         x.type = "get" /\ x.task = t /\ x.peer \in Node
  BY <1>3
<1>5. MsgsAddressed'
  BY <1>1, <1>4 DEF RequestCfrags, More, MsgsAddressed
<1>6. /\ \A x \in Task : x # t => st'[x] = st[x]
      /\ st'[t] \in {"failed", "requesting"}
      /\ UNCHANGED <<loopVars, cfrags, callVars, chainVars>>
  BY <1>1 DEF RequestCfrags, Inv, Shape
<1>7. Typed'
  BY <1>6 DEF More, Typed, loopVars, callVars, chainVars
<1>8. WaitersOpen' /\ QueriesHome' /\ UnaskedBefore' /\ VesselsDistinct' /\ ChosenEnough'
  <2>1. \A x \in Spawns : st'[x] = st[x]
    BY <1>1, <1>6, CallsDiffer
  <2>2. WaitersOpen' /\ QueriesHome'
    BY <1>6, <2>1, CallsDiffer
       DEF Inv, Waiters, More, WaitersOpen, QueriesHome, loopVars, callVars
  <2>3. UnaskedBefore' /\ VesselsDistinct'
    BY <1>6, <2>1 DEF More, UnaskedBefore, VesselsDistinct, callVars
  <2> QED  BY <1>6, <2>1, <2>2, <2>3 DEF More, ChosenEnough, IsChosen, loopVars, callVars
<1> QED  BY <1>5, <1>7, <1>8 DEF More

LEMMA GetFragmentTyped == ASSUME Inv, More, NEW m, GetFragment(m) PROVE More'
<1> USE DEF GetFragment, loopVars, callVars, chainVars
<1>1. m \in msgs /\ IsMsg(m) /\ m.task \in Accesses /\ m.peer \in Node
  BY CallsDiffer DEF More, MsgsAddressed, Inv, Shape
<1>2. LET x == [m EXCEPT !.type = "cfrag"]
      IN  x.type = "cfrag" /\ x.task = m.task /\ x.peer = m.peer
  BY <1>1 DEF IsMsg
<1>3. Typed' /\ MsgsAddressed'
  BY <1>1, <1>2 DEF More, Typed, MsgsAddressed
<1> QED  BY <1>3, NetStepTyped

LEMMA ReceiveFragmentTyped == ASSUME Inv, More, NEW m, ReceiveFragment(m) PROVE More'
<1> USE DEF ReceiveFragment, loopVars, chainVars
<1>1. m.task \in Accesses /\ m.peer \in Node
  BY DEF More, MsgsAddressed
<1>2. answers' \in [Accesses -> [ok : SUBSET Node, err : SUBSET Node]]
  BY <1>1 DEF More, Typed
<1>3. Typed' /\ MsgsAddressed'
  BY <1>2 DEF More, Typed, MsgsAddressed
<1> QED  BY <1>3, NetStepTyped

LEMMA OutboundFailureTyped == ASSUME Inv, More, NEW m, OutboundFailure(m) PROVE More'
<1> USE DEF OutboundFailure, loopVars, chainVars
<1>1. m.task \in Accesses /\ m.peer \in Node
  BY DEF More, MsgsAddressed
<1>2. answers' \in [Accesses -> [ok : SUBSET Node, err : SUBSET Node]]
  BY <1>1 DEF More, Typed
<1>3. Typed' /\ MsgsAddressed'
  BY <1>2 DEF More, Typed, MsgsAddressed
<1> QED  BY <1>3, NetStepTyped

\* A call that is no spawn ends.
LEMMA OthersEndTyped ==
    ASSUME Inv, More, NEW t \in Task, t \notin Spawns,
           \A x \in Task : x # t => st'[x] = st[x], st'[t] \in {"done", "failed"},
           UNCHANGED <<loopVars, msgs, cfrags, callVars, chainVars>>
    PROVE  More'
<1>1. \A x \in Spawns : st'[x] = st[x]
  BY CallsDiffer
<1>2. WaitersOpen' /\ QueriesHome' /\ UnaskedBefore' /\ VesselsDistinct' /\ MsgsAddressed'
  BY CallsDiffer, CallStepTyped DEF Inv, Waiters, callVars
<1>3. ChosenEnough'
  BY <1>1 DEF More, ChosenEnough, IsChosen, loopVars, callVars
<1>4. Typed'
  BY DEF More, Typed, loopVars, callVars, chainVars
<1> QED  BY <1>2, <1>3, <1>4 DEF More

LEMMA FinishAccessTyped == ASSUME Inv, More, NEW t \in Task, FinishAccess(t) PROVE More'
<1>1. /\ t \notin Spawns /\ \A x \in Task : x # t => st'[x] = st[x]
      /\ st'[t] \in {"done", "failed"}
  BY CallsDiffer DEF FinishAccess, Inv, Shape
<1> QED  BY <1>1, OthersEndTyped DEF FinishAccess, netVars

LEMMA SaveAgentNameTyped == ASSUME Inv, More, NEW t \in Task, SaveAgentName(t) PROVE More'
<1>1. /\ t \notin Spawns /\ \A x \in Task : x # t => st'[x] = st[x]
      /\ st'[t] \in {"done", "failed"}
  BY CallsDiffer DEF SaveAgentName, Inv, Shape
<1> QED  BY <1>1, OthersEndTyped DEF SaveAgentName

LEMMA SetBalanceTyped ==
    ASSUME Inv, More, NEW r \in Spawns, NEW who \in Account, NEW b \in 0..MaxDeposit,
           SetBalance(r, who, b)
    PROVE  More'
<1> USE DEF SetBalance, loopVars, netVars, callVars
<1>1. Typed' /\ MsgsAddressed'
  BY DEF More, Typed, MsgsAddressed
<1> QED  BY <1>1, NetStepTyped

LEMMA BalanceTyped ==
    ASSUME Inv, More, NEW r \in Spawns, NEW who \in Account,
           Deposit(r, who) \/ Withdraw(r, who)
    PROVE  More'
<1>1. balance[<<r, who>>] \in 0..MaxDeposit
  BY DEF More, Typed
<1>2. CASE Deposit(r, who)
  BY <1>1, <1>2, SetBalanceTyped, DepositAssumption DEF Deposit
<1>3. CASE Withdraw(r, who)
  BY <1>1, <1>3, SetBalanceTyped, DepositAssumption DEF Withdraw
<1> QED  BY <1>2, <1>3

LEMMA StutterTyped == ASSUME Inv, More, UNCHANGED vars PROVE More'
<1> USE DEF vars, loopVars, netVars, callVars, chainVars
<1>1. Typed' /\ MsgsAddressed'
  BY DEF More, Typed, MsgsAddressed
<1> QED  BY <1>1, NetStepTyped

LEMMA MoreStep == Inv /\ More /\ [Next]_vars => More'
<1> SUFFICES ASSUME Inv, More, [Next]_vars PROVE More'  OBVIOUS
<1>1. CASE \E n \in Node : PublishStatus(n) \/ LoopCrashes(n)
  BY <1>1, PublishStatusTyped, LoopDiesTyped DEF LoopCrashes
<1>2. CASE \E q \in queries : QueryFound(q) \/ QueryMisses(q)
  BY <1>2, QueryFoundTyped, QueryMissesTyped
<1>3. ASSUME NEW t \in Task,
             \/ StartSpawn(t) \/ StatusesDone(t) \/ FetchNonce(t) \/ SendTransaction(t)
             \/ BroadcastReverieKeyfrags(t)
      PROVE  More'
  BY <1>3, StartSpawnTyped, StatusesDoneTyped, FetchNonceTyped, SendTransactionTyped,
     BroadcastTyped
<1>4. ASSUME NEW t \in Task,
             \/ StartAccess(t) \/ RequestCfrags(t) \/ FinishAccess(t)
             \/ SaveAgentName(t) \/ StartNameLookup(t)
      PROVE  More'
  BY <1>4, StartAccessTyped, RequestCfragsTyped, FinishAccessTyped, SaveAgentNameTyped,
     StartNameLookupTyped
<1>5. ASSUME NEW r \in Spawns,
             HandleBroadcast(r) \/ \E who \in Account : Deposit(r, who) \/ Withdraw(r, who)
      PROVE  More'
  BY <1>5, HandleBroadcastTyped, BalanceTyped
<1>6. ASSUME NEW m \in msgs,
             \/ SaveFragment(m) \/ SaveLost(m) \/ GetFragment(m) \/ GetFragmentFails(m)
             \/ ReceiveFragment(m) \/ OutboundFailure(m)
      PROVE  More'
  BY <1>6, SaveFragmentTyped, SaveLostTyped, GetFragmentTyped, LoopDiesTyped,
     ReceiveFragmentTyped, OutboundFailureTyped DEF GetFragmentFails
<1>7. CASE UNCHANGED vars
  BY <1>7, StutterTyped
<1> QED  BY <1>1, <1>2, <1>3, <1>4, <1>5, <1>6, <1>7 DEF Next

LEMMA MoreAlways == Spec => [](Inv /\ More)
<1>1. Init => Inv /\ More
  BY InvInit, MoreInit
<1>2. (Inv /\ More) /\ [Next]_vars => (Inv /\ More)'
  BY InvStep, MoreStep
<1> QED  BY <1>1, <1>2, PTL DEF Spec

\* Every variable keeps its type, and every waiter waits in the map of its kind
\* on a loop that runs, whatever is displaced and whichever loop dies.
THEOREM TypeCorrect == Spec => []TypeOK
<1>1. Inv /\ More => TypeOK
  <2> SUFFICES ASSUME Inv, More PROVE TypeOK  OBVIOUS
  <2>1. \A p \in pending : /\ p.at = At(p.task) /\ loop[p.at] = "running"
                           /\ st[p.task] = IF p.kind = "status" THEN "statuses" ELSE "lookup"
    BY DEF Inv, Waiters, More, WaitersOpen
  <2>2. \A m \in msgs : m.type \in {"save", "get", "cfrag"} /\ m.task \in Task
                        /\ m.peer \in Node
    BY CallsDiffer DEF More, MsgsAddressed
  <2>3. \A r \in Spawns : chosen[r] # None => chosen[r].target \in Node
    BY DEF More, ChosenEnough, IsChosen
  <2> QED  BY <2>1, <2>2, <2>3 DEF Inv, Shape, More, Typed, QueriesHome, TypeOK
<1> QED  BY <1>1, MoreAlways, PTL

\* A spawn never takes one node for two, so the target is no provider and there
\* are as many holders as fragments, whichever call's query brings a status
\* (get_prospect_vessels, handle_kademlia_query_result).
THEOREM HoldersDistinct == Spec => []VesselsDistinct
<1>1. Inv /\ More => VesselsDistinct
  BY DEF More
<1> QED  BY <1>1, MoreAlways, PTL

-----------------------------------------------------------------------------
(* Nothing that is waited for is forgotten.                                *)

\* A key that a spawn or an access looks up is taken for what it is.
LEMMA KeysClassified ==
    /\ \A n : Classify(StatusKey(n)) = "status"
    /\ \A r : Classify(ReverieKey(r)) = "reverie"
<1>1. ASSUME NEW w, NEW v, NEW x
      PROVE  IsPrefix(<<w>>, <<v, x>>) <=> w = v
  <2> DEFINE S == {w, v, x}
             a == <<w>>
             b == <<v, x>>
  <2>1. /\ a \in Seq(S) /\ Len(a) = 1 /\ a[1] = w
        /\ b \in Seq(S) /\ Len(b) = 2 /\ b[1] = v
    OBVIOUS
  <2> SUFFICES IsPrefix(a, b) <=> a[1] = b[1]
    BY <2>1
  <2> HIDE DEF S, a, b
  <2>2. ASSUME NEW c \in Seq(S), Len(c) >= 1
        PROVE  LET d == SubSeq(c, 1, 1) IN d \in Seq(S) /\ Len(d) = 1 /\ d[1] = c[1]
    <3>1. \A i \in 1..1 : c[i] \in S
      BY <2>2
    <3>2. /\ SubSeq(c, 1, 1) \in Seq(S)
          /\ Len(SubSeq(c, 1, 1)) = IF 1 <= 1 THEN 1 - 1 + 1 ELSE 0
          /\ \A i \in 1..(1 - 1 + 1) : SubSeq(c, 1, 1)[i] = c[1 + i - 1]
      BY <3>1, SubSeqProperties
    <3> QED  BY <3>2
  <2>3. /\ SubSeq(a, 1, 1) \in Seq(S) /\ Len(SubSeq(a, 1, 1)) = 1 /\ SubSeq(a, 1, 1)[1] = a[1]
        /\ SubSeq(b, 1, 1) \in Seq(S) /\ Len(SubSeq(b, 1, 1)) = 1 /\ SubSeq(b, 1, 1)[1] = b[1]
    BY <2>1, <2>2
  <2>4. SubSeq(a, 1, 1) = SubSeq(b, 1, 1) <=> a[1] = b[1]
    BY <2>3, SeqEqual
  <2> QED  BY <2>1, <2>4 DEF IsPrefix
<1> QED  BY <1>1 DEF Classify, StatusKey, ReverieKey

\* A lookup starts a query for every sender it inserts.
LEMMA LookUpUnderWay ==
    ASSUME LookupsUnderWay, NEW t, NEW kind, NEW keys, LookUp(t, kind, keys),
           missed' = missed
    PROVE  LookupsUnderWay'
<1>1. ASSUME NEW p \in pending', p.kind # "name", p.task \notin missed
      PROVE  \E q \in queries' : q.task = p.task /\ q.at = p.at /\ q.key = p.key
  <2>1. CASE p \in pending
    BY <1>1, <2>1 DEF LookupsUnderWay, LookUp
  <2>2. CASE p \in [at : {At(t)}, kind : {kind}, key : keys, task : {t}]
    <3> DEFINE q == [at |-> At(t), key |-> p.key, task |-> t]
    <3>1. p.at = At(t) /\ p.key \in keys /\ p.task = t
      BY <2>2
    <3>2. q \in queries'
      BY <3>1 DEF LookUp
    <3> QED  BY <3>1, <3>2
  <2> QED  BY <2>1, <2>2 DEF LookUp
<1> QED  BY <1>1 DEF LookupsUnderWay

\* With a loop go the queries and the waiters of that loop.
LEMMA LoopDiesUnderWay ==
    ASSUME LookupsUnderWay, NEW n, LoopDies(n), missed' = missed
    PROVE  LookupsUnderWay'
<1>1. /\ pending' = {p \in pending : p.at # n}
      /\ queries' = {q \in queries : q.at # n}
  BY DEF LoopDies
<1> QED  BY <1>1 DEF LookupsUnderWay

\* A query that finds its record answers its own call, if that still waits.
LEMMA QueryFoundUnderWay ==
    ASSUME Inv, More, LookupsUnderWay, NEW q, QueryFound(q) PROVE LookupsUnderWay'
<1>1. /\ pending' = pending \ Displaced(q.at, Classify(q.key), {q.key})
      /\ queries' = queries \ {q} /\ missed' = missed
  BY DEF QueryFound, RemoveSenders, histVars
<1>2. ASSUME NEW p \in pending', p.kind # "name" PROVE Classify(p.key) = p.kind
  BY <1>1, <1>2, KeysClassified DEF Inv, Waiters, More, WaitersOpen
<1>3. ASSUME NEW p \in pending', p.kind # "name" PROVE ~(q.at = p.at /\ q.key = p.key)
  BY <1>1, <1>2, <1>3 DEF Displaced
<1> QED  BY <1>1, <1>3 DEF LookupsUnderWay

LEMMA QueryMissesUnderWay ==
    ASSUME LookupsUnderWay, NEW q, QueryMisses(q) PROVE LookupsUnderWay'
  BY DEF QueryMisses, LookupsUnderWay

LEMMA QuietUnderWay ==
    ASSUME LookupsUnderWay, UNCHANGED <<pending, queries, missed>> PROVE LookupsUnderWay'
  BY DEF LookupsUnderWay

LEMMA UnderWayStep == Inv /\ More /\ LookupsUnderWay /\ [Next]_vars => LookupsUnderWay'
<1> SUFFICES ASSUME Inv, More, LookupsUnderWay, [Next]_vars PROVE LookupsUnderWay'  OBVIOUS
<1> USE DEF loopVars, histVars
<1>1. CASE \E n \in Node : PublishStatus(n) \/ LoopCrashes(n)
  BY <1>1, QuietUnderWay, LoopDiesUnderWay DEF PublishStatus, LoopCrashes
<1>2. CASE \E q \in queries : QueryFound(q) \/ QueryMisses(q)
  BY <1>2, QueryFoundUnderWay, QueryMissesUnderWay
<1>3. ASSUME NEW t \in Task, StartSpawn(t) \/ StartAccess(t) \/ StartNameLookup(t)
      PROVE  LookupsUnderWay'
  BY <1>3, QuietUnderWay, LookUpUnderWay DEF StartSpawn, StartAccess, StartNameLookup
<1>4. ASSUME NEW t \in Task,
             \/ StatusesDone(t) \/ FetchNonce(t) \/ SendTransaction(t)
             \/ BroadcastReverieKeyfrags(t) \/ RequestCfrags(t) \/ FinishAccess(t)
             \/ SaveAgentName(t)
      PROVE  LookupsUnderWay'
  BY <1>4, QuietUnderWay
     DEF StatusesDone, FetchNonce, SendTransaction, BroadcastReverieKeyfrags, RequestCfrags,
         FinishAccess, SaveAgentName
<1>5. ASSUME NEW r \in Spawns,
             HandleBroadcast(r) \/ \E who \in Account : Deposit(r, who) \/ Withdraw(r, who)
      PROVE  LookupsUnderWay'
  BY <1>5, QuietUnderWay DEF HandleBroadcast, Deposit, Withdraw, SetBalance
<1>6. ASSUME NEW m \in msgs,
             \/ SaveFragment(m) \/ SaveLost(m) \/ GetFragment(m) \/ GetFragmentFails(m)
             \/ ReceiveFragment(m) \/ OutboundFailure(m)
      PROVE  LookupsUnderWay'
  BY <1>6, QuietUnderWay, LoopDiesUnderWay
     DEF SaveFragment, SaveLost, GetFragment, GetFragmentFails, ReceiveFragment,
         OutboundFailure
<1>7. CASE UNCHANGED vars
  BY <1>7, QuietUnderWay DEF vars
<1> QED  BY <1>1, <1>2, <1>3, <1>4, <1>5, <1>6, <1>7 DEF Next

\* However many calls look up the same keys at one node and whichever loops die,
\* a call that waits for a status or a reverie has its own query under way or
\* has had one that found nothing: no answer goes astray
\* (handle_kademlia_query_result, KademliaKey::from).
THEOREM NoLookupForgotten == Spec => []LookupsUnderWay
<1>1. Init => LookupsUnderWay
  BY DEF Init, LookupsUnderWay
<1>2. Spec => [](Inv /\ More)
  BY MoreAlways
<1> QED  BY <1>1, <1>2, UnderWayStep, PTL DEF Spec

-----------------------------------------------------------------------------
(* Every provider that was asked is accounted for.                         *)

\* No provider has failed a call that has not asked.
UnfailedBefore ==
    \A t \in Accesses : st[t] \in {"idle", "lookup", "found"} => answers[t].err = {}

Accounted == UnfailedBefore /\ ProvidersAccountedFor

LEMMA AskedByMember ==
    ASSUME NEW t, NEW n
    PROVE  n \in AskedBy(t) <=>
              \E m \in msgs : m.type \in {"get", "cfrag"} /\ m.task = t /\ m.peer = n
  BY DEF AskedBy

LEMMA AskedByMemberNext ==
    ASSUME NEW t, NEW n
    PROVE  n \in AskedBy(t)' <=>
              \E m \in msgs' : m.type \in {"get", "cfrag"} /\ m.task = t /\ m.peer = n
  BY DEF AskedBy

\* While a reverie is accessed its providers stay.
LEMMA ProvidersStay ==
    ASSUME Inv, NEW t \in Accesses, st[t] = "requesting",
           \A r \in Spawns : st[r] = "done" => chosen'[r] = chosen[r]
    PROVE  Providers(Call[t].reverie)' = Providers(Call[t].reverie)
<1>1. Call[t].reverie \in Spawns /\ st[Call[t].reverie] = "done"
  BY CallAssumption DEF Inv, AccessedIsShared, BroadcastIsFinal
<1> QED  BY <1>1 DEF Providers

\* Steps that leave the accesses' messages and answers alone, and start no asking.
LEMMA QuietAccounted ==
    ASSUME Inv, Accounted,
           \A t \in Accesses : st'[t] = "requesting" => st[t] = "requesting",
           \A t \in Accesses : st'[t] \in {"idle", "lookup", "found"}
                                  => st[t] \in {"idle", "lookup", "found"},
           \A m : m.type \in {"get", "cfrag"} => (m \in msgs' <=> m \in msgs),
           \A r \in Spawns : st[r] = "done" => chosen'[r] = chosen[r],
           answers' = answers
    PROVE  Accounted'
<1>1. UnfailedBefore'
  BY DEF Accounted, UnfailedBefore
<1>2. ASSUME NEW t \in Accesses, st'[t] = "requesting"
      PROVE  answers'[t].ok \cup answers'[t].err \cup AskedBy(t)'
                 = Providers(Call[t].reverie)'
  <2>1. AskedBy(t)' = AskedBy(t)
    BY DEF AskedBy
  <2>2. Providers(Call[t].reverie)' = Providers(Call[t].reverie)
    BY <1>2, ProvidersStay
  <2> QED  BY <1>2, <2>1, <2>2 DEF Accounted, ProvidersAccountedFor, Asking
<1>3. ProvidersAccountedFor'
  BY <1>2 DEF ProvidersAccountedFor, Asking
<1> QED  BY <1>1, <1>3 DEF Accounted

\* The same where calls only start or fail.
LEMMA StartsAccounted ==
    ASSUME Inv, Accounted, \A x \in Task : StartsOrFails(x),
           UNCHANGED <<netVars, callVars>>
    PROVE  Accounted'
  BY QuietAccounted, CallsDiffer DEF StartsOrFails, netVars, callVars

\* A call asks everyone at once, and has been answered by nobody before.
LEMMA RequestCfragsAccounted ==
    ASSUME Inv, Accounted, NEW t \in Task, RequestCfrags(t) PROVE Accounted'
<1>1. /\ t \in Accesses /\ st[t] = "found"
      /\ \A x \in Task : x # t => st'[x] = st[x]
      /\ UNCHANGED callVars
  BY DEF RequestCfrags, Inv, Shape
<1>2. answers[t].ok = {} /\ answers[t].err = {} /\ AskedBy(t) = {}
  <2>1. \A m \in msgs : m.type # "save" => m.task # t
    BY <1>1 DEF Inv, QuietBefore
  <2>2. \A n : n \notin AskedBy(t)
    BY <2>1, AskedByMember
  <2> QED  BY <1>1, <2>2 DEF Inv, QuietBefore, Accounted, UnfailedBefore
<1>3. CASE loop[At(t)] = "dead"
  <2>1. msgs' = msgs /\ st' = [st EXCEPT ![t] = "failed"]
    BY <1>3 DEF RequestCfrags
  <2> QED  BY <1>1, <2>1, QuietAccounted, CallsDiffer DEF callVars, Inv, Shape
<1>4. CASE loop[At(t)] # "dead"
  <2> DEFINE new == [type : {"get"}, task : {t}, peer : Providers(Call[t].reverie)]
  <2>1. msgs' = msgs \cup new /\ st'[t] = "requesting"
    BY <1>1, <1>4 DEF RequestCfrags, Inv, Shape
  <2>2. \A m \in new : m.type = "get" /\ m.task = t /\ m.peer \in Providers(Call[t].reverie)
    OBVIOUS
  <2>3. \A n \in Providers(Call[t].reverie) :
           \E m \in new : m.type = "get" /\ m.task = t /\ m.peer = n
    <3> SUFFICES ASSUME NEW n \in Providers(Call[t].reverie)
                 PROVE  \E m \in new : m.type = "get" /\ m.task = t /\ m.peer = n
      OBVIOUS
    <3>1. [type |-> "get", task |-> t, peer |-> n] \in new
      OBVIOUS
    <3> QED  BY <3>1
  <2> HIDE DEF new
  <2>4. \A n : n \in AskedBy(t)' <=> n \in Providers(Call[t].reverie)
    BY <1>2, <2>1, <2>2, <2>3, AskedByMember, AskedByMemberNext
  <2>5. \A x \in Accesses : x # t => AskedBy(x)' = AskedBy(x)
    BY <2>1, <2>2 DEF AskedBy
  <2>6. \A r : Providers(r)' = Providers(r)
    BY <1>1 DEF Providers, callVars
  <2>7. UnfailedBefore'
    BY <1>1, <2>1, CallsDiffer DEF Accounted, UnfailedBefore, callVars
  <2>8. ASSUME NEW x \in Accesses, st'[x] = "requesting"
        PROVE  answers'[x].ok \cup answers'[x].err \cup AskedBy(x)'
                   = Providers(Call[x].reverie)'
    <3>1. CASE x = t
      BY <1>1, <1>2, <2>4, <2>6, <3>1 DEF callVars
    <3>2. CASE x # t
      BY <1>1, <2>5, <2>6, <2>8, <3>2, CallsDiffer
         DEF callVars, Accounted, ProvidersAccountedFor, Asking
    <3> QED  BY <3>1, <3>2
  <2> QED  BY <2>7, <2>8 DEF Accounted, ProvidersAccountedFor, Asking
<1> QED  BY <1>3, <1>4

\* A request that becomes an answer is asked of the same provider.
LEMMA GetFragmentAccounted ==
    ASSUME Inv, Accounted, NEW m, GetFragment(m) PROVE Accounted'
<1> DEFINE c == [m EXCEPT !.type = "cfrag"]
<1>1. /\ m \in msgs /\ m.type = "get" /\ msgs' = (msgs \ {m}) \cup {c}
      /\ UNCHANGED <<st, callVars>>
  BY DEF GetFragment
<1>2. c.type = "cfrag" /\ c.task = m.task /\ c.peer = m.peer
  BY <1>1 DEF Inv, Shape, IsMsg
<1> HIDE DEF c
<1>3. \A t, n : n \in AskedBy(t)' <=> n \in AskedBy(t)
  BY <1>1, <1>2, AskedByMember, AskedByMemberNext
<1>4. \A t : AskedBy(t)' = AskedBy(t)
  BY <1>3
<1>5. \A r : Providers(r)' = Providers(r)
  BY <1>1 DEF Providers, callVars
<1> QED
  BY <1>1, <1>4, <1>5 DEF Accounted, UnfailedBefore, ProvidersAccountedFor, Asking, callVars

\* An answer or a failure moves its provider from the asked to the answered.
LEMMA AnswerAccounted ==
    ASSUME Inv, Accounted, NEW m \in msgs, m.type \in {"get", "cfrag"}, msgs' = msgs \ {m},
           \/ answers' = [answers EXCEPT ![m.task].ok = @ \cup {m.peer}]
           \/ answers' = [answers EXCEPT ![m.task].err = @ \cup {m.peer}],
           UNCHANGED <<st, chosen>>
    PROVE  Accounted'
<1> DEFINE all(t) == answers[t].ok \cup answers[t].err
<1>1. ASSUME NEW t \in Accesses, t # m.task PROVE answers'[t] = answers[t]
  BY <1>1 DEF Inv, Shape
<1>2. ASSUME m.task \in Accesses
      PROVE  answers'[m.task].ok \cup answers'[m.task].err = all(m.task) \cup {m.peer}
  <2>1. IsAnswer(answers[m.task]) /\ answers = [t \in Accesses |-> answers[t]]
    BY <1>2 DEF Inv, Shape
  <2> QED  BY <1>2, <2>1 DEF IsAnswer
<1>3. ASSUME NEW t \in Accesses
      PROVE  answers'[t].ok \cup answers'[t].err \cup AskedBy(t)' = all(t) \cup AskedBy(t)
  <2>1. CASE t = m.task
    <3>1. \A n : n \in AskedBy(t)' => n \in AskedBy(t)
      BY AskedByMember, AskedByMemberNext
    <3>2. \A n : n \in AskedBy(t) => n \in AskedBy(t)' \/ n = m.peer
      BY AskedByMember, AskedByMemberNext
    <3>3. m.peer \in AskedBy(t)
      BY <2>1, AskedByMember
    <3> HIDE DEF all
    <3> QED  BY <1>2, <2>1, <3>1, <3>2, <3>3
  <2>2. CASE t # m.task
    <3>1. AskedBy(t)' = AskedBy(t)
      BY <2>2 DEF AskedBy
    <3> QED  BY <1>1, <2>2, <3>1
  <2> QED  BY <2>1, <2>2
<1>4. \A r : Providers(r)' = Providers(r)
  BY DEF Providers
<1>5. UnfailedBefore'
  <2>1. ASSUME NEW t \in Accesses, st[t] \in {"idle", "lookup", "found"} PROVE t # m.task
    BY <2>1 DEF Inv, QuietBefore
  <2> QED  BY <1>1, <2>1 DEF Accounted, UnfailedBefore
<1> QED  BY <1>3, <1>4, <1>5 DEF Accounted, ProvidersAccountedFor, Asking

\* The death of a loop fails calls, and so does a sender that is replaced.
LEMMA LoopDiesFails == ASSUME Inv, NEW n, LoopDies(n) PROVE \A x \in Task : StartsOrFails(x)
<1>1. pending \ pending' \in SUBSET pending
  OBVIOUS
<1>2. \A x \in Task : StWithout(pending \ pending', st)[x] # st[x] =>
            st[x] = "lookup" /\ StWithout(pending \ pending', st)[x] = "failed"
  BY <1>1, DisplacedWait
<1>3. st' = [x \in Task |-> IF At(x) = n /\ st[x] = "requesting" THEN "failed"
                            ELSE StWithout(pending \ pending', st)[x]]
  BY DEF LoopDies
<1> QED  BY <1>2, <1>3 DEF StartsOrFails

LEMMA LookUpFails ==
    ASSUME Inv, NEW t \in Task, st[t] = "idle", NEW kind, NEW keys,
           st' = [StWithout(Displaced(At(t), kind, keys), st) EXCEPT ![t] = "lookup"]
    PROVE  \A x \in Task : StartsOrFails(x)
<1> DEFINE ws == Displaced(At(t), kind, keys)
<1>1. ws \in SUBSET pending
  BY DEF Displaced
<1>2. /\ StWithout(ws, st) \in [Task -> Stage]
      /\ \A x \in Task : StWithout(ws, st)[x] # st[x] =>
            st[x] = "lookup" /\ StWithout(ws, st)[x] = "failed"
  BY <1>1, DisplacedWait
<1> HIDE DEF ws
<1> QED  BY <1>2 DEF StartsOrFails, ws

LEMMA StartsAreStarts ==
    ASSUME Inv, NEW t \in Task, StartSpawn(t) \/ StartAccess(t) \/ StartNameLookup(t)
    PROVE  \A x \in Task : StartsOrFails(x)
<1>1. st[t] = "idle"
  BY DEF StartSpawn, StartAccess, StartNameLookup, Received
<1>2. CASE st' = [st EXCEPT ![t] = "failed"] \/ st' = [st EXCEPT ![t] = "statuses"]
  BY <1>1, <1>2 DEF Inv, Shape, StartsOrFails
<1>3. CASE \E kind, keys :
              st' = [StWithout(Displaced(At(t), kind, keys), st) EXCEPT ![t] = "lookup"]
  BY <1>1, <1>3, LookUpFails
<1> QED  BY <1>2, <1>3 DEF StartSpawn, StartAccess, StartNameLookup

LEMMA AccountedStep == Inv /\ Accounted /\ [Next]_vars => Accounted'
<1> SUFFICES ASSUME Inv, Accounted, [Next]_vars PROVE Accounted'  OBVIOUS
<1> USE DEF callVars
<1>1. CASE \E n \in Node : PublishStatus(n) \/ LoopCrashes(n)
  <2>1. ASSUME NEW n \in Node, PublishStatus(n) PROVE Accounted'
    BY <2>1, QuietAccounted DEF PublishStatus
  <2>2. ASSUME NEW n \in Node, LoopCrashes(n) PROVE Accounted'
    BY <2>2, LoopDiesFails, StartsAccounted DEF LoopCrashes
  <2> QED  BY <1>1, <2>1, <2>2
<1>2. ASSUME NEW q, QueryFound(q) PROVE Accounted'
  <2> DEFINE ws == Displaced(q.at, Classify(q.key), {q.key})
  <2>1. /\ st' = [t \in Task |->
                    IF \E p \in ws : p.task = t /\ t \in Accesses THEN "found"
                    ELSE IF \E p \in ws : p.task = t /\ t \in NameLookups THEN "done"
                    ELSE st[t]]
        /\ UNCHANGED <<netVars, chosen, answers>>
    BY <1>2 DEF QueryFound
  <2>2. \A p \in ws : p \in pending
    BY DEF Displaced
  <2> HIDE DEF ws
  <2>3. \A t \in Accesses : st'[t] = st[t] \/ (st[t] = "lookup" /\ st'[t] = "found")
    BY <2>1, <2>2, CallsDiffer DEF Inv, Waiters
  <2> QED  BY <2>1, <2>3, QuietAccounted DEF netVars
<1>3. ASSUME NEW q, QueryMisses(q) PROVE Accounted'
  BY <1>3, QuietAccounted DEF QueryMisses, netVars
<1>4. ASSUME NEW t \in Task, StartSpawn(t) \/ StartAccess(t) \/ StartNameLookup(t)
      PROVE  Accounted'
  <2>1. UNCHANGED <<netVars, callVars>>
    BY <1>4 DEF StartSpawn, StartAccess, StartNameLookup
  <2> QED  BY <1>4, <2>1, StartsAreStarts, StartsAccounted
<1>5. ASSUME NEW t \in Task,
             \/ StatusesDone(t) \/ FetchNonce(t) \/ SendTransaction(t)
             \/ BroadcastReverieKeyfrags(t)
      PROVE  Accounted'
  <2>1. t \in Spawns /\ st[t] # "done"
    BY <1>5 DEF StatusesDone, FetchNonce, SendTransaction, BroadcastReverieKeyfrags
  <2>2. \A x \in Accesses : st'[x] = st[x]
    BY <1>5, <2>1, CallsDiffer
       DEF StatusesDone, FetchNonce, SendTransaction, BroadcastReverieKeyfrags, Inv, Shape
  <2>3. \A r \in Spawns : r # t => chosen'[r] = chosen[r]
    BY <1>5
       DEF StatusesDone, FetchNonce, SendTransaction, BroadcastReverieKeyfrags, Inv, Shape
  <2>4. msgs' = msgs /\ answers' = answers
    BY <1>5
       DEF StatusesDone, FetchNonce, SendTransaction, BroadcastReverieKeyfrags, netVars
  <2> QED  BY <2>1, <2>2, <2>3, <2>4, QuietAccounted
<1>6. ASSUME NEW t \in Task, FinishAccess(t) \/ SaveAgentName(t) PROVE Accounted'
  <2>1. st' \in {[st EXCEPT ![t] = "failed"], [st EXCEPT ![t] = "done"]}
    BY <1>6 DEF FinishAccess, SaveAgentName
  <2>2. \A x \in Accesses : st'[x] = st[x] \/ st'[x] \in {"failed", "done"}
    BY <2>1, CallsDiffer DEF Inv, Shape
  <2>3. msgs' = msgs /\ answers' = answers /\ chosen' = chosen
    BY <1>6 DEF FinishAccess, SaveAgentName, netVars
  <2> QED  BY <2>2, <2>3, QuietAccounted
<1>7. ASSUME NEW t \in Task, RequestCfrags(t) PROVE Accounted'
  BY <1>7, RequestCfragsAccounted
<1>8. ASSUME NEW r \in Spawns,
             HandleBroadcast(r) \/ \E who \in Account : Deposit(r, who) \/ Withdraw(r, who)
      PROVE  Accounted'
  <2>1. \A m : m.type \in {"get", "cfrag"} => (m \in msgs' <=> m \in msgs)
    <3>1. CASE HandleBroadcast(r)
      BY <3>1 DEF HandleBroadcast
    <3>2. CASE \E who \in Account : Deposit(r, who) \/ Withdraw(r, who)
      BY <3>2 DEF Deposit, Withdraw, SetBalance, netVars
    <3> QED  BY <1>8, <3>1, <3>2
  <2>2. UNCHANGED <<st, chosen, answers>>
    BY <1>8 DEF HandleBroadcast, Deposit, Withdraw, SetBalance
  <2> QED  BY <2>1, <2>2, QuietAccounted
<1>9. ASSUME NEW m \in msgs, SaveFragment(m) \/ SaveLost(m) PROVE Accounted'
  BY <1>9, QuietAccounted DEF SaveFragment, SaveLost
<1>10. ASSUME NEW m \in msgs, GetFragment(m) \/ GetFragmentFails(m) PROVE Accounted'
  BY <1>10, GetFragmentAccounted, LoopDiesFails, StartsAccounted DEF GetFragmentFails
<1>11. ASSUME NEW m \in msgs, ReceiveFragment(m) \/ OutboundFailure(m) PROVE Accounted'
  BY <1>11, AnswerAccounted DEF ReceiveFragment, OutboundFailure
<1>12. CASE UNCHANGED vars
  BY <1>12, QuietAccounted DEF vars, netVars
<1> QED
  BY <1>1, <1>2, <1>3, <1>4, <1>5, <1>6, <1>7, <1>8, <1>9, <1>10, <1>11, <1>12 DEF Next

\* A call that asks for fragments waits for nobody but providers it has asked and
\* that have not answered, and each of these still can: for any number of
\* providers whose loops die of the request, and any loss (request_cfrags,
\* OutboundFailure).
THEOREM NoProviderForgotten == Spec => []ProvidersAccountedFor
<1>1. Init => Accounted
  BY CallsDiffer DEF Init, Accounted, UnfailedBefore, ProvidersAccountedFor, Asking
<1>2. Accounted => ProvidersAccountedFor
  BY DEF Accounted
<1> QED  BY <1>1, <1>2, InvAlways, AccountedStep, PTL DEF Spec
=============================================================================
