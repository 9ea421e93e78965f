------------------------ MODULE ReincarnationProofs ------------------------
(***************************************************************************)
(* Type correctness of Reincarnation and consistency of every node's       *)
(* PeerManager, for any nodes, agents, thresholds and bounds.              *)
(*                                                                         *)
(* The inductive invariant adds that a busy listener has the request it is *)
(* working on at the head of its inbox: without it Tail and Head of an     *)
(* empty inbox would have no known type.                                   *)
(***************************************************************************)
EXTENDS Reincarnation, PeerManagerProofs, SequenceTheorems

BusyListenerHasRequest ==
    \A n \in Node : task[n].pc # "idle" => inbox[n] # <<>>

\* TypeOK and PeerManagersConsistent, with what concerns pm put together.
PmOK == pm \in [Node -> PeerManagers] /\ \A n \in Node : WellFormed(pm[n])

QueueOK ==
    /\ inbox \in [Node -> Seq(AgentVesselInfo)]
    /\ task \in [Node -> Task]
    /\ BusyListenerHasRequest

LoopOK ==
    /\ status \in [Node -> Status]
    /\ boot \in [Node -> Nat]
    /\ conn \in [Node -> SUBSET Node]
    /\ failures \in Nat
    /\ upsets \in Nat

RestOK ==
    /\ respawns \in [Node -> SUBSET RespawnId]
    /\ dht \in [Node -> VesselStatus]
    /\ created \in [Agent -> Seq(Reverie)]

MsgsOK == msgs \in SUBSET Message

Inv == PmOK /\ QueueOK /\ LoopOK /\ RestOK /\ MsgsOK

LEMMA InvImplies == Inv => TypeOK /\ PeerManagersConsistent
BY DEF Inv, PmOK, QueueOK, LoopOK, RestOK, MsgsOK, TypeOK,
       PeerManagersConsistent, WellFormed

-----------------------------------------------------------------------------
(* Messages. *)

\* The fields of a message of each type.
LEMMA MessageFields ==
    ASSUME NEW m \in Message
    PROVE  /\ m.from \in Node /\ m.to \in Node
           /\ m.type = "SaveFragment" =>
                 m.reverie \in Reverie /\ m.frag \in 1..TotalFrags
           /\ m.type = "SaveCiphertext" => m.reverie \in Reverie
           /\ m.type = "ProvidingFragment" =>
                 m.id \in ReverieId /\ m.frag \in 1..TotalFrags
           /\ m.type = "MarkRespawnComplete" => m.info \in AgentVesselInfo
           /\ m.type = "GetFragment" => m.id \in ReverieId
           /\ m.type = "GetFragmentResponse" => m.id \in ReverieId /\ m.ok \in BOOLEAN
BY DEF Message

\* The answer to a fragment request is a message.
LEMMA AnswerType ==
    ASSUME NEW m \in Message, m.type = "GetFragment", NEW ok \in BOOLEAN
    PROVE  Answer(m, ok) \subseteq Message
BY MessageFields DEF Answer, Message

\* So is a response turned into a failure.
LEMMA FailedResponseType ==
    ASSUME NEW m \in Message, m.type = "GetFragmentResponse"
    PROVE  [m EXCEPT !.ok = FALSE] \in Message
BY DEF Message

LEMMA NewReverieType ==
    ASSUME Inv, NEW n \in Node, NEW a \in Agent, NEW nonce \in Nat,
           NEW target \in Node, NEW providers \in [1..TotalFrags -> Node]
    PROVE  NewReverie(n, a, nonce, target, providers) \in Reverie
<1>1. Len(created[a]) \in Nat
  BY LenProperties DEF Inv, RestOK
<1>2. dht[target].boot \in Nat
  BY DEF Inv, RestOK, VesselStatus
<1>3. <<a, Len(created[a]) + 1>> \in ReverieId
  BY <1>1 DEF ReverieId
<1>4. <<target, dht[target].boot>> \in Key
  BY <1>2 DEF Key
<1> QED BY <1>3, <1>4 DEF NewReverie, Reverie

LEMMA BroadcastType ==
    ASSUME Inv, NEW n \in Node, NEW r \in Reverie
    PROVE  BroadcastMsgs(n, r) \subseteq Message
<1>1. r.target \in Node /\ \A i \in 1..TotalFrags : r.providers[i] \in Node
  BY DEF Reverie
<1>2. boot[n] \in Nat
  BY DEF Inv, LoopOK
<1> QED BY <1>1, <1>2 DEF BroadcastMsgs, Message

-----------------------------------------------------------------------------
(* pm and the listener. *)

LEMMA PmUpdate ==
    ASSUME PmOK, NEW n \in Node, NEW x, WellFormed(x), pm' = [pm EXCEPT ![n] = x]
    PROVE  PmOK'
BY DEF PmOK, WellFormed

LEMMA ForgetOK ==
    ASSUME Inv, NEW n \in Node, Forget(n)
    PROVE  PmOK' /\ QueueOK' /\ respawns' \in [Node -> SUBSET RespawnId]
<1>1. PmOK'
  BY EmptyWellFormed, PmUpdate DEF Forget, Inv
<1>2. QueueOK'
  BY DEF Inv, QueueOK, Forget, BusyListenerHasRequest, Idle, Task
<1> QED BY <1>1, <1>2 DEF Inv, RestOK, Forget

LEMMA DropRespawnOK ==
    ASSUME Inv, NEW n \in Node, inbox[n] # <<>>, DropRespawn(n)
    PROVE  Inv'
<1>1. Tail(inbox[n]) \in Seq(AgentVesselInfo)
  BY HeadTailProperties DEF Inv, QueueOK
<1>2. QueueOK'
  BY <1>1 DEF Inv, QueueOK, DropRespawn, BusyListenerHasRequest, Idle, Task
<1> QED
  BY <1>2 DEF Inv, DropRespawn, PmOK, LoopOK, RestOK, MsgsOK, loopVars

LEMMA DisconnectOK ==
    ASSUME Inv, NEW n \in Node, Disconnect(n)
    PROVE  conn' \in [Node -> SUBSET Node]
BY DEF Inv, LoopOK, Disconnect

LEMMA WedgeOK ==
    ASSUME Inv, NEW n \in Node, Wedge(n), MsgsOK'
    PROVE  Inv'
<1>1. PmOK' /\ QueueOK' /\ respawns' \in [Node -> SUBSET RespawnId]
  BY ForgetOK DEF Wedge
<1>2. conn' \in [Node -> SUBSET Node]
  BY DisconnectOK DEF Wedge
<1> QED BY <1>1, <1>2 DEF Inv, LoopOK, RestOK, Wedge, Status

\* What the handlers of agent reveries store is well formed.
LEMMA StoreMetadataOK ==
    ASSUME NEW x, WellFormed(x), NEW n \in Node, NEW r \in Reverie
    PROVE  WellFormed(InsertReverieMetadata(
               SetPeerInfoAgentVessel(x, n, VesselInfo(r)), VesselInfo(r)))
BY VesselInfoType, SetPeerInfoAgentVesselWellFormed, InsertReverieMetadataWellFormed

LEMMA RespawnIdType ==
    ASSUME NEW info \in AgentVesselInfo
    PROVE  RespawnIdOf(info) \in RespawnId
BY DEF RespawnIdOf, RespawnId, AgentVesselInfo

-----------------------------------------------------------------------------
(* Every kind of step preserves Inv. *)

\* The requests that store something or end a respawn.
LEMMA RequestsPreserveInv ==
    ASSUME Inv, NEW n \in Node, NEW m \in msgs,
           \/ SaveFragmentRequest(n, m)
           \/ ProvidingFragmentRequest(n, m)
           \/ SaveCiphertextRequest(n, m)
           \/ MarkRespawnCompleteRequest(n, m)
    PROVE  Inv'
<1> USE DEF Inbound
<1>0. m \in Message /\ WellFormed(pm[n]) /\ boot[n] \in Nat
  BY DEF Inv, MsgsOK, PmOK, LoopOK
<1>1. CASE SaveFragmentRequest(n, m)
  <2> DEFINE r == m.reverie
  <2>1. r \in Reverie /\ m.frag \in 1..TotalFrags
    BY <1>0, <1>1, MessageFields DEF SaveFragmentRequest
  <2>2. PmOK'
    BY <1>0, <1>1, <2>1, StoreMetadataOK, InsertCfragWellFormed, PmUpdate
    DEF SaveFragmentRequest, Inv
  <2>3. r.target \in Node /\ r.id \in ReverieId
    BY <2>1 DEF Reverie
  <2>4. MsgsOK'
    BY <1>0, <1>1, <2>1, <2>3 DEF SaveFragmentRequest, Inv, MsgsOK, Message
  <2> QED BY <1>1, <2>2, <2>4
          DEF SaveFragmentRequest, Inv, QueueOK, LoopOK, RestOK, loopVars,
              BusyListenerHasRequest
<1>2. CASE ProvidingFragmentRequest(n, m)
  <2>1. m.from \in Node /\ m.id \in ReverieId /\ m.frag \in 1..TotalFrags
    BY <1>0, <1>2, MessageFields DEF ProvidingFragmentRequest
  <2>2. PmOK'
    BY <1>0, <1>2, <2>1, InsertKfragProviderWellFormed, InsertPeerInfoWellFormed, PmUpdate
    DEF ProvidingFragmentRequest, Inv
  <2> QED BY <1>2, <2>2
          DEF ProvidingFragmentRequest, Inv, QueueOK, LoopOK, RestOK, MsgsOK,
              loopVars, BusyListenerHasRequest
<1>3. CASE SaveCiphertextRequest(n, m)
  <2>1. m.reverie \in Reverie
    BY <1>0, <1>3, MessageFields DEF SaveCiphertextRequest
  <2>2. PmOK'
    BY <1>0, <1>3, <2>1, StoreMetadataOK, InsertReverieWellFormed, PmUpdate
    DEF SaveCiphertextRequest, Inv
  <2>3. dht' \in [Node -> VesselStatus]
    BY <1>0, <1>3 DEF SaveCiphertextRequest, Inv, RestOK, VesselStatus
  <2> QED BY <1>3, <2>2, <2>3
          DEF SaveCiphertextRequest, Inv, QueueOK, LoopOK, RestOK, MsgsOK,
              loopVars, BusyListenerHasRequest
<1>4. CASE MarkRespawnCompleteRequest(n, m)
  <2>1. m.info.current_vessel \in Node
    BY <1>0, <1>4, MessageFields DEF MarkRespawnCompleteRequest, AgentVesselInfo
  <2>2. PmOK'
    BY <1>0, <1>4, <2>1, RemovePeerWellFormed, PmUpdate
    DEF MarkRespawnCompleteRequest, Inv
  <2> QED BY <1>4, <2>2
          DEF MarkRespawnCompleteRequest, Inv, QueueOK, LoopOK, RestOK, MsgsOK,
              loopVars, BusyListenerHasRequest
<1> QED BY <1>1, <1>2, <1>3, <1>4

\* Fragment requests, their answers, and messages that end badly.
LEMMA FragmentTrafficPreservesInv ==
    ASSUME Inv, NEW n \in Node, NEW m \in msgs,
           \/ GetFragmentRequest(n, m)
           \/ GetFragmentRefused(n, m)
           \/ GetFragmentResponse(n, m)
           \/ ResponseChannelClosed(n, m)
           \/ LoseMessage(m)
    PROVE  Inv'
<1> USE DEF Inbound
<1>0. m \in Message
  BY DEF Inv, MsgsOK
<1>1. CASE GetFragmentRequest(n, m)
  <2>1. MsgsOK'
    BY <1>0, <1>1, AnswerType DEF GetFragmentRequest, Inv, MsgsOK
  <2> QED BY <1>1, <2>1
          DEF GetFragmentRequest, Inv, PmOK, QueueOK, LoopOK, RestOK,
              loopVars, BusyListenerHasRequest
<1>2. CASE GetFragmentRefused(n, m)
  <2>1. MsgsOK'
    BY <1>0, <1>2, AnswerType DEF GetFragmentRefused, Inv, MsgsOK
  <2> QED BY <1>2, <2>1, WedgeOK DEF GetFragmentRefused
<1>3. CASE GetFragmentResponse(n, m)
  <2>1. QueueOK'
    <3>1. m.from \in Node
      BY <1>0, MessageFields
    <3>2. \/ task' = [task EXCEPT ![n].ok = @ \cup {m.from}]
          \/ task' = [task EXCEPT ![n].failed = @ \cup {m.from}]
      BY <1>3, Zenon DEF GetFragmentResponse
    <3>3. task \in [Node -> Task]
      BY DEF Inv, QueueOK
    <3>4. task' \in [Node -> Task] /\ \A q \in Node : task'[q].pc = task[q].pc
      BY <3>1, <3>2, <3>3 DEF Task
    <3> QED BY <1>3, <3>4
            DEF GetFragmentResponse, Inv, QueueOK, BusyListenerHasRequest
  <2> QED BY <1>3, <2>1
          DEF GetFragmentResponse, Inv, PmOK, LoopOK, RestOK, MsgsOK, loopVars
<1>4. CASE ResponseChannelClosed(n, m)
  <2>1. MsgsOK'
    <3>1. CASE m.type = "GetFragment"
      <4>1. msgs' = (msgs \ (AnswersTo(n) \cup {m})) \cup Answer(m, FALSE)
        BY <1>4, <3>1 DEF ResponseChannelClosed
      <4> QED BY <1>0, <3>1, <4>1, AnswerType DEF Inv, MsgsOK
    <3>2. CASE m.type # "GetFragment"
      <4>1. msgs' \subseteq msgs
        BY <1>4, <3>2 DEF ResponseChannelClosed
      <4> QED BY <4>1 DEF Inv, MsgsOK
    <3> QED BY <3>1, <3>2
  <2> QED BY <1>4, <2>1, WedgeOK DEF ResponseChannelClosed
<1>5. CASE LoseMessage(m)
  <2>1. MsgsOK'
    <3>1. CASE m.type = "GetFragment"
      <4>1. msgs' = (msgs \ {m}) \cup Answer(m, FALSE)
        BY <1>5, <3>1 DEF LoseMessage
      <4> QED BY <1>0, <3>1, <4>1, AnswerType DEF Inv, MsgsOK
    <3>2. CASE m.type = "GetFragmentResponse"
      <4>1. msgs' = (msgs \ {m}) \cup {[m EXCEPT !.ok = FALSE]}
        BY <1>5, <3>2 DEF LoseMessage
      <4> QED BY <1>0, <3>2, <4>1, FailedResponseType DEF Inv, MsgsOK
    <3>3. CASE m.type # "GetFragment" /\ m.type # "GetFragmentResponse"
      <4>1. msgs' = (msgs \ {m}) \cup {}
        BY <1>5, <3>3 DEF LoseMessage
      <4> QED BY <4>1 DEF Inv, MsgsOK
    <3> QED BY <3>1, <3>2, <3>3
  <2> QED BY <1>5, <2>1
          DEF LoseMessage, Inv, PmOK, QueueOK, LoopOK, RestOK, loopVars,
              BusyListenerHasRequest
<1> QED BY <1>1, <1>2, <1>3, <1>4, <1>5

\* The listener, up to the placement of the agent.
LEMMA ListenerPreservesInv ==
    ASSUME Inv, NEW n \in Node,
           \/ \E r \in pm[n].reverie : StartRespawn(n, r)
           \/ CollectCfrags(n)
           \/ CollectFails(n)
           \/ PlaceFails(n)
    PROVE  Inv'
<1>1. CASE \E r \in pm[n].reverie : StartRespawn(n, r)
  <2> PICK r \in pm[n].reverie : StartRespawn(n, r)
    BY <1>1
  <2>1. r \in Reverie
    BY DEF Inv, PmOK, PeerManagers
  <2>2. r.id \in ReverieId /\ \A i \in 1..TotalFrags : r.providers[i] \in Node
    BY <2>1 DEF Reverie
  <2>3. boot[n] \in Nat
    BY DEF Inv, LoopOK
  <2>4. MsgsOK'
    BY <2>2, <2>3 DEF StartRespawn, Inv, MsgsOK, Message
  <2>5. QueueOK'
    BY DEF StartRespawn, Inv, QueueOK, BusyListenerHasRequest, Task
  <2> QED BY <2>4, <2>5 DEF StartRespawn, Inv, PmOK, LoopOK, RestOK, loopVars
<1>2. CASE CollectCfrags(n)
  <2>1. QueueOK'
    <3>1. /\ task[n].pc = "collect"
          /\ task' = [task EXCEPT ![n].pc = "place"]
          /\ inbox' = inbox
      BY <1>2 DEF CollectCfrags, AllAnswered
    <3>2. task' \in [Node -> Task]
      <4>1. task \in [Node -> Task] /\ task[n] \in Task
        BY DEF Inv, QueueOK
      <4>2. [task[n] EXCEPT !.pc = "place"] \in Task
        BY <4>1 DEF Task
      <4>3. task' = [task EXCEPT ![n] = [task[n] EXCEPT !.pc = "place"]]
        BY <3>1
      <4> QED BY <4>1, <4>2, <4>3
    <3>3. inbox[n] # <<>> /\ \A q \in Node \ {n} : task'[q] = task[q]
      BY <3>1 DEF Inv, QueueOK, BusyListenerHasRequest
    <3> QED BY <3>1, <3>2, <3>3 DEF Inv, QueueOK, BusyListenerHasRequest
  <2> QED BY <1>2, <2>1 DEF CollectCfrags, Inv, PmOK, LoopOK, RestOK, MsgsOK, loopVars
<1>3. CASE CollectFails(n)
  <2>1. inbox[n] # <<>>
    BY <1>3 DEF CollectFails, AllAnswered, Inv, QueueOK, BusyListenerHasRequest
  <2> QED BY <1>3, <2>1, DropRespawnOK DEF CollectFails
<1>4. CASE PlaceFails(n)
  <2>1. inbox[n] # <<>>
    BY <1>4 DEF PlaceFails, Inv, QueueOK, BusyListenerHasRequest
  <2> QED BY <1>4, <2>1, DropRespawnOK DEF PlaceFails
<1> QED BY <1>1, <1>2, <1>3, <1>4

LEMMA SpawnPreservesInv ==
    ASSUME Inv, NEW n \in Node, NEW a \in Agent, NEW target \in Node,
           NEW providers \in Providers, SpawnAgent(n, a, target, providers)
    PROVE  Inv'
<1> DEFINE r == NewReverie(n, a, 0, target, providers)
<1>1. r \in Reverie
  BY NewReverieType DEF Providers
<1> HIDE DEF r
<1>2. /\ created' = [created EXCEPT ![a] = Append(@, r)]
      /\ msgs' = msgs \cup BroadcastMsgs(n, r)
      /\ pm' = [pm EXCEPT ![n] = SetPeerInfoAgentVessel(@, n, VesselInfo(r))]
  BY DEF SpawnAgent, r
<1>3. PmOK'
  BY <1>1, <1>2, VesselInfoType, SetPeerInfoAgentVesselWellFormed, PmUpdate DEF Inv, PmOK
<1>4. MsgsOK'
  BY <1>1, <1>2, BroadcastType DEF Inv, MsgsOK
<1>5. created' \in [Agent -> Seq(Reverie)]
  BY <1>1, <1>2, AppendProperties DEF Inv, RestOK
<1> QED BY <1>3, <1>4, <1>5
    DEF SpawnAgent, Inv, QueueOK, LoopOK, RestOK, loopVars, BusyListenerHasRequest

LEMMA PlacePreservesInv ==
    ASSUME Inv, NEW n \in Node, NEW target \in Node,
           NEW providers \in Providers, PlaceAgent(n, target, providers)
    PROVE  Inv'
<1> DEFINE prev == Head(inbox[n])
           r == NewReverie(n, prev.agent, NextNonce(prev), target, providers)
           done == RemovePeer(SetPeerInfoAgentVessel(pm[n], n, VesselInfo(r)),
                              prev.current_vessel)
           marks == MarkCompleteMsgs(n, done, prev)
<1>1. inbox[n] # <<>> /\ inbox[n] \in Seq(AgentVesselInfo)
  BY DEF PlaceAgent, Inv, QueueOK, BusyListenerHasRequest
<1>2. prev \in AgentVesselInfo /\ Tail(inbox[n]) \in Seq(AgentVesselInfo)
  BY <1>1, HeadTailProperties
<1> HIDE DEF prev
<1>3. r \in Reverie
  <2>1. prev.agent \in Agent /\ NextNonce(prev) \in Nat
    BY <1>2 DEF AgentVesselInfo, NextNonce
  <2> QED BY <2>1, NewReverieType DEF Providers
<1> HIDE DEF r
<1>4. WellFormed(done)
  BY <1>2, <1>3, VesselInfoType, SetPeerInfoAgentVesselWellFormed, RemovePeerWellFormed
  DEF AgentVesselInfo, Inv, PmOK
<1>5. marks \subseteq Message
  <2>1. boot[n] \in Nat
    BY DEF Inv, LoopOK
  <2>2. \A p \in KfragProviders(done, prev.reverie_id) : p \in Node
    BY DEF KfragProviders
  <2> HIDE DEF done
  <2> QED BY <1>2, <2>1, <2>2 DEF Message, MarkCompleteMsgs
<1> HIDE DEF done, marks
<1>6. /\ created' = [created EXCEPT ![prev.agent] = Append(@, r)]
      /\ msgs' = msgs \cup BroadcastMsgs(n, r) \cup marks
      /\ pm' = [pm EXCEPT ![n] = done]
  BY DEF PlaceAgent, prev, r, done, marks
<1>7. PmOK'
  BY <1>4, <1>6, PmUpdate DEF Inv
<1>8. MsgsOK'
  BY <1>3, <1>5, <1>6, BroadcastType DEF Inv, MsgsOK
<1>9. RestOK'
  <2>1. created' \in [Agent -> Seq(Reverie)]
    BY <1>2, <1>3, <1>6, AppendProperties DEF Inv, RestOK, AgentVesselInfo
  <2> QED BY <2>1 DEF PlaceAgent, Inv, RestOK
<1>10. QueueOK'
  BY <1>2 DEF PlaceAgent, Inv, QueueOK, BusyListenerHasRequest, Idle, Task
<1> QED BY <1>7, <1>8, <1>9, <1>10 DEF PlaceAgent, Inv, LoopOK, loopVars

\* Heartbeats, ticks, connections and the DHT.
LEMMA NetworkPreservesInv ==
    ASSUME Inv, NEW n \in Node, NEW p \in Node,
           \/ PeerHeartbeatFailure(n, p)
           \/ Heartbeat(n, p)
           \/ ConnectionEstablished(n, p)
           \/ SecondConnection(n, p)
           \/ ConnectionLost(n, p)
           \/ RoutingUpdated(n, p)
           \/ Bootstrap(n)
    PROVE  Inv'
<1>0. \A q \in Node : WellFormed(pm[q])
  BY DEF Inv, PmOK
<1>1. CASE PeerHeartbeatFailure(n, p)
  <2> DEFINE hosted == {av \in pm[n].agent_vessel : av.current_vessel = p}
             mine == {av \in hosted : av.next_vessel = n}
  <2>1. hosted \subseteq AgentVesselInfo /\ mine \subseteq hosted
    BY DEF Inv, PmOK, PeerManagers
  <2>2. respawns' = [respawns EXCEPT ![n] = @ \cup {RespawnIdOf(av) : av \in hosted}]
    BY <1>1 DEF PeerHeartbeatFailure
  <2>3. \/ pm' = [pm EXCEPT ![n] = RemovePeer(@, p)] /\ UNCHANGED inbox
        \/ /\ \E av \in mine : inbox' = [inbox EXCEPT ![n] = Append(@, av)]
           /\ pm' = [pm EXCEPT ![n] = RemovePeer(@, p)]
        \/ UNCHANGED <<pm, inbox>>
    BY <1>1 DEF PeerHeartbeatFailure
  <2>4. UNCHANGED <<status, boot, conn, failures, task, dht, msgs, created>>
    BY <1>1 DEF PeerHeartbeatFailure
  <2>a. LoopOK'
    <3>1. upsets' = upsets \/ upsets' = upsets + 1
      BY <1>1 DEF PeerHeartbeatFailure
    <3> QED BY <2>4, <3>1 DEF Inv, LoopOK
  <2> HIDE DEF hosted, mine
  <2>5. PmOK'
    BY <1>0, <2>3, RemovePeerWellFormed, PmUpdate DEF Inv, PmOK
  <2>6. QueueOK'
    <3>1. CASE inbox' = inbox
      BY <2>4, <3>1 DEF Inv, QueueOK, BusyListenerHasRequest
    <3>2. CASE \E av \in mine : inbox' = [inbox EXCEPT ![n] = Append(@, av)]
      <4> PICK av \in mine : inbox' = [inbox EXCEPT ![n] = Append(@, av)]
        BY <3>2
      <4>1. av \in AgentVesselInfo
        BY <2>1
      <4>2. /\ Append(inbox[n], av) \in Seq(AgentVesselInfo)
            /\ Append(inbox[n], av) # <<>>
        BY <4>1, AppendProperties DEF Inv, QueueOK
      <4> QED BY <2>4, <4>2 DEF Inv, QueueOK, BusyListenerHasRequest
    <3> QED BY <2>3, <3>1, <3>2
  <2>7. RestOK'
    BY <2>1, <2>2, <2>4, RespawnIdType DEF Inv, RestOK
  <2> QED BY <2>4, <2>5, <2>6, <2>7, <2>a DEF Inv, MsgsOK
<1>2. CASE Heartbeat(n, p)
  <2>1. PmOK'
    BY <1>0, <1>2, UpdatePeerHeartbeatWellFormed, PmUpdate DEF Heartbeat, Inv
  <2> QED BY <1>2, <2>1
          DEF Heartbeat, Inv, QueueOK, LoopOK, RestOK, MsgsOK, loopVars,
              BusyListenerHasRequest
<1>3. CASE ConnectionEstablished(n, p) \/ SecondConnection(n, p)
  <2>1. pm' = [pm EXCEPT ![n] = InsertPeerInfo(@, p), ![p] = InsertPeerInfo(@, n)]
    BY <1>3 DEF ConnectionEstablished, SecondConnection
  <2>2. PmOK'
    <3>1. \A q \in Node : pm'[q] \in {pm[q]} \cup {InsertPeerInfo(pm[q], o) : o \in Node}
                           \cup {InsertPeerInfo(InsertPeerInfo(pm[q], o), o) : o \in Node}
      BY <2>1 DEF Inv, PmOK
    <3>2. \A q \in Node : WellFormed(pm'[q])
      BY <1>0, <3>1, InsertPeerInfoWellFormed
    <3>3. pm' = [q \in Node |-> pm'[q]]
      BY <2>1 DEF Inv, PmOK
    <3> QED BY <3>2, <3>3 DEF PmOK, WellFormed
  <2>3. LoopOK'
    BY <1>3 DEF ConnectionEstablished, SecondConnection, Inv, LoopOK
  <2> QED BY <1>3, <2>2, <2>3
          DEF ConnectionEstablished, SecondConnection, Inv, QueueOK, RestOK,
              MsgsOK, BusyListenerHasRequest
<1>4. CASE ConnectionLost(n, p)
  <2>1. conn' \in [Node -> SUBSET Node]
    BY <1>4 DEF ConnectionLost, Inv, LoopOK
  <2>2. LoopOK'
    BY <1>4, <2>1 DEF ConnectionLost, Inv, LoopOK
  <2> QED BY <1>4, <2>2
          DEF ConnectionLost, Inv, PmOK, QueueOK, RestOK, MsgsOK,
              BusyListenerHasRequest
<1>5. CASE RoutingUpdated(n, p)
  <2>1. PmOK'
    BY <1>0, <1>5, InsertPeerInfoWellFormed, PmUpdate DEF RoutingUpdated, Inv
  <2> QED BY <1>5, <2>1
          DEF RoutingUpdated, Inv, QueueOK, LoopOK, RestOK, MsgsOK,
              BusyListenerHasRequest
<1>6. CASE Bootstrap(n)
  <2>1. dht' \in [Node -> VesselStatus] /\ upsets' \in Nat
    BY <1>6 DEF Bootstrap, Inv, LoopOK, RestOK, VesselStatus
  <2> QED BY <1>6, <2>1
          DEF Bootstrap, Inv, PmOK, QueueOK, LoopOK, RestOK, MsgsOK,
              BusyListenerHasRequest
<1> QED BY <1>1, <1>2, <1>3, <1>4, <1>5, <1>6

\* Failure and recovery of a node.
LEMMA FailuresPreserveInv ==
    ASSUME Inv, NEW n \in Node,
           \/ InternalHeartbeatFailure(n)
           \/ TriggerRestart(n)
           \/ Crash(n)
           \/ Restart(n)
    PROVE  Inv'
<1>1. CASE InternalHeartbeatFailure(n)
  <2>1. conn' \in [Node -> SUBSET Node]
    BY <1>1, DisconnectOK DEF InternalHeartbeatFailure
  <2>2. LoopOK'
    <3>1. /\ status' = [status EXCEPT ![n] = "sleeping"]
          /\ failures' = failures + 1
          /\ boot' = boot /\ upsets' = upsets
      BY <1>1 DEF InternalHeartbeatFailure
    <3>2. status' \in [Node -> Status] /\ failures' \in Nat
      BY <3>1 DEF Inv, LoopOK, Status
    <3> QED BY <2>1, <3>1, <3>2 DEF Inv, LoopOK
  <2>3. MsgsOK'
    BY <1>1 DEF InternalHeartbeatFailure, Inv, MsgsOK
  <2> QED BY <1>1, <2>2, <2>3
          DEF InternalHeartbeatFailure, Inv, PmOK, QueueOK, RestOK,
              BusyListenerHasRequest
<1>2. CASE TriggerRestart(n)
  <2>1. PmOK' /\ QueueOK' /\ respawns' \in [Node -> SUBSET RespawnId]
    BY <1>2, ForgetOK DEF TriggerRestart
  <2> QED BY <1>2, <2>1 DEF TriggerRestart, Inv, LoopOK, RestOK, MsgsOK, Status
<1>3. CASE Crash(n)
  <2>1. PmOK' /\ QueueOK' /\ respawns' \in [Node -> SUBSET RespawnId]
    BY <1>3, ForgetOK DEF Crash
  <2>2. conn' \in [Node -> SUBSET Node]
    BY <1>3, DisconnectOK DEF Crash
  <2>3. LoopOK'
    <3>1. /\ status' = [status EXCEPT ![n] = "down"]
          /\ failures' = failures + 1
          /\ boot' = boot /\ upsets' = upsets
      BY <1>3 DEF Crash
    <3>2. status' \in [Node -> Status] /\ failures' \in Nat
      BY <3>1 DEF Inv, LoopOK, Status
    <3> QED BY <2>2, <3>1, <3>2 DEF Inv, LoopOK
  <2>4. MsgsOK'
    BY <1>3 DEF Crash, Inv, MsgsOK
  <2> QED BY <1>3, <2>1, <2>3, <2>4 DEF Crash, Inv, RestOK
<1>4. CASE Restart(n)
  BY <1>4 DEF Restart, Inv, PmOK, QueueOK, LoopOK, RestOK, MsgsOK,
              BusyListenerHasRequest, Status
<1> QED BY <1>1, <1>2, <1>3, <1>4

-----------------------------------------------------------------------------

LEMMA InitInv == Init => Inv
<1> SUFFICES ASSUME Init PROVE Inv
  OBVIOUS
<1>1. PmOK
  BY NewWellFormed DEF Init, PmOK, WellFormed
<1> QED BY <1>1
    DEF Init, Inv, QueueOK, LoopOK, RestOK, MsgsOK, BusyListenerHasRequest,
        Idle, Task, Status, VesselStatus

LEMMA NextInv == Inv /\ [Next]_vars => Inv'
<1> SUFFICES ASSUME Inv, [Next]_vars PROVE Inv'
  OBVIOUS
<1>1. CASE Environment
  BY <1>1, SpawnPreservesInv, FailuresPreserveInv, NetworkPreservesInv DEF Environment
<1>2. CASE \E n \in Node : Listener(n) \/ TriggerRestart(n) \/ Restart(n)
  BY <1>2, ListenerPreservesInv, PlacePreservesInv, FailuresPreserveInv
  DEF Listener, Place
<1>3. CASE \E n \in Node, m \in msgs : Deliver(n, m) \/ ResponseChannelClosed(n, m)
  BY <1>3, RequestsPreserveInv, FragmentTrafficPreservesInv DEF Deliver
<1>4. CASE \E m \in msgs : LoseMessage(m)
  <2> PICK m \in msgs : LoseMessage(m)
    BY <1>4
  <2>1. m.to \in Node
    BY MessageFields DEF Inv, MsgsOK
  <2> QED BY <2>1, FragmentTrafficPreservesInv
<1>5. CASE \E n, p \in Node : \/ PeerHeartbeatFailure(n, p)
                              \/ Heartbeat(n, p)
                              \/ ConnectionEstablished(n, p)
  BY <1>5, NetworkPreservesInv
<1>6. CASE UNCHANGED vars
  BY <1>6 DEF vars, Inv, PmOK, QueueOK, LoopOK, RestOK, MsgsOK,
              BusyListenerHasRequest
<1> QED BY <1>1, <1>2, <1>3, <1>4, <1>5, <1>6 DEF Next

\* Every variable keeps its type, whatever the network does.
THEOREM TypeCorrect == Spec => []TypeOK
<1>1. Spec => []Inv
  BY InitInv, NextInv, PTL DEF Spec
<1> QED BY <1>1, InvImplies, PTL

\* In every reachable state the maps of every node's PeerManager agree: a peer
\* is a provider exactly when a fragment is tracked for it, and a vessel record
\* is filed, alone, under a known peer.
THEOREM PeerManagersStayConsistent == Spec => []PeerManagersConsistent
<1>1. Spec => []Inv
  BY InitInv, NextInv, PTL DEF Spec
<1> QED BY <1>1, InvImplies, PTL
=============================================================================
