--------------------------- MODULE LineageProofs ---------------------------
(***************************************************************************)
(* An agent has a single line of incarnations, for any number of nodes,    *)
(* agents and failures.                                                    *)
(*                                                                         *)
(* The right to respawn a reverie is a token.  It is the SaveCiphertext    *)
(* message on its way to the next vessel, then the vessel record there,    *)
(* then the RespawnRequest in the listener's inbox there.  Tokens are only *)
(* moved or lost: each is for the latest reverie of its agent, and an      *)
(* agent has at most one.                                                  *)
(***************************************************************************)
EXTENDS ReincarnationProofs, FiniteSetTheorems

Latest(a) == created[a][Len(created[a])]

\* info is the vessel record of the latest reverie of its agent.
Current(info) ==
    /\ created[info.agent] # <<>>
    /\ info = VesselInfo(Latest(info.agent))

\* The k-th reverie of an agent has nonce k - 1.
Numbered ==
    \A a \in Agent : \A k \in 1..Len(created[a]) :
        created[a][k].agent = a /\ created[a][k].nonce = k - 1

\* A ciphertext goes to the next vessel, a fragment to another node.
Addressed ==
    /\ \A n \in Node : n \notin conn[n]
    /\ \A m \in msgs :
          /\ m.type = "SaveCiphertext" => m.to = m.reverie.target
          /\ m.type = "SaveFragment" => m.to # m.reverie.target

CiphertextsCurrent ==
    \A m \in msgs : m.type = "SaveCiphertext" =>
        /\ created[m.reverie.agent] # <<>>
        /\ m.reverie = Latest(m.reverie.agent)

RecordsCurrent ==
    \A n \in Node : \A av \in pm[n].agent_vessel :
        av.next_vessel = n => Current(av)

RequestsCurrent ==
    \A n \in Node : \A i \in 1..Len(inbox[n]) :
        inbox[n][i].next_vessel = n /\ Current(inbox[n][i])

\* No agent has two tokens.  (Two records would both be the current one.)
CiphertextsUnique ==
    \A m1, m2 \in msgs :
        /\ m1.type = "SaveCiphertext" /\ m2.type = "SaveCiphertext"
        /\ m1.reverie.agent = m2.reverie.agent
        => m1 = m2

CiphertextOrRecord ==
    \A m \in msgs : m.type = "SaveCiphertext" =>
        \A n \in Node : \A av \in pm[n].agent_vessel :
            av.next_vessel = n => av.agent # m.reverie.agent

CiphertextOrRequest ==
    \A m \in msgs : m.type = "SaveCiphertext" =>
        \A n \in Node : \A i \in 1..Len(inbox[n]) :
            inbox[n][i].agent # m.reverie.agent

RecordOrRequest ==
    \A n \in Node : \A av \in pm[n].agent_vessel : av.next_vessel = n =>
        \A q \in Node : \A i \in 1..Len(inbox[q]) : inbox[q][i].agent # av.agent

RequestsUnique ==
    \A n, q \in Node : \A i \in 1..Len(inbox[n]), j \in 1..Len(inbox[q]) :
        inbox[n][i].agent = inbox[q][j].agent => n = q /\ i = j

Tokens ==
    /\ CiphertextsCurrent /\ RecordsCurrent /\ RequestsCurrent
    /\ CiphertextsUnique /\ CiphertextOrRecord /\ CiphertextOrRequest
    /\ RecordOrRequest /\ RequestsUnique

Line == Numbered /\ Addressed /\ Tokens

-----------------------------------------------------------------------------
(* What the PeerManager methods do to vessel records. *)

\* Only set_peer_info_agent_vessel adds a record, and only the one it is given.
LEMMA RecordsAfterSet ==
    ASSUME NEW x \in PeerManagers, NEW self, NEW info
    PROVE  SetPeerInfoAgentVessel(x, self, info).agent_vessel
              \subseteq x.agent_vessel \cup {info}
BY DEF SetPeerInfoAgentVessel, PeerManagers

LEMMA RecordsAfterInsertPeerInfo ==
    ASSUME NEW x \in PeerManagers, NEW p
    PROVE  InsertPeerInfo(x, p).agent_vessel \subseteq x.agent_vessel
BY DEF InsertPeerInfo, PeerManagers

LEMMA RecordsAfterHeartbeat ==
    ASSUME NEW x \in PeerManagers, NEW p
    PROVE  UpdatePeerHeartbeat(x, p).agent_vessel \subseteq x.agent_vessel
BY RecordsAfterInsertPeerInfo DEF UpdatePeerHeartbeat

\* remove_peer takes every record of the peer.
LEMMA RecordsAfterRemovePeer ==
    ASSUME NEW x \in PeerManagers, NEW p
    PROVE  RemovePeer(x, p).agent_vessel =
              {av \in x.agent_vessel : av.current_vessel # p}
<1> DEFINE y == RemoveKfragProvider(x, p)
<1>1. y.agent_vessel = x.agent_vessel
  BY DEF RemoveKfragProvider, PeerManagers
<1>2. y \in PeerManagers
  BY DEF RemoveKfragProvider, PeerManagers
<1> HIDE DEF y
<1>3. RemovePeerInfo(y, p).agent_vessel = {av \in y.agent_vessel : av.current_vessel # p}
  BY <1>2 DEF RemovePeerInfo, PeerManagers
<1> QED BY <1>1, <1>3 DEF RemovePeer, y

LEMMA RecordsAfterProviding ==
    ASSUME NEW x \in PeerManagers, NEW p, NEW id, NEW frag
    PROVE  InsertPeerInfo(InsertKfragProvider(x, p, id, frag), p).agent_vessel
              \subseteq x.agent_vessel
BY DEF InsertPeerInfo, InsertKfragProvider, PeerManagers

\* What the two storing handlers do to the records.
LEMMA RecordsAfterStore ==
    ASSUME NEW x, WellFormed(x), NEW n \in Node, NEW r \in Reverie
    PROVE  LET known == InsertReverieMetadata(
                          SetPeerInfoAgentVessel(x, n, VesselInfo(r)), VesselInfo(r))
           IN /\ InsertCfrag(known, r).agent_vessel
                    \subseteq x.agent_vessel \cup {VesselInfo(r)}
              /\ InsertReverie(known, r).agent_vessel
                    \subseteq x.agent_vessel \cup {VesselInfo(r)}
<1> DEFINE s == SetPeerInfoAgentVessel(x, n, VesselInfo(r))
           known == InsertReverieMetadata(s, VesselInfo(r))
<1>1. s \in PeerManagers /\ s.agent_vessel \subseteq x.agent_vessel \cup {VesselInfo(r)}
  BY VesselInfoType, SetPeerInfoAgentVesselWellFormed, RecordsAfterSet DEF WellFormed
<1>2. known.agent_vessel = s.agent_vessel
  <2> HIDE DEF s
  <2> QED BY <1>1 DEF InsertReverieMetadata, PeerManagers
<1>3. known \in PeerManagers
  BY StoreMetadataOK DEF WellFormed
<1> HIDE DEF known, s
<1>4. /\ InsertCfrag(known, r).agent_vessel = known.agent_vessel
      /\ InsertReverie(known, r).agent_vessel = known.agent_vessel
  BY <1>3 DEF InsertCfrag, InsertReverie, PeerManagers
<1> QED BY <1>1, <1>2, <1>4 DEF known, s

\* The agent and next vessel of a record made from a reverie.
LEMMA VesselInfoFields ==
    ASSUME NEW r
    PROVE  /\ VesselInfo(r).agent = r.agent /\ VesselInfo(r).nonce = r.nonce
           /\ VesselInfo(r).current_vessel = r.source
           /\ VesselInfo(r).next_vessel = r.target
BY DEF VesselInfo

-----------------------------------------------------------------------------
(* Steps that make no new token. *)

NoNewToken ==
    /\ created' = created
    /\ \A m \in msgs' : m.type = "SaveCiphertext" => m \in msgs
    /\ \A n \in Node : \A av \in pm'[n].agent_vessel :
          av.next_vessel = n => av \in pm[n].agent_vessel
    /\ \A n \in Node : inbox'[n] = inbox[n] \/ inbox'[n] = <<>>

LEMMA TokensLost ==
    ASSUME Inv, Tokens, NoNewToken
    PROVE  Tokens'
<1>0. \A n \in Node : \A i \in 1..Len(inbox'[n]) : inbox'[n] = inbox[n]
  BY DEF NoNewToken
<1>1. CiphertextsCurrent'
  BY DEF Tokens, CiphertextsCurrent, NoNewToken, Latest
<1>2. RecordsCurrent'
  BY DEF Tokens, RecordsCurrent, NoNewToken, Latest, Current
<1>3. RequestsCurrent'
  <2> SUFFICES ASSUME NEW q \in Node, NEW i \in 1..Len(inbox'[q])
               PROVE  LET x == inbox'[q][i] IN
                      /\ x.next_vessel = q /\ created'[x.agent] # <<>>
                      /\ x = VesselInfo(created'[x.agent][Len(created'[x.agent])])
    BY DEF RequestsCurrent, Current, Latest
  <2>1. inbox'[q][i] = inbox[q][i] /\ i \in 1..Len(inbox[q])
    BY <1>0
  <2>2. inbox[q][i].next_vessel = q /\ Current(inbox[q][i])
    BY <2>1 DEF Tokens, RequestsCurrent
  <2> QED BY <2>1, <2>2 DEF NoNewToken, Current, Latest
<1>4. CiphertextsUnique'
  BY DEF Tokens, CiphertextsUnique, NoNewToken
<1>5. CiphertextOrRecord'
  BY DEF Tokens, CiphertextOrRecord, NoNewToken
<1>6. CiphertextOrRequest'
  BY <1>0 DEF Tokens, CiphertextOrRequest, NoNewToken
<1>7. RecordOrRequest'
  BY <1>0 DEF Tokens, RecordOrRequest, NoNewToken
<1>8. RequestsUnique'
  BY <1>0 DEF Tokens, RequestsUnique
<1> QED BY <1>1, <1>2, <1>3, <1>4, <1>5, <1>6, <1>7, <1>8 DEF Tokens

\* What is left of an inbox without its head.
LEMMA InboxTail ==
    ASSUME Inv, NEW n \in Node, inbox[n] # <<>>,
           inbox' = [inbox EXCEPT ![n] = Tail(@)]
    PROVE  \A q \in Node : \A i \in 1..Len(inbox'[q]) :
              \/ q # n /\ i \in 1..Len(inbox[q]) /\ inbox'[q][i] = inbox[q][i]
              \/ q = n /\ i + 1 \in 1..Len(inbox[q]) /\ inbox'[q][i] = inbox[q][i + 1]
<1> SUFFICES ASSUME NEW q \in Node, NEW i \in 1..Len(inbox'[q])
             PROVE  \/ q # n /\ i \in 1..Len(inbox[q]) /\ inbox'[q][i] = inbox[q][i]
                    \/ /\ q = n /\ i + 1 \in 1..Len(inbox[q])
                       /\ inbox'[q][i] = inbox[q][i + 1]
  OBVIOUS
<1>1. inbox \in [Node -> Seq(AgentVesselInfo)]
  BY DEF Inv, QueueOK
<1>2. CASE q = n
  <2>1. inbox'[n] = Tail(inbox[n]) /\ inbox[n] \in Seq(AgentVesselInfo)
    BY <1>1
  <2>2. i \in 1..Len(Tail(inbox[n]))
    BY <1>2, <2>1
  <2>3. Len(Tail(inbox[n])) = Len(inbox[n]) - 1 /\ Len(inbox[n]) \in Nat
    BY <2>1, HeadTailProperties, LenProperties
  <2>4. Tail(inbox[n])[i] = inbox[n][i + 1]
    BY <2>1, <2>2, HeadTailProperties
  <2>5. i + 1 \in 1..Len(inbox[n])
    BY <2>2, <2>3
  <2>6. inbox'[n][i] = inbox[n][i + 1]
    BY <2>1, <2>4
  <2> QED BY <1>2, <2>5, <2>6
<1>3. CASE q # n
  BY <1>1, <1>3
<1> QED BY <1>2, <1>3

LEMMA RequestsStayUnique ==
    ASSUME Inv, RequestsUnique, NEW n \in Node, inbox[n] # <<>>,
           inbox' = [inbox EXCEPT ![n] = Tail(@)]
    PROVE  RequestsUnique'
<1>1. \A q \in Node : \A i \in 1..Len(inbox'[q]) :
         \/ q # n /\ i \in 1..Len(inbox[q]) /\ inbox'[q][i] = inbox[q][i]
         \/ q = n /\ i + 1 \in 1..Len(inbox[q]) /\ inbox'[q][i] = inbox[q][i + 1]
  BY InboxTail
<1> QED BY <1>1 DEF RequestsUnique

\* A request leaves the head of an inbox.
LEMMA RequestDropped ==
    ASSUME Inv, Tokens, NEW n \in Node, inbox[n] # <<>>,
           inbox' = [inbox EXCEPT ![n] = Tail(@)],
           UNCHANGED <<created, msgs, pm>>
    PROVE  Tokens'
<1>0. \A q \in Node : \A i \in 1..Len(inbox'[q]) :
         \/ q # n /\ i \in 1..Len(inbox[q]) /\ inbox'[q][i] = inbox[q][i]
         \/ q = n /\ i + 1 \in 1..Len(inbox[q]) /\ inbox'[q][i] = inbox[q][i + 1]
  BY InboxTail
<1>1. CiphertextsCurrent' /\ CiphertextsUnique' /\ CiphertextOrRecord' /\ RecordsCurrent'
  BY DEF Tokens, CiphertextsCurrent, CiphertextsUnique, CiphertextOrRecord,
         RecordsCurrent, Current, Latest
<1>2. RequestsCurrent'
  <2> SUFFICES ASSUME NEW q \in Node, NEW i \in 1..Len(inbox'[q])
               PROVE  LET x == inbox'[q][i] IN
                      /\ x.next_vessel = q /\ created'[x.agent] # <<>>
                      /\ x = VesselInfo(created'[x.agent][Len(created'[x.agent])])
    BY DEF RequestsCurrent, Current, Latest
  <2>1. PICK j \in 1..Len(inbox[q]) : inbox'[q][i] = inbox[q][j]
    BY <1>0
  <2>2. inbox[q][j].next_vessel = q /\ Current(inbox[q][j])
    BY DEF Tokens, RequestsCurrent
  <2> QED BY <2>1, <2>2 DEF Current, Latest
<1>3. CiphertextOrRequest'
  BY <1>0 DEF Tokens, CiphertextOrRequest
<1>4. RecordOrRequest'
  BY <1>0 DEF Tokens, RecordOrRequest
<1>5. RequestsUnique'
  BY RequestsStayUnique DEF Tokens
<1> QED BY <1>1, <1>2, <1>3, <1>4, <1>5 DEF Tokens

\* A step that makes no token and sends no fragment.
LEMMA QuietStep ==
    ASSUME Inv, Line, NoNewToken,
           \A m \in msgs' : m.type = "SaveFragment" => m \in msgs,
           \A n \in Node : n \notin conn'[n]
    PROVE  Line'
<1>1. Numbered'
  BY DEF Line, Numbered, NoNewToken
<1>2. Addressed'
  BY DEF Line, Addressed, NoNewToken
<1>3. Tokens'
  BY TokensLost DEF Line
<1> QED BY <1>1, <1>2, <1>3 DEF Line

\* Only the PeerManager of n changes, and n gets no record naming it as the
\* next vessel.
LEMMA OnlyPmChanges ==
    ASSUME Inv, Line, NEW n \in Node, NEW x, pm' = [pm EXCEPT ![n] = x],
           \A av \in x.agent_vessel : av.next_vessel = n => av \in pm[n].agent_vessel,
           \A m \in msgs' : m.type \in {"SaveCiphertext", "SaveFragment"} => m \in msgs,
           UNCHANGED <<created, inbox, conn>>
    PROVE  Line'
<1>1. \A q \in Node : \A av \in pm'[q].agent_vessel :
         av.next_vessel = q => av \in pm[q].agent_vessel
  BY DEF Inv, PmOK
<1>2. NoNewToken
  BY <1>1 DEF NoNewToken
<1> QED BY <1>2, QuietStep DEF Line, Addressed

\* A node that forgets everything holds no token.
LEMMA ForgetLosesTokens ==
    ASSUME Inv, Line, NEW n \in Node, Forget(n), created' = created,
           \A m \in msgs' : m.type \in {"SaveCiphertext", "SaveFragment"} => m \in msgs,
           \A q \in Node : q \notin conn'[q]
    PROVE  Line'
<1>1. NewPeerManager.agent_vessel = {}
  BY DEF NewPeerManager
<1>2. \A q \in Node : \A av \in pm'[q].agent_vessel : av \in pm[q].agent_vessel
  BY <1>1 DEF Forget, Inv, PmOK
<1>3. \A q \in Node : inbox'[q] = inbox[q] \/ inbox'[q] = <<>>
  BY DEF Forget, Inv, QueueOK
<1>4. NoNewToken
  BY <1>2, <1>3 DEF NoNewToken
<1> QED BY <1>4, QuietStep

LEMMA DisconnectIrreflexive ==
    ASSUME Line, NEW n \in Node, Disconnect(n)
    PROVE  \A q \in Node : q \notin conn'[q]
BY DEF Line, Addressed, Disconnect

LEMMA WedgeKeepsLine ==
    ASSUME Inv, Line, NEW n \in Node, Wedge(n),
           \A m \in msgs' : m.type \in {"SaveCiphertext", "SaveFragment"} => m \in msgs
    PROVE  Line'
BY ForgetLosesTokens, DisconnectIrreflexive DEF Wedge

LEMMA DropRespawnKeepsLine ==
    ASSUME Inv, Line, NEW n \in Node, inbox[n] # <<>>, DropRespawn(n)
    PROVE  Line'
<1>1. Tokens'
  BY RequestDropped DEF Line, DropRespawn
<1>2. Numbered' /\ Addressed'
  BY DEF Line, Numbered, Addressed, DropRespawn, loopVars
<1> QED BY <1>1, <1>2 DEF Line

\* Requests that move no token.
LEMMA RequestsKeepLine ==
    ASSUME Inv, Line, NEW n \in Node, NEW m \in msgs,
           \/ SaveFragmentRequest(n, m)
           \/ ProvidingFragmentRequest(n, m)
           \/ MarkRespawnCompleteRequest(n, m)
           \/ GetFragmentRequest(n, m)
           \/ GetFragmentRefused(n, m)
           \/ GetFragmentResponse(n, m)
           \/ ResponseChannelClosed(n, m)
           \/ LoseMessage(m)
    PROVE  Line'
<1> USE DEF Inbound
<1>0. /\ m \in Message /\ pm[n] \in PeerManagers /\ WellFormed(pm[n])
      /\ \A q \in Node : q \notin conn[q]
  BY DEF Inv, MsgsOK, PmOK, Line, Addressed
<1>a. \A ok : \A x \in Answer(m, ok) : x.type = "GetFragmentResponse"
  BY DEF Answer
<1>1. CASE SaveFragmentRequest(n, m)
  <2> DEFINE r == m.reverie
             known == InsertReverieMetadata(
                        SetPeerInfoAgentVessel(pm[n], n, VesselInfo(r)), VesselInfo(r))
             x == InsertCfrag(known, r)
  <2>1. r \in Reverie /\ n # r.target
    BY <1>0, <1>1, MessageFields DEF SaveFragmentRequest, Line, Addressed
  <2>2. x.agent_vessel \subseteq pm[n].agent_vessel \cup {VesselInfo(r)}
    BY <1>0, <2>1, RecordsAfterStore
  <2>3. pm' = [pm EXCEPT ![n] = x]
    BY <1>1 DEF SaveFragmentRequest
  <2>4. \A s \in msgs' : s.type \in {"SaveCiphertext", "SaveFragment"} => s \in msgs
    BY <1>1 DEF SaveFragmentRequest
  <2> HIDE DEF x
  <2>5. \A av \in x.agent_vessel : av.next_vessel = n => av \in pm[n].agent_vessel
    BY <2>1, <2>2, VesselInfoFields
  <2> QED BY <1>1, <2>3, <2>4, <2>5, OnlyPmChanges DEF SaveFragmentRequest, loopVars
<1>2. CASE ProvidingFragmentRequest(n, m)
  <2> DEFINE x == InsertPeerInfo(InsertKfragProvider(pm[n], m.from, m.id, m.frag), m.from)
  <2>1. x.agent_vessel \subseteq pm[n].agent_vessel
    BY <1>0, RecordsAfterProviding
  <2>2. pm' = [pm EXCEPT ![n] = x] /\ msgs' \subseteq msgs
    BY <1>2 DEF ProvidingFragmentRequest
  <2> HIDE DEF x
  <2> QED BY <1>2, <2>1, <2>2, OnlyPmChanges DEF ProvidingFragmentRequest, loopVars
<1>3. CASE MarkRespawnCompleteRequest(n, m)
  <2> DEFINE x == RemovePeer(pm[n], m.info.current_vessel)
  <2>1. x.agent_vessel \subseteq pm[n].agent_vessel
    BY <1>0, RecordsAfterRemovePeer
  <2>2. pm' = [pm EXCEPT ![n] = x] /\ msgs' \subseteq msgs
    BY <1>3 DEF MarkRespawnCompleteRequest
  <2> HIDE DEF x
  <2> QED BY <1>3, <2>1, <2>2, OnlyPmChanges DEF MarkRespawnCompleteRequest, loopVars
<1>4. CASE GetFragmentRequest(n, m)
  BY <1>0, <1>a, <1>4, QuietStep DEF GetFragmentRequest, NoNewToken, loopVars
<1>5. CASE GetFragmentRefused(n, m)
  <2>1. \A s \in msgs' : s.type \in {"SaveCiphertext", "SaveFragment"} => s \in msgs
    BY <1>a, <1>5 DEF GetFragmentRefused
  <2> QED BY <1>5, <2>1, WedgeKeepsLine DEF GetFragmentRefused
<1>6. CASE GetFragmentResponse(n, m)
  BY <1>0, <1>6, QuietStep DEF GetFragmentResponse, NoNewToken, loopVars
<1>7. CASE ResponseChannelClosed(n, m)
  <2>1. \A s \in msgs' : s.type \in {"SaveCiphertext", "SaveFragment"} => s \in msgs
    BY <1>a, <1>7 DEF ResponseChannelClosed
  <2> QED BY <1>7, <2>1, WedgeKeepsLine DEF ResponseChannelClosed
<1>8. CASE LoseMessage(m)
  <2>1. \A s \in msgs' : s.type \in {"SaveCiphertext", "SaveFragment"} => s \in msgs
    <3>1. CASE m.type = "GetFragment"
      BY <1>a, <1>8, <3>1 DEF LoseMessage
    <3>2. CASE m.type = "GetFragmentResponse"
      <4>1. msgs' = (msgs \ {m}) \cup {[m EXCEPT !.ok = FALSE]}
        BY <1>8, <3>2 DEF LoseMessage
      <4>2. [m EXCEPT !.ok = FALSE].type = "GetFragmentResponse"
        BY <1>0, <3>2 DEF Message
      <4> QED BY <4>1, <4>2
    <3>3. CASE m.type # "GetFragment" /\ m.type # "GetFragmentResponse"
      <4>1. msgs' = (msgs \ {m}) \cup {}
        BY <1>8, <3>3 DEF LoseMessage
      <4> QED BY <4>1
    <3> QED BY <3>1, <3>2, <3>3
  <2> QED BY <1>0, <1>8, <2>1, QuietStep DEF LoseMessage, NoNewToken, loopVars
<1> QED BY <1>1, <1>2, <1>3, <1>4, <1>5, <1>6, <1>7, <1>8

\* The listener up to the placement: requests are worked on or dropped.
LEMMA ListenerKeepsLine ==
    ASSUME Inv, Line, NEW n \in Node,
           \/ \E r \in pm[n].reverie : StartRespawn(n, r)
           \/ CollectCfrags(n)
           \/ CollectFails(n)
           \/ PlaceFails(n)
    PROVE  Line'
<1>0. \A q \in Node : q \notin conn[q]
  BY DEF Line, Addressed
<1>1. CASE \E r \in pm[n].reverie : StartRespawn(n, r)
  BY <1>0, <1>1, QuietStep DEF StartRespawn, NoNewToken, loopVars
<1>2. CASE CollectCfrags(n)
  BY <1>0, <1>2, QuietStep DEF CollectCfrags, NoNewToken, loopVars
<1>3. CASE CollectFails(n)
  <2>1. inbox[n] # <<>>
    BY <1>3 DEF CollectFails, AllAnswered, Inv, QueueOK, BusyListenerHasRequest
  <2> QED BY <1>3, <2>1, DropRespawnKeepsLine DEF CollectFails
<1>4. CASE PlaceFails(n)
  <2>1. inbox[n] # <<>>
    BY <1>4 DEF PlaceFails, Inv, QueueOK, BusyListenerHasRequest
  <2> QED BY <1>4, <2>1, DropRespawnKeepsLine DEF PlaceFails
<1> QED BY <1>1, <1>2, <1>3, <1>4

\* Connections, heartbeats, the DHT and failures lose tokens or leave them.
LEMMA NetworkKeepsLine ==
    ASSUME Inv, Line, NEW n \in Node, NEW p \in Node,
           \/ Heartbeat(n, p)
           \/ ConnectionEstablished(n, p)
           \/ SecondConnection(n, p)
           \/ ConnectionLost(n, p)
           \/ RoutingUpdated(n, p)
           \/ Bootstrap(n)
           \/ InternalHeartbeatFailure(n)
           \/ TriggerRestart(n)
           \/ Crash(n)
           \/ Restart(n)
    PROVE  Line'
<1>0. /\ \A q \in Node : q \notin conn[q] /\ pm[q] \in PeerManagers
      /\ conn \in [Node -> SUBSET Node]
  BY DEF Line, Addressed, Inv, PmOK, LoopOK
<1>1. CASE Heartbeat(n, p)
  <2> DEFINE x == UpdatePeerHeartbeat(pm[n], p)
  <2>1. x.agent_vessel \subseteq pm[n].agent_vessel
    BY <1>0, RecordsAfterHeartbeat
  <2>2. pm' = [pm EXCEPT ![n] = x]
    BY <1>1 DEF Heartbeat
  <2> HIDE DEF x
  <2> QED BY <1>1, <2>1, <2>2, OnlyPmChanges DEF Heartbeat, loopVars
<1>2. CASE ConnectionEstablished(n, p) \/ SecondConnection(n, p)
  <2>1. pm' = [pm EXCEPT ![n] = InsertPeerInfo(@, p), ![p] = InsertPeerInfo(@, n)]
    BY <1>2 DEF ConnectionEstablished, SecondConnection
  <2>2. \A q \in Node : pm'[q] \in {pm[q]} \cup {InsertPeerInfo(pm[q], o) : o \in Node}
                         \cup {InsertPeerInfo(InsertPeerInfo(pm[q], o), o) : o \in Node}
    BY <2>1 DEF Inv, PmOK
  <2>3. \A q, o \in Node : /\ InsertPeerInfo(pm[q], o) \in PeerManagers
                           /\ InsertPeerInfo(pm[q], o).agent_vessel \subseteq pm[q].agent_vessel
    BY <1>0, InsertPeerInfoWellFormed, RecordsAfterInsertPeerInfo DEF Inv, PmOK, WellFormed
  <2>4. \A q, o \in Node : InsertPeerInfo(InsertPeerInfo(pm[q], o), o).agent_vessel
                              \subseteq pm[q].agent_vessel
    BY <2>3, RecordsAfterInsertPeerInfo
  <2>5. \A q \in Node : pm'[q].agent_vessel \subseteq pm[q].agent_vessel
    BY <2>2, <2>3, <2>4
  <2>6. \A q \in Node : q \notin conn'[q]
    BY <1>0, <1>2 DEF ConnectionEstablished, SecondConnection
  <2>7. UNCHANGED <<inbox, msgs, created>>
    BY <1>2 DEF ConnectionEstablished, SecondConnection
  <2> QED BY <2>5, <2>6, <2>7, QuietStep DEF NoNewToken
<1>3. CASE ConnectionLost(n, p)
  <2>1. \A q \in Node : q \notin conn'[q]
    BY <1>0, <1>3 DEF ConnectionLost
  <2> QED BY <1>3, <2>1, QuietStep DEF ConnectionLost, NoNewToken
<1>4. CASE RoutingUpdated(n, p)
  <2> DEFINE x == InsertPeerInfo(pm[n], p)
  <2>1. x.agent_vessel \subseteq pm[n].agent_vessel
    BY <1>0, RecordsAfterInsertPeerInfo
  <2>2. pm' = [pm EXCEPT ![n] = x]
    BY <1>4 DEF RoutingUpdated
  <2> HIDE DEF x
  <2> QED BY <1>4, <2>1, <2>2, OnlyPmChanges DEF RoutingUpdated
<1>5. CASE Bootstrap(n)
  BY <1>0, <1>5, QuietStep DEF Bootstrap, NoNewToken
<1>6. CASE InternalHeartbeatFailure(n)
  <2>1. \A q \in Node : q \notin conn'[q]
    BY <1>6, DisconnectIrreflexive DEF InternalHeartbeatFailure
  <2>2. msgs' \subseteq msgs
    BY <1>6 DEF InternalHeartbeatFailure
  <2> QED BY <1>6, <2>1, <2>2, QuietStep DEF InternalHeartbeatFailure, NoNewToken
<1>7. CASE TriggerRestart(n)
  BY <1>0, <1>7, ForgetLosesTokens DEF TriggerRestart
<1>8. CASE Crash(n)
  <2>1. \A q \in Node : q \notin conn'[q]
    BY <1>8, DisconnectIrreflexive DEF Crash
  <2>2. msgs' \subseteq msgs
    BY <1>8 DEF Crash
  <2> QED BY <1>8, <2>1, <2>2, ForgetLosesTokens DEF Crash
<1>9. CASE Restart(n)
  BY <1>0, <1>9, QuietStep DEF Restart, NoNewToken
<1> QED BY <1>1, <1>2, <1>3, <1>4, <1>5, <1>6, <1>7, <1>8, <1>9

-----------------------------------------------------------------------------
(* Steps that move a token. *)

\* The ciphertext arrives: the message becomes the record.
LEMMA CiphertextBecomesRecord ==
    ASSUME Inv, Line, NEW n \in Node, NEW m \in msgs, SaveCiphertextRequest(n, m)
    PROVE  Line'
<1> DEFINE r == m.reverie
           known == InsertReverieMetadata(
                      SetPeerInfoAgentVessel(pm[n], n, VesselInfo(r)), VesselInfo(r))
           x == InsertReverie(known, r)
<1>0. m \in Message /\ WellFormed(pm[n]) /\ m.type = "SaveCiphertext" /\ m.to = n
  BY DEF Inv, MsgsOK, PmOK, SaveCiphertextRequest, Inbound
<1>1. r \in Reverie /\ r.target = n
  BY <1>0, MessageFields DEF Line, Addressed
<1>2. x.agent_vessel \subseteq pm[n].agent_vessel \cup {VesselInfo(r)}
  BY <1>0, <1>1, RecordsAfterStore
<1>3. /\ pm' = [pm EXCEPT ![n] = x]
      /\ msgs' = msgs \ {m}
      /\ UNCHANGED <<created, inbox, conn>>
  BY DEF SaveCiphertextRequest, loopVars
<1> HIDE DEF x
<1>4. \A q \in Node : \A av \in pm'[q].agent_vessel :
         av \in pm[q].agent_vessel \/ (q = n /\ av = VesselInfo(r))
  BY <1>2, <1>3 DEF Inv, PmOK
<1>5. created[r.agent] # <<>> /\ r = Latest(r.agent)
  BY <1>0 DEF Line, Tokens, CiphertextsCurrent
<1>6. Current(VesselInfo(r)) /\ VesselInfo(r).agent = r.agent
  BY <1>5, VesselInfoFields DEF Current
<1>7. CiphertextsCurrent' /\ CiphertextsUnique' /\ CiphertextOrRequest' /\ RequestsUnique'
  BY <1>3 DEF Line, Tokens, CiphertextsCurrent, CiphertextsUnique, CiphertextOrRequest,
              RequestsUnique, Latest
<1>12. RequestsCurrent'
  <2> SUFFICES ASSUME NEW q \in Node, NEW i \in 1..Len(inbox'[q])
               PROVE  LET y == inbox'[q][i] IN
                      /\ y.next_vessel = q /\ created'[y.agent] # <<>>
                      /\ y = VesselInfo(created'[y.agent][Len(created'[y.agent])])
    BY DEF RequestsCurrent, Current, Latest
  <2>1. inbox[q][i].next_vessel = q /\ Current(inbox[q][i])
    BY <1>3 DEF Line, Tokens, RequestsCurrent
  <2> QED BY <1>3, <2>1 DEF Current, Latest
<1>8. RecordsCurrent'
  <2> SUFFICES ASSUME NEW q \in Node, NEW av \in pm'[q].agent_vessel, av.next_vessel = q
               PROVE  /\ created'[av.agent] # <<>>
                      /\ av = VesselInfo(created'[av.agent][Len(created'[av.agent])])
    BY DEF RecordsCurrent, Current, Latest
  <2>1. Current(av)
    BY <1>4, <1>6 DEF Line, Tokens, RecordsCurrent
  <2> QED BY <1>3, <2>1 DEF Current, Latest
<1>9. CiphertextOrRecord'
  <2>1. \A s \in msgs' : s.type = "SaveCiphertext" => s \in msgs /\ s.reverie.agent # r.agent
    BY <1>0, <1>3 DEF Line, Tokens, CiphertextsUnique
  <2> QED BY <1>4, <1>6, <2>1 DEF Line, Tokens, CiphertextOrRecord
<1>10. RecordOrRequest'
  <2>1. \A q \in Node : \A i \in 1..Len(inbox[q]) : inbox[q][i].agent # r.agent
    BY <1>0 DEF Line, Tokens, CiphertextOrRequest
  <2> QED BY <1>3, <1>4, <1>6, <2>1 DEF Line, Tokens, RecordOrRequest
<1>11. Numbered' /\ Addressed'
  BY <1>3 DEF Line, Numbered, Addressed
<1> QED BY <1>7, <1>8, <1>9, <1>10, <1>11, <1>12 DEF Line, Tokens

\* A heartbeat timeout at the next vessel: the record becomes a request.
LEMMA RecordBecomesRequest ==
    ASSUME Inv, Line, NEW n \in Node, NEW p \in Node, PeerHeartbeatFailure(n, p)
    PROVE  Line'
<1> DEFINE hosted == {av \in pm[n].agent_vessel : av.current_vessel = p}
           mine == {av \in hosted : av.next_vessel = n}
           x == RemovePeer(pm[n], p)
<1>0. /\ UNCHANGED <<created, conn, msgs>>
      /\ pm[n] \in PeerManagers /\ pm \in [Node -> PeerManagers]
      /\ inbox \in [Node -> Seq(AgentVesselInfo)]
  BY DEF PeerHeartbeatFailure, loopVars, Inv, PmOK, QueueOK
<1>1. x.agent_vessel = {av \in pm[n].agent_vessel : av.current_vessel # p}
  BY <1>0, RecordsAfterRemovePeer
<1>2. \/ pm' = [pm EXCEPT ![n] = x] /\ UNCHANGED inbox
      \/ UNCHANGED <<pm, inbox>>
      \/ \E av \in mine : /\ inbox' = [inbox EXCEPT ![n] = Append(@, av)]
                          /\ pm' = [pm EXCEPT ![n] = x]
  BY DEF PeerHeartbeatFailure
<1> HIDE DEF x
<1>3. CASE pm' = [pm EXCEPT ![n] = x] /\ UNCHANGED inbox
  BY <1>0, <1>1, <1>3, OnlyPmChanges
<1>4. CASE UNCHANGED <<pm, inbox>>
  BY <1>0, <1>4, QuietStep DEF NoNewToken, Line, Addressed
<1>5. ASSUME NEW av \in mine, inbox' = [inbox EXCEPT ![n] = Append(@, av)],
             pm' = [pm EXCEPT ![n] = x]
      PROVE  Line'
  <2>1. /\ av \in pm[n].agent_vessel /\ av.next_vessel = n /\ av.current_vessel = p
        /\ av \in AgentVesselInfo
    BY <1>0 DEF PeerManagers
  <2>2. Current(av)
    BY <2>1 DEF Line, Tokens, RecordsCurrent
  \* The other records are of other agents: two current ones would be equal.
  <2>3. \A q \in Node : \A o \in pm'[q].agent_vessel : o.next_vessel = q =>
           o \in pm[q].agent_vessel /\ o.agent # av.agent
    <3> SUFFICES ASSUME NEW q \in Node, NEW o \in pm'[q].agent_vessel, o.next_vessel = q
                 PROVE  o \in pm[q].agent_vessel /\ o.agent # av.agent
      OBVIOUS
    <3>1. o \in pm[q].agent_vessel /\ (q = n => o.current_vessel # p)
      BY <1>0, <1>1, <1>5
    <3>2. Current(o)
      BY <3>1 DEF Line, Tokens, RecordsCurrent
    <3>3. ASSUME o.agent = av.agent PROVE FALSE
      <4>1. o = av
        BY <2>2, <3>2, <3>3 DEF Current
      <4> QED BY <2>1, <3>1, <4>1
    <3> QED BY <3>1, <3>3
  <2>4. \A q \in Node : \A i \in 1..Len(inbox'[q]) :
           \/ i \in 1..Len(inbox[q]) /\ inbox'[q][i] = inbox[q][i]
           \/ q = n /\ i = Len(inbox[n]) + 1 /\ inbox'[q][i] = av
    <3> SUFFICES ASSUME NEW q \in Node, NEW i \in 1..Len(inbox'[q])
                 PROVE  \/ i \in 1..Len(inbox[q]) /\ inbox'[q][i] = inbox[q][i]
                        \/ q = n /\ i = Len(inbox[n]) + 1 /\ inbox'[q][i] = av
      OBVIOUS
    <3>1. CASE q = n
      <4>1. inbox'[n] = Append(inbox[n], av) /\ inbox[n] \in Seq(AgentVesselInfo)
        BY <1>0, <1>5
      <4> QED BY <2>1, <3>1, <4>1, AppendProperties, LenProperties
    <3>2. CASE q # n
      BY <1>0, <1>5, <3>2
    <3> QED BY <3>1, <3>2
  <2>5. CiphertextsCurrent' /\ CiphertextsUnique'
    BY <1>0 DEF Line, Tokens, CiphertextsCurrent, CiphertextsUnique, Latest
  <2>6. RecordsCurrent'
    <3> SUFFICES ASSUME NEW q \in Node, NEW o \in pm'[q].agent_vessel, o.next_vessel = q
                 PROVE  /\ created'[o.agent] # <<>>
                        /\ o = VesselInfo(created'[o.agent][Len(created'[o.agent])])
      BY DEF RecordsCurrent, Current, Latest
    <3>1. Current(o)
      BY <2>3 DEF Line, Tokens, RecordsCurrent
    <3> QED BY <1>0, <3>1 DEF Current, Latest
  <2>7. RequestsCurrent'
    <3> SUFFICES ASSUME NEW q \in Node, NEW i \in 1..Len(inbox'[q])
                 PROVE  LET y == inbox'[q][i] IN
                        /\ y.next_vessel = q /\ created'[y.agent] # <<>>
                        /\ y = VesselInfo(created'[y.agent][Len(created'[y.agent])])
      BY DEF RequestsCurrent, Current, Latest
    <3>1. inbox'[q][i].next_vessel = q /\ Current(inbox'[q][i])
      BY <2>1, <2>2, <2>4 DEF Line, Tokens, RequestsCurrent
    <3> QED BY <1>0, <3>1 DEF Current, Latest
  <2>8. CiphertextOrRecord'
    BY <1>0, <2>3 DEF Line, Tokens, CiphertextOrRecord
  <2>9. CiphertextOrRequest'
    <3>1. \A m \in msgs : m.type = "SaveCiphertext" => m.reverie.agent # av.agent
      BY <2>1 DEF Line, Tokens, CiphertextOrRecord
    <3> QED BY <1>0, <2>4, <3>1 DEF Line, Tokens, CiphertextOrRequest
  <2>10. RecordOrRequest'
    BY <2>3, <2>4 DEF Line, Tokens, RecordOrRequest
  <2>11. RequestsUnique'
    <3>1. \A q \in Node : \A i \in 1..Len(inbox[q]) : inbox[q][i].agent # av.agent
      BY <2>1 DEF Line, Tokens, RecordOrRequest
    <3> SUFFICES ASSUME NEW q \in Node, NEW o \in Node,
                        NEW i \in 1..Len(inbox'[q]), NEW j \in 1..Len(inbox'[o]),
                        inbox'[q][i].agent = inbox'[o][j].agent
                 PROVE  q = o /\ i = j
      BY DEF RequestsUnique
    <3>2. CASE i \in 1..Len(inbox[q]) /\ inbox'[q][i] = inbox[q][i]
      <4>1. inbox'[o][j] # av
        BY <3>1, <3>2
      <4>2. j \in 1..Len(inbox[o]) /\ inbox'[o][j] = inbox[o][j]
        BY <2>4, <4>1
      <4> QED BY <3>2, <4>2 DEF Line, Tokens, RequestsUnique
    <3>3. CASE q = n /\ i = Len(inbox[n]) + 1 /\ inbox'[q][i] = av
      <4>1. o = n /\ j = Len(inbox[n]) + 1
        BY <2>4, <3>1, <3>3
      <4> QED BY <3>3, <4>1
    <3> QED BY <2>4, <3>2, <3>3
  <2>12. Numbered' /\ Addressed'
    BY <1>0 DEF Line, Numbered, Addressed
  <2> QED BY <2>5, <2>6, <2>7, <2>8, <2>9, <2>10, <2>11, <2>12 DEF Line, Tokens
<1> QED BY <1>2, <1>3, <1>4, <1>5

\* Node n makes reverie r for agent a, which has no token but, at most, the
\* request that leaves an inbox in this step.
NewReverieStep(n, a, r) ==
    /\ r \in Reverie /\ r.agent = a /\ r.nonce = Len(created[a])
    /\ \A i \in 1..TotalFrags : r.providers[i] # r.target
    /\ created' = [created EXCEPT ![a] = Append(@, r)]
    /\ \A m \in msgs' : m.type \in {"SaveCiphertext", "SaveFragment"} =>
          m \in msgs \cup BroadcastMsgs(n, r)
    /\ \A q \in Node : \A av \in pm'[q].agent_vessel :
          av.next_vessel = q => av \in pm[q].agent_vessel
    /\ \A m \in msgs : m.type = "SaveCiphertext" => m.reverie.agent # a
    /\ \A q \in Node : \A av \in pm[q].agent_vessel :
          av.next_vessel = q => av.agent # a
    /\ \A q \in Node : \A i \in 1..Len(inbox'[q]) :
          /\ inbox'[q][i].agent # a
          /\ \E j \in 1..Len(inbox[q]) : inbox'[q][i] = inbox[q][j]
    /\ conn' = conn

\* The ciphertext of the new reverie is the agent's new token.
LEMMA NewToken ==
    ASSUME Inv, Line, NEW n \in Node, NEW a \in Agent, NEW r,
           NewReverieStep(n, a, r), RequestsUnique'
    PROVE  Line'
<1> USE DEF NewReverieStep
<1> DEFINE c == [type |-> "SaveCiphertext", from |-> n, sender |-> boot[n],
                 to |-> r.target, reverie |-> r]
<1>1. /\ created \in [Agent -> Seq(Reverie)] /\ msgs \in SUBSET Message
      /\ pm \in [Node -> PeerManagers] /\ inbox \in [Node -> Seq(AgentVesselInfo)]
  BY DEF Inv, RestOK, MsgsOK, PmOK, QueueOK
<1>2. /\ created'[a] = Append(created[a], r) /\ Len(created[a]) \in Nat
      /\ Len(created'[a]) = Len(created[a]) + 1
      /\ created'[a][Len(created[a]) + 1] = r
      /\ \A k \in 1..Len(created[a]) : created'[a][k] = created[a][k]
      /\ created'[a] # <<>>
  BY <1>1, AppendProperties, LenProperties
<1>3. \A b \in Agent : b # a => created'[b] = created[b]
  BY <1>1
<1>4. \A m \in msgs' : m.type = "SaveCiphertext" => m = c \/ m \in msgs
  BY DEF BroadcastMsgs
<1>5. \A m \in msgs' : m.type = "SaveFragment" =>
         m \in msgs \/ m.to # m.reverie.target
  BY DEF BroadcastMsgs
<1>6. c.reverie = r /\ c.to = r.target
  OBVIOUS
<1> HIDE DEF c
<1>7. Numbered'
  <2> SUFFICES ASSUME NEW b \in Agent, NEW k \in 1..Len(created'[b])
               PROVE  created'[b][k].agent = b /\ created'[b][k].nonce = k - 1
    BY DEF Numbered
  <2>1. CASE b = a /\ k = Len(created[a]) + 1
    BY <1>2, <2>1
  <2>2. CASE b = a /\ k # Len(created[a]) + 1
    <3>1. k \in 1..Len(created[a])
      BY <1>2, <2>2
    <3> QED BY <1>2, <2>2, <3>1 DEF Line, Numbered
  <2>3. CASE b # a
    BY <1>3, <2>3 DEF Line, Numbered
  <2> QED BY <2>1, <2>2, <2>3
<1>8. Addressed'
  BY <1>4, <1>5, <1>6 DEF Line, Addressed
<1>9. CiphertextsCurrent'
  <2> SUFFICES ASSUME NEW m \in msgs', m.type = "SaveCiphertext"
               PROVE  LET b == m.reverie.agent IN
                      created'[b] # <<>> /\ m.reverie = created'[b][Len(created'[b])]
    BY DEF CiphertextsCurrent, Latest
  <2>1. CASE m = c
    BY <1>2, <1>6, <2>1
  <2>2. CASE m \in msgs
    <3>1. m.reverie.agent \in Agent
      BY <1>1, <2>2, MessageFields DEF Reverie
    <3> QED BY <1>3, <2>2, <3>1 DEF Line, Tokens, CiphertextsCurrent, Latest
  <2> QED BY <1>4, <2>1, <2>2
\* What was current and is not of agent a still is.
<1>10. \A av \in AgentVesselInfo : av.agent # a /\ Current(av) =>
          /\ created'[av.agent] # <<>>
          /\ av = VesselInfo(created'[av.agent][Len(created'[av.agent])])
  BY <1>3 DEF Current, Latest, AgentVesselInfo
<1>11. RecordsCurrent'
  <2> SUFFICES ASSUME NEW q \in Node, NEW o \in pm'[q].agent_vessel, o.next_vessel = q
               PROVE  /\ created'[o.agent] # <<>>
                      /\ o = VesselInfo(created'[o.agent][Len(created'[o.agent])])
    BY DEF RecordsCurrent, Current, Latest
  <2>1. o \in pm[q].agent_vessel /\ o.agent # a /\ Current(o)
    BY DEF Line, Tokens, RecordsCurrent
  <2>2. o \in AgentVesselInfo
    BY <1>1, <2>1 DEF PeerManagers
  <2> QED BY <1>10, <2>1, <2>2
<1>12. RequestsCurrent'
  <2> SUFFICES ASSUME NEW q \in Node, NEW i \in 1..Len(inbox'[q])
               PROVE  LET y == inbox'[q][i] IN
                      /\ y.next_vessel = q /\ created'[y.agent] # <<>>
                      /\ y = VesselInfo(created'[y.agent][Len(created'[y.agent])])
    BY DEF RequestsCurrent, Current, Latest
  <2>1. PICK j \in 1..Len(inbox[q]) : inbox'[q][i] = inbox[q][j]
    OBVIOUS
  <2>2. inbox[q][j].next_vessel = q /\ Current(inbox[q][j])
    BY DEF Line, Tokens, RequestsCurrent
  <2>3. inbox[q][j] \in AgentVesselInfo
    BY <1>1, ElementOfSeq
  <2> QED BY <1>10, <2>1, <2>2, <2>3
<1>13. CiphertextsUnique'
  BY <1>4, <1>6 DEF Line, Tokens, CiphertextsUnique
<1>14. CiphertextOrRecord'
  BY <1>4, <1>6 DEF Line, Tokens, CiphertextOrRecord
<1>15. CiphertextOrRequest'
  BY <1>4, <1>6 DEF Line, Tokens, CiphertextOrRequest
<1>16. RecordOrRequest'
  <2> SUFFICES ASSUME NEW q \in Node, NEW o \in pm'[q].agent_vessel, o.next_vessel = q,
                      NEW k \in Node, NEW i \in 1..Len(inbox'[k])
               PROVE  inbox'[k][i].agent # o.agent
    BY DEF RecordOrRequest
  <2>1. PICK j \in 1..Len(inbox[k]) : inbox'[k][i] = inbox[k][j]
    OBVIOUS
  <2>2. o \in pm[q].agent_vessel
    OBVIOUS
  <2>3. inbox[k][j].agent # o.agent
    BY <2>2 DEF Line, Tokens, RecordOrRequest
  <2> QED BY <2>1, <2>3
<1> QED BY <1>7, <1>8, <1>9, <1>11, <1>12, <1>13, <1>14, <1>15, <1>16 DEF Line, Tokens

\* The agent's first token.
LEMMA SpawnKeepsLine ==
    ASSUME Inv, Line, NEW n \in Node, NEW a \in Agent, NEW target \in Node,
           NEW providers \in Providers, SpawnAgent(n, a, target, providers)
    PROVE  Line'
<1> DEFINE r == NewReverie(n, a, 0, target, providers)
<1>1. r \in Reverie /\ r.agent = a /\ r.nonce = 0 /\ r.target = target
      /\ r.providers = providers
  BY NewReverieType DEF Providers, NewReverie
<1>2. created[a] = <<>> /\ Len(created[a]) = 0 /\ CanPlace(n, target, providers)
  BY DEF SpawnAgent
<1>3. target # n /\ \A i \in 1..TotalFrags : providers[i] # target
  BY <1>2 DEF CanPlace, ProspectVessels, Line, Addressed
<1> HIDE DEF r
<1>4. /\ created' = [created EXCEPT ![a] = Append(@, r)]
      /\ msgs' = msgs \cup BroadcastMsgs(n, r)
      /\ pm' = [pm EXCEPT ![n] = SetPeerInfoAgentVessel(@, n, VesselInfo(r))]
      /\ UNCHANGED <<inbox, conn>>
  BY DEF SpawnAgent, r, loopVars
<1>5. \A q \in Node : \A av \in pm'[q].agent_vessel :
         av.next_vessel = q => av \in pm[q].agent_vessel
  <2> DEFINE x == SetPeerInfoAgentVessel(pm[n], n, VesselInfo(r))
  <2>1. pm \in [Node -> PeerManagers] /\ pm' = [pm EXCEPT ![n] = x]
    BY <1>4 DEF Inv, PmOK
  <2>2. x.agent_vessel \subseteq pm[n].agent_vessel \cup {VesselInfo(r)}
    BY <2>1, RecordsAfterSet
  <2> HIDE DEF x
  <2> QED BY <1>1, <1>3, <2>1, <2>2, VesselInfoFields
<1>6. \A m \in msgs : m.type = "SaveCiphertext" => m.reverie.agent # a
  BY <1>2 DEF Line, Tokens, CiphertextsCurrent
<1>7. \A q \in Node : \A av \in pm[q].agent_vessel : av.next_vessel = q => av.agent # a
  BY <1>2 DEF Line, Tokens, RecordsCurrent, Current
<1>8. \A q \in Node : \A i \in 1..Len(inbox[q]) : inbox[q][i].agent # a
  BY <1>2 DEF Line, Tokens, RequestsCurrent, Current
<1>9. RequestsUnique'
  BY <1>4 DEF Line, Tokens, RequestsUnique
<1>10. NewReverieStep(n, a, r)
  BY <1>1, <1>2, <1>3, <1>4, <1>5, <1>6, <1>7, <1>8 DEF NewReverieStep
<1> QED BY <1>9, <1>10, NewToken

\* The request being handled is for the latest reverie of its agent.
LEMMA PlacedIsLatest ==
    ASSUME Inv, Line, NEW n \in Node, task[n].pc = "place"
    PROVE  LET prev == Head(inbox[n]) IN
           /\ inbox[n] # <<>> /\ 1 \in 1..Len(inbox[n]) /\ prev = inbox[n][1]
           /\ prev \in AgentVesselInfo /\ prev.next_vessel = n /\ Current(prev)
           /\ prev.nonce + 1 = Len(created[prev.agent])
           /\ Len(created[prev.agent]) \in Nat \ {0}
<1> DEFINE prev == Head(inbox[n])
<1>1. inbox[n] # <<>> /\ inbox[n] \in Seq(AgentVesselInfo)
  BY DEF Inv, QueueOK, BusyListenerHasRequest
<1>2. /\ 1 \in 1..Len(inbox[n]) /\ prev = inbox[n][1]
      /\ prev \in AgentVesselInfo
  BY <1>1, HeadTailProperties, LenProperties, EmptySeq
<1>3. prev.next_vessel = n /\ Current(prev)
  BY <1>2 DEF Line, Tokens, RequestsCurrent
<1> HIDE DEF prev
<1>4. prev.agent \in Agent /\ created[prev.agent] \in Seq(Reverie)
  BY <1>2 DEF AgentVesselInfo, Inv, RestOK
<1>5. /\ Len(created[prev.agent]) \in Nat \ {0}
      /\ Len(created[prev.agent]) \in 1..Len(created[prev.agent])
  BY <1>3, <1>4, LenProperties, EmptySeq DEF Current
<1>6. prev.nonce = Latest(prev.agent).nonce
  BY <1>3, VesselInfoFields DEF Current
<1>7. Latest(prev.agent).nonce = Len(created[prev.agent]) - 1
  BY <1>4, <1>5 DEF Line, Numbered, Latest
<1> QED BY <1>1, <1>2, <1>3, <1>5, <1>6, <1>7 DEF prev

\* The request becomes the next reverie and the ciphertext that carries it.
LEMMA RequestBecomesCiphertext ==
    ASSUME Inv, Line, NEW n \in Node, NEW target \in Node,
           NEW providers \in Providers, PlaceAgent(n, target, providers)
    PROVE  Line'
<1> DEFINE prev == Head(inbox[n])
           a == prev.agent
           r == NewReverie(n, a, NextNonce(prev), target, providers)
           x == SetPeerInfoAgentVessel(pm[n], n, VesselInfo(r))
           done == RemovePeer(x, prev.current_vessel)
           marks == MarkCompleteMsgs(n, done, prev)
<1>1. /\ inbox[n] # <<>> /\ 1 \in 1..Len(inbox[n]) /\ prev = inbox[n][1]
      /\ prev \in AgentVesselInfo /\ prev.next_vessel = n /\ Current(prev)
      /\ prev.nonce + 1 = Len(created[a])
  BY PlacedIsLatest DEF PlaceAgent
<1>2. /\ created' = [created EXCEPT ![a] = Append(@, r)]
      /\ msgs' = msgs \cup BroadcastMsgs(n, r) \cup marks
      /\ pm' = [pm EXCEPT ![n] = done]
      /\ inbox' = [inbox EXCEPT ![n] = Tail(@)]
      /\ conn' = conn /\ CanPlace(n, target, providers)
  BY DEF PlaceAgent, loopVars
<1> HIDE DEF prev
<1>3. a \in Agent /\ NextNonce(prev) \in Nat /\ NextNonce(prev) = Len(created[a])
  BY <1>1 DEF AgentVesselInfo, NextNonce
<1>4. r \in Reverie /\ r.agent = a /\ r.nonce = Len(created[a]) /\ r.target = target
      /\ r.providers = providers
  BY <1>3, NewReverieType DEF Providers, NewReverie
<1>5. target # n /\ \A i \in 1..TotalFrags : providers[i] # target
  BY <1>2 DEF CanPlace, ProspectVessels, Line, Addressed
<1> HIDE DEF r
<1>6. \A m \in marks : m.type = "MarkRespawnComplete"
  BY DEF MarkCompleteMsgs
<1> HIDE DEF marks
<1>7. done.agent_vessel \subseteq pm[n].agent_vessel \cup {VesselInfo(r)}
  <2>1. WellFormed(x) /\ x \in PeerManagers
    BY <1>4, VesselInfoType, SetPeerInfoAgentVesselWellFormed DEF Inv, PmOK, WellFormed
  <2>2. x.agent_vessel \subseteq pm[n].agent_vessel \cup {VesselInfo(r)}
    BY RecordsAfterSet DEF Inv, PmOK
  <2> HIDE DEF x
  <2> QED BY <2>1, <2>2, RecordsAfterRemovePeer
<1> HIDE DEF done
<1>8. \A q \in Node : \A av \in pm'[q].agent_vessel :
         av.next_vessel = q => av \in pm[q].agent_vessel
  BY <1>2, <1>4, <1>5, <1>7, VesselInfoFields DEF Inv, PmOK
<1>9. \A m \in msgs : m.type = "SaveCiphertext" => m.reverie.agent # a
  BY <1>1 DEF Line, Tokens, CiphertextOrRequest
<1>10. \A q \in Node : \A av \in pm[q].agent_vessel : av.next_vessel = q => av.agent # a
  BY <1>1 DEF Line, Tokens, RecordOrRequest
<1>11. \A q \in Node : \A i \in 1..Len(inbox'[q]) :
          \/ q # n /\ i \in 1..Len(inbox[q]) /\ inbox'[q][i] = inbox[q][i]
          \/ q = n /\ i + 1 \in 1..Len(inbox[q]) /\ inbox'[q][i] = inbox[q][i + 1]
  BY <1>1, <1>2, InboxTail
<1>12. \A q \in Node : \A i \in 1..Len(inbox'[q]) :
          /\ inbox'[q][i].agent # a
          /\ \E j \in 1..Len(inbox[q]) : inbox'[q][i] = inbox[q][j]
  <2> SUFFICES ASSUME NEW q \in Node, NEW i \in 1..Len(inbox'[q])
               PROVE  /\ inbox'[q][i].agent # a
                      /\ \E j \in 1..Len(inbox[q]) : inbox'[q][i] = inbox[q][j]
    OBVIOUS
  <2>1. PICK j \in 1..Len(inbox[q]) : inbox'[q][i] = inbox[q][j] /\ (q # n \/ j # 1)
    BY <1>11
  <2>2. inbox[q][j].agent # a
    BY <1>1, <2>1 DEF Line, Tokens, RequestsUnique
  <2> QED BY <2>1, <2>2
<1>13. RequestsUnique'
  BY <1>1, <1>2, RequestsStayUnique DEF Line, Tokens
<1>14. \A m \in msgs' : m.type \in {"SaveCiphertext", "SaveFragment"} =>
          m \in msgs \cup BroadcastMsgs(n, r)
  BY <1>2, <1>6
<1> HIDE DEF a
<1>15. NewReverieStep(n, a, r)
  BY <1>2, <1>4, <1>5, <1>8, <1>9, <1>10, <1>12, <1>14 DEF NewReverieStep
<1> QED BY <1>3, <1>13, <1>15, NewToken

-----------------------------------------------------------------------------

LEMMA InitLine == Init => Line
<1> SUFFICES ASSUME Init PROVE Line
  OBVIOUS
<1>1. \A n \in Node : inbox[n] = <<>> /\ pm[n].agent_vessel = {} /\ n \notin conn[n]
  BY DEF Init, NewPeerManager
<1>2. \A a \in Agent : created[a] = <<>>
  BY DEF Init
<1>3. msgs = {}
  BY DEF Init
<1> QED BY <1>1, <1>2, <1>3
    DEF Line, Numbered, Addressed, Tokens, CiphertextsCurrent, RecordsCurrent,
        RequestsCurrent, CiphertextsUnique, CiphertextOrRecord, CiphertextOrRequest,
        RecordOrRequest, RequestsUnique

LEMMA NextLine == Inv /\ Line /\ [Next]_vars => Line'
<1> SUFFICES ASSUME Inv, Line, [Next]_vars PROVE Line'
  OBVIOUS
<1>1. CASE Environment
  BY <1>1, SpawnKeepsLine, NetworkKeepsLine DEF Environment
<1>2. CASE \E n \in Node : Listener(n) \/ TriggerRestart(n) \/ Restart(n)
  BY <1>2, ListenerKeepsLine, RequestBecomesCiphertext, NetworkKeepsLine
  DEF Listener, Place
<1>3. CASE \E n \in Node, m \in msgs : Deliver(n, m) \/ ResponseChannelClosed(n, m)
  BY <1>3, RequestsKeepLine, CiphertextBecomesRecord DEF Deliver
<1>4. CASE \E m \in msgs : LoseMessage(m)
  <2> PICK m \in msgs : LoseMessage(m)
    BY <1>4
  <2>1. m.to \in Node
    BY MessageFields DEF Inv, MsgsOK
  <2> QED BY <2>1, RequestsKeepLine
<1>5. CASE \E n, p \in Node : \/ PeerHeartbeatFailure(n, p)
                              \/ Heartbeat(n, p)
                              \/ ConnectionEstablished(n, p)
  BY <1>5, RecordBecomesRequest, NetworkKeepsLine
<1>6. CASE UNCHANGED vars
  BY <1>6, QuietStep DEF vars, NoNewToken, Line, Addressed
<1> QED BY <1>1, <1>2, <1>3, <1>4, <1>5, <1>6 DEF Next

LEMMA LineAlways == Spec => [](Inv /\ Line)
<1>1. Init => Inv /\ Line
  BY InitInv, InitLine
<1>2. (Inv /\ Line) /\ [Next]_vars => (Inv /\ Line)'
  BY NextInv, NextLine
<1> QED BY <1>1, <1>2, PTL DEF Spec

-----------------------------------------------------------------------------
(* The refinement. *)

\* The line of an agent is a sequence as long as its history.
LEMMA IncarnationsSeq ==
    ASSUME Inv, NEW a \in Agent
    PROVE  /\ Incarnations[a] \in Seq(Lineage!Incarnation)
           /\ Len(Incarnations[a]) = Len(created[a])
           /\ \A k \in 1..Len(created[a]) :
                 Incarnations[a][k] = IncarnationOf(created[a][k])
<1>1. created[a] \in Seq(Reverie) /\ DOMAIN created[a] = 1..Len(created[a])
      /\ Len(created[a]) \in Nat
  BY LenProperties DEF Inv, RestOK
<1>2. \A k \in 1..Len(created[a]) : IncarnationOf(created[a][k]) \in Lineage!Incarnation
  <2> TAKE k \in 1..Len(created[a])
  <2>1. created[a][k] \in Reverie
    BY <1>1, ElementOfSeq
  <2> QED BY <2>1 DEF IncarnationOf, Lineage!Incarnation, Reverie
<1>3. Incarnations[a] = [k \in 1..Len(created[a]) |-> IncarnationOf(created[a][k])]
  BY <1>1 DEF Incarnations
<1> QED BY <1>1, <1>2, <1>3

\* Making a reverie appends its incarnation.
LEMMA IncarnationAppended ==
    ASSUME Inv, Inv', NEW a \in Agent, NEW r \in Reverie,
           created' = [created EXCEPT ![a] = Append(@, r)]
    PROVE  Incarnations' =
              [Incarnations EXCEPT ![a] = Append(@, IncarnationOf(r))]
<1>0. created \in [Agent -> Seq(Reverie)]
  BY DEF Inv, RestOK
<1>1. IncarnationOf(r) \in Lineage!Incarnation
  BY DEF IncarnationOf, Lineage!Incarnation, Reverie
<1>2. /\ Incarnations[a] \in Seq(Lineage!Incarnation)
      /\ Len(Incarnations[a]) = Len(created[a])
      /\ \A k \in 1..Len(created[a]) :
            Incarnations[a][k] = IncarnationOf(created[a][k])
  BY IncarnationsSeq
<1>3. created'[a] = Append(created[a], r)
  BY <1>0
<1>4. /\ Len(created[a]) \in Nat /\ Len(created'[a]) = Len(created[a]) + 1
      /\ created'[a][Len(created[a]) + 1] = r
      /\ \A k \in 1..Len(created[a]) : created'[a][k] = created[a][k]
      /\ DOMAIN created'[a] = 1..(Len(created[a]) + 1)
  BY <1>0, <1>3, AppendProperties, LenProperties
<1>5. Incarnations'[a] =
         [k \in 1..(Len(created[a]) + 1) |-> IncarnationOf(created'[a][k])]
  BY <1>4 DEF Incarnations
<1> DEFINE s == Incarnations[a]
           t == Append(s, IncarnationOf(r))
<1>6. /\ t \in Seq(Lineage!Incarnation) /\ Len(t) = Len(created[a]) + 1
      /\ t[Len(created[a]) + 1] = IncarnationOf(r)
      /\ \A k \in 1..Len(created[a]) : t[k] = s[k]
  BY <1>1, <1>2, AppendProperties
<1>7. t = [k \in 1..(Len(created[a]) + 1) |-> t[k]]
  BY <1>6, LenProperties
<1>8. \A k \in 1..(Len(created[a]) + 1) : t[k] = IncarnationOf(created'[a][k])
  <2> HIDE DEF t
  <2> TAKE k \in 1..(Len(created[a]) + 1)
  <2>1. CASE k = Len(created[a]) + 1
    BY <1>4, <1>6, <2>1
  <2>2. CASE k \in 1..Len(created[a])
    BY <1>2, <1>4, <1>6, <2>2
  <2> QED BY <1>4, <2>1, <2>2
<1> HIDE DEF t
<1>9. Incarnations'[a] = t
  BY <1>5, <1>7, <1>8
<1>10. \A b \in Agent : b # a => Incarnations'[b] = Incarnations[b]
  BY <1>0 DEF Incarnations
<1>11. /\ Incarnations = [b \in Agent |-> Incarnations[b]]
       /\ Incarnations' = [b \in Agent |-> Incarnations'[b]]
  BY DEF Incarnations
<1> QED BY <1>9, <1>10, <1>11 DEF t

\* Only a spawn and a placement touch the history.
LEMMA OthersKeepHistory ==
    ASSUME [Next]_vars
    PROVE  \/ \E n, target \in Node, a \in Agent, providers \in Providers :
                 SpawnAgent(n, a, target, providers)
           \/ \E n, target \in Node, providers \in Providers :
                 PlaceAgent(n, target, providers)
           \/ UNCHANGED created
<1>1. CASE Environment
  BY <1>1 DEF Environment, InternalHeartbeatFailure, Crash, Bootstrap, ConnectionLost,
              RoutingUpdated, SecondConnection
<1>2. ASSUME NEW n \in Node, Listener(n) \/ TriggerRestart(n) \/ Restart(n)
      PROVE  \/ \E target \in Node, providers \in Providers :
                   PlaceAgent(n, target, providers)
             \/ UNCHANGED created
  BY <1>2 DEF Listener, Place, StartRespawn, CollectCfrags,
              CollectFails, PlaceFails, DropRespawn, TriggerRestart, Restart
<1>3. ASSUME NEW n \in Node, NEW m \in msgs, Deliver(n, m) \/ ResponseChannelClosed(n, m)
      PROVE  UNCHANGED created
  BY <1>3 DEF Deliver, SaveFragmentRequest, ProvidingFragmentRequest,
              SaveCiphertextRequest, MarkRespawnCompleteRequest, GetFragmentRequest,
              GetFragmentRefused, GetFragmentResponse, ResponseChannelClosed, Wedge
<1>4. ASSUME NEW m \in msgs, LoseMessage(m)
      PROVE  UNCHANGED created
  BY <1>4 DEF LoseMessage
<1>5. ASSUME NEW n \in Node, NEW p \in Node,
             PeerHeartbeatFailure(n, p) \/ Heartbeat(n, p) \/ ConnectionEstablished(n, p)
      PROVE  UNCHANGED created
  BY <1>5 DEF PeerHeartbeatFailure, Heartbeat, ConnectionEstablished
<1>6. CASE UNCHANGED vars
  BY <1>6 DEF vars
<1> QED BY <1>1, <1>2, <1>3, <1>4, <1>5, <1>6 DEF Next

LEMMA StepRefines ==
    ASSUME Inv, Line, Inv', [Next]_vars
    PROVE  [Lineage!Next]_Incarnations
<1>1. ASSUME NEW n \in Node, NEW target \in Node, NEW a \in Agent,
             NEW providers \in Providers, SpawnAgent(n, a, target, providers)
      PROVE  Lineage!Next
  <2> DEFINE r == NewReverie(n, a, 0, target, providers)
             inc == [nonce |-> 0, vessel |-> n, next |-> target]
  <2>1. r \in Reverie /\ IncarnationOf(r) = inc
    BY NewReverieType DEF Providers, NewReverie, IncarnationOf
  <2>2. created[a] = <<>> /\ created' = [created EXCEPT ![a] = Append(@, r)]
    BY <1>1 DEF SpawnAgent
  <2>3. Incarnations[a] = <<>>
    BY <2>2, IncarnationsSeq, EmptySeq
  <2> HIDE DEF r
  <2>4. Incarnations' = [Incarnations EXCEPT ![a] = Append(@, inc)]
    BY <2>1, <2>2, IncarnationAppended
  <2>5. Append(<<>>, inc) = <<inc>>
    OBVIOUS
  <2>6. Lineage!Spawn(a, n, target)
    BY <2>3, <2>4, <2>5 DEF Lineage!Spawn
  <2> QED BY <2>6 DEF Lineage!Next
<1>2. ASSUME NEW n \in Node, NEW target \in Node, NEW providers \in Providers,
             PlaceAgent(n, target, providers)
      PROVE  Lineage!Next
  <2> DEFINE prev == Head(inbox[n])
             a == prev.agent
             r == NewReverie(n, a, NextNonce(prev), target, providers)
             last == created[a][Len(created[a])]
  <2>1. /\ prev \in AgentVesselInfo /\ prev.next_vessel = n /\ Current(prev)
        /\ Len(created[a]) \in Nat \ {0}
    BY <1>2, PlacedIsLatest DEF PlaceAgent
  <2>2. created' = [created EXCEPT ![a] = Append(@, r)]
    BY <1>2 DEF PlaceAgent
  <2> HIDE DEF prev
  <2>3. a \in Agent /\ NextNonce(prev) = prev.nonce + 1 /\ prev.nonce + 1 \in Nat
    BY <2>1 DEF AgentVesselInfo, NextNonce
  <2>4. prev.nonce = last.nonce /\ last.target = n
    BY <2>1, VesselInfoFields DEF Current, Latest
  <2>5. r \in Reverie
        /\ IncarnationOf(r) = [nonce |-> prev.nonce + 1, vessel |-> n, next |-> target]
    BY <2>3, NewReverieType DEF Providers, NewReverie, IncarnationOf
  <2> HIDE DEF r, a
  <2>6. /\ Len(Incarnations[a]) = Len(created[a])
        /\ Incarnations[a][Len(created[a])] = IncarnationOf(last)
        /\ Incarnations[a] # <<>>
    BY <2>1, <2>3, IncarnationsSeq, EmptySeq
  <2>7. /\ Incarnations[a][Len(Incarnations[a])].nonce = prev.nonce
        /\ Incarnations[a][Len(Incarnations[a])].next = n
    BY <2>4, <2>6 DEF IncarnationOf
  <2>8. Incarnations' = [Incarnations EXCEPT ![a] = Append(@, IncarnationOf(r))]
    BY <2>2, <2>3, <2>5, IncarnationAppended
  <2>9. Lineage!Reincarnate(a, target)
    BY <2>5, <2>6, <2>7, <2>8 DEF Lineage!Reincarnate, Lineage!Last
  <2> QED BY <2>3, <2>9 DEF Lineage!Next
<1>3. CASE UNCHANGED created
  BY <1>3 DEF Incarnations
<1> QED BY <1>1, <1>2, <1>3, OthersKeepHistory

\* The detailed protocol implements the abstract line of incarnations: whatever
\* is lost, delayed, suspected or restarted, every reverie made for an agent is
\* made by the next vessel of the one before, once, with the next nonce.
THEOREM LineageRefined == Spec => ImplementsLineage
<1>1. Init => Lineage!Init
  <2> SUFFICES ASSUME Init PROVE Incarnations = [a \in Agent |-> <<>>]
    BY DEF Lineage!Init
  <2>1. \A a \in Agent : created[a] = <<>> /\ Incarnations[a] = <<>>
    BY InitInv, IncarnationsSeq, EmptySeq DEF Init
  <2> QED BY <2>1 DEF Incarnations
<1>2. (Inv /\ Line) /\ (Inv /\ Line)' /\ [Next]_vars => [Lineage!Next]_Incarnations
  BY StepRefines
<1> QED BY <1>1, <1>2, LineAlways, PTL DEF Spec, ImplementsLineage, Lineage!Spec

-----------------------------------------------------------------------------
(* One respawn per reverie. *)

LEMMA AtMostOne ==
    ASSUME NEW S, \A x, y \in S : x = y
    PROVE  Cardinality(S) \in {0, 1} /\ (Cardinality(S) = 1 => S # {})
<1>1. CASE S = {}
  BY <1>1, FS_EmptySet
<1>2. CASE S # {}
  <2> PICK x \in S : TRUE
    BY <1>2
  <2>1. S = {x}
    OBVIOUS
  <2>2. Cardinality({x}) = 1
    BY FS_Singleton
  <2> QED BY <1>2, <2>1, <2>2
<1> QED BY <1>1, <1>2

\* In a state of the invariant the places of a reverie's token exclude each
\* other and its successor.
LEMMA TokenExclusive ==
    ASSUME Inv, Line, NEW r \in Reveries
    PROVE  /\ r.agent \in Agent
           /\ \A x, y \in CiphertextsInFlight(r) : x = y
           /\ \A x, y \in RecordedAtTarget(r) : x = y
           /\ \A x, y \in Dispatched(r) : x = y
           /\ \A x, y \in Succeeded(r) : x = y
           /\ CiphertextsInFlight(r) # {} =>
                 RecordedAtTarget(r) = {} /\ Dispatched(r) = {} /\ Succeeded(r) = {}
           /\ RecordedAtTarget(r) # {} => Dispatched(r) = {} /\ Succeeded(r) = {}
           /\ Dispatched(r) # {} => Succeeded(r) = {}
<1>1. PICK a \in Agent : \E k \in DOMAIN created[a] : r = created[a][k]
  BY DEF Reveries, Created
<1>0. PICK k \in DOMAIN created[a] : r = created[a][k]
  BY <1>1
<1>2. /\ created[a] \in Seq(Reverie) /\ Len(created[a]) \in Nat
      /\ DOMAIN created[a] = 1..Len(created[a])
  BY LenProperties DEF Inv, RestOK
<1>3. r \in Reverie /\ r.agent = a /\ r.nonce = k - 1 /\ k \in 1..Len(created[a])
  BY <1>0, <1>2, ElementOfSeq DEF Line, Numbered
<1>4. r.target \in Node /\ VesselInfo(r).agent = a /\ VesselInfo(r).nonce = k - 1
      /\ VesselInfo(r).next_vessel = r.target
  BY <1>3, VesselInfoFields DEF Reverie
<1>5. inbox[r.target] \in Seq(AgentVesselInfo)
      /\ DOMAIN inbox[r.target] = 1..Len(inbox[r.target])
  BY <1>4, LenProperties DEF Inv, QueueOK
<1>6. Latest(a).nonce = Len(created[a]) - 1
  BY <1>2, <1>3 DEF Line, Numbered, Latest
\* A reverie with a successor is not the latest.
<1>7. \A s \in Succeeded(r) : /\ k + 1 \in 1..Len(created[a])
                               /\ s = created[a][k + 1]
  <2> TAKE s \in Succeeded(r)
  <2>1. PICK j \in 1..Len(created[a]) : s = created[a][j] /\ s.nonce = r.nonce + 1
    BY <1>2, <1>3 DEF Succeeded, Created
  <2>2. s.nonce = j - 1
    BY <2>1 DEF Line, Numbered
  <2>3. j = k + 1
    BY <1>3, <2>1, <2>2
  <2> QED BY <2>1, <2>3
<1>8. CiphertextsInFlight(r) # {} => r = Latest(a)
  BY <1>3 DEF CiphertextsInFlight, Line, Tokens, CiphertextsCurrent
<1>9. Current(VesselInfo(r)) => k = Len(created[a])
  <2>1. Current(VesselInfo(r)) => VesselInfo(r).nonce = Latest(a).nonce
    BY <1>4, VesselInfoFields DEF Current
  <2> QED BY <1>2, <1>3, <1>4, <1>6, <2>1
<1>10. r = Latest(a) => k = Len(created[a])
  BY <1>2, <1>3, <1>6
<1>11. RecordedAtTarget(r) # {} => Current(VesselInfo(r))
  BY <1>4 DEF RecordedAtTarget, Line, Tokens, RecordsCurrent
<1>12. Dispatched(r) # {} => Current(VesselInfo(r))
  BY <1>4, <1>5 DEF Dispatched, Line, Tokens, RequestsCurrent
<1>13. k = Len(created[a]) => Succeeded(r) = {}
  BY <1>2, <1>7
<1>14. \A x, y \in CiphertextsInFlight(r) : x = y
  BY DEF CiphertextsInFlight, Line, Tokens, CiphertextsUnique
<1>15. \A x, y \in RecordedAtTarget(r) : x = y
  BY DEF RecordedAtTarget
<1>16. \A x, y \in Dispatched(r) : x = y
  BY <1>4, <1>5 DEF Dispatched, Line, Tokens, RequestsUnique
<1>17. \A x, y \in Succeeded(r) : x = y
  BY <1>7
<1>18. CiphertextsInFlight(r) # {} => RecordedAtTarget(r) = {}
  BY <1>3, <1>4 DEF CiphertextsInFlight, RecordedAtTarget, Line, Tokens, CiphertextOrRecord
<1>19. CiphertextsInFlight(r) # {} => Dispatched(r) = {}
  BY <1>3, <1>4, <1>5 DEF CiphertextsInFlight, Dispatched, Line, Tokens, CiphertextOrRequest
<1>20. RecordedAtTarget(r) # {} => Dispatched(r) = {}
  BY <1>4, <1>5 DEF RecordedAtTarget, Dispatched, Line, Tokens, RecordOrRequest
<1> QED BY <1>3, <1>8, <1>9, <1>10, <1>11, <1>12, <1>13, <1>14, <1>15, <1>16, <1>17,
           <1>18, <1>19, <1>20

\* The right to respawn a reverie is in one place at most, and gone when the
\* successor exists: no order of timeouts, suspicions, restarts, lost and late
\* messages respawns a reverie twice.
THEOREM AtMostOneRespawn == Spec => []OneRespawnPerReverie
<1>1. Inv /\ Line => OneRespawnPerReverie
  <2> SUFFICES ASSUME Inv, Line, NEW r \in Reveries
               PROVE  Cardinality(CiphertextsInFlight(r)) + Cardinality(RecordedAtTarget(r))
                      + Cardinality(Dispatched(r)) + Cardinality(Succeeded(r)) <= 1
    BY DEF OneRespawnPerReverie
  <2>1. /\ Cardinality(CiphertextsInFlight(r)) \in {0, 1}
        /\ Cardinality(CiphertextsInFlight(r)) = 1 => CiphertextsInFlight(r) # {}
    BY TokenExclusive, AtMostOne
  <2>2. /\ Cardinality(RecordedAtTarget(r)) \in {0, 1}
        /\ Cardinality(RecordedAtTarget(r)) = 1 => RecordedAtTarget(r) # {}
    BY TokenExclusive, AtMostOne
  <2>3. /\ Cardinality(Dispatched(r)) \in {0, 1}
        /\ Cardinality(Dispatched(r)) = 1 => Dispatched(r) # {}
    BY TokenExclusive, AtMostOne
  <2>4. /\ Cardinality(Succeeded(r)) \in {0, 1}
        /\ Cardinality(Succeeded(r)) = 1 => Succeeded(r) # {}
    BY TokenExclusive, AtMostOne
  <2> QED BY <2>1, <2>2, <2>3, <2>4, TokenExclusive
<1> QED BY <1>1, LineAlways, PTL
=============================================================================
