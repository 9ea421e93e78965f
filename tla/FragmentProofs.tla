--------------------------- MODULE FragmentProofs ---------------------------
(***************************************************************************)
(* Who holds what of a reverie, and who gets its fragments, for any number *)
(* of nodes, agents, fragments, thresholds and failures.                   *)
(*                                                                         *)
(* Known: whatever a message or a PeerManager says of a reverie goes back  *)
(* to a reverie that was made, and is at a node that reverie names.        *)
(*                                                                         *)
(* Asking: a listener that collects fragments has, for every provider, one *)
(* of a request that can still be answered, an answer on its way, and an   *)
(* answer it has taken; a listener that does not has no request and no     *)
(* answer left.  So no late answer is counted for another reverie.         *)
(***************************************************************************)
EXTENDS LineageProofs

Provides(n, r) == \E i \in 1..TotalFrags : n = r.providers[i]

\* The next vessel holds no fragment, and the reverie names its key.
Placed(r) == ~Provides(r.target, r) /\ \E b \in Nat : r.verifying_key = <<r.target, b>>

\* The k-th reverie of an agent has that as its id.
Named ==
    \A a \in Agent : \A k \in 1..Len(created[a]) :
        created[a][k].id = <<a, k>> /\ Placed(created[a][k])

\* What a message says of the reveries in R.
MsgKnown(R, m) ==
    /\ m.type = "SaveFragment" => m.reverie \in R /\ Provides(m.to, m.reverie)
    /\ m.type = "SaveCiphertext" => m.reverie \in R /\ m.to = m.reverie.target
    /\ m.type = "ProvidingFragment" => m.from # m.to
    /\ m.type = "GetFragment" =>
          \E r \in R : r.id = m.id /\ m.from = r.target /\ Provides(m.to, r)
    /\ m.type = "GetFragmentResponse" =>
          \E r \in R : r.id = m.id /\ m.to = r.target /\ Provides(m.from, r)

\* What the PeerManager x of node n says of them.
PmKnown(R, n, x) ==
    /\ n \notin x.peer_info
    /\ \A av \in x.agent_vessel :
          \E r \in R : av = VesselInfo(r) /\ (n = r.target \/ Provides(n, r))
    /\ \A av \in x.agent_vessel :
          av.next_vessel = n => \E r \in x.reverie : r.id = av.reverie_id
    /\ \A c \in x.cfrags : c \in R /\ Provides(n, c)
    /\ \A c \in x.reverie : c \in R /\ n = c.target

RequestsKnown ==
    \A n \in Node : \A i \in 1..Len(inbox[n]) :
        \E r \in pm[n].reverie : r.id = inbox[n][i].reverie_id

Known ==
    /\ Named
    /\ \A m \in msgs : MsgKnown(Reveries, m)
    /\ \A n \in Node : PmKnown(Reveries, n, pm[n])
    /\ RequestsKnown

-----------------------------------------------------------------------------
(* Reveries and their ids. *)

LEMMA KnownReverie ==
    ASSUME Inv, Known, NEW r \in Reveries
    PROVE  r \in Reverie /\ Placed(r)
           /\ \E a \in Agent : \E k \in 1..Len(created[a]) :
                 r = created[a][k] /\ r.id = <<a, k>>
<1>1. PICK a \in Agent : \E k \in DOMAIN created[a] : r = created[a][k]
  BY DEF Reveries, Created
<1>2. PICK k \in DOMAIN created[a] : r = created[a][k]
  BY <1>1
<1>3. created[a] \in Seq(Reverie) /\ DOMAIN created[a] = 1..Len(created[a])
  BY LenProperties DEF Inv, RestOK
<1>4. r \in Reverie
  BY <1>2, <1>3, ElementOfSeq
<1> QED
  BY <1>2, <1>3, <1>4 DEF Known, Named

\* An id names one reverie.
LEMMA IdsUnique ==
    ASSUME Inv, Known, NEW r \in Reveries, NEW s \in Reveries, r.id = s.id
    PROVE  r = s
<1>1. PICK a \in Agent : \E k \in 1..Len(created[a]) : r = created[a][k] /\ r.id = <<a, k>>
  BY KnownReverie
<1>2. PICK k \in 1..Len(created[a]) : r = created[a][k] /\ r.id = <<a, k>>
  BY <1>1
<1>3. PICK b \in Agent : \E j \in 1..Len(created[b]) : s = created[b][j] /\ s.id = <<b, j>>
  BY KnownReverie
<1>4. PICK j \in 1..Len(created[b]) : s = created[b][j] /\ s.id = <<b, j>>
  BY <1>3
<1>5. a = b /\ k = j
  BY <1>2, <1>4
<1> QED
  BY <1>2, <1>4, <1>5

\* Making a reverie adds it, under a new id.
LEMMA ReverieMade ==
    ASSUME Inv, Known, NEW n \in Node, NEW a \in Agent, NEW nonce \in Nat,
           NEW target \in Node, NEW providers \in Providers,
           CanPlace(n, target, providers), NEW r,
           r = NewReverie(n, a, nonce, target, providers),
           created' = [created EXCEPT ![a] = Append(@, r)]
    PROVE  /\ Reveries' = Reveries \cup {r} /\ Named'
           /\ r \in Reverie /\ Placed(r)
<1>1. r \in Reverie
  BY NewReverieType DEF Providers
<1>2. /\ r.id = <<a, Len(created[a]) + 1>> /\ r.target = target /\ r.providers = providers
      /\ r.verifying_key = <<target, dht[target].boot>>
  BY DEF NewReverie
<1>3. dht[target].boot \in Nat
  BY DEF Inv, RestOK, VesselStatus
<1>4. Placed(r)
  BY <1>2, <1>3 DEF Placed, Provides, CanPlace
<1>5. created \in [Agent -> Seq(Reverie)]
  BY DEF Inv, RestOK
<1>6. /\ Len(created[a]) \in Nat /\ Len(created'[a]) = Len(created[a]) + 1
      /\ created'[a][Len(created[a]) + 1] = r
      /\ \A k \in 1..Len(created[a]) : created'[a][k] = created[a][k]
      /\ DOMAIN created'[a] = 1..(Len(created[a]) + 1)
      /\ DOMAIN created[a] = 1..Len(created[a])
  BY <1>1, <1>5, AppendProperties, LenProperties
<1>7. \A b \in Agent \ {a} : created'[b] = created[b]
  BY <1>5
<1>8. Created(a)' = Created(a) \cup {r}
  <2>1. \A k \in 1..(Len(created[a]) + 1) :
           k = Len(created[a]) + 1 \/ k \in 1..Len(created[a])
    BY <1>6
  <2>2. Len(created[a]) + 1 \in 1..(Len(created[a]) + 1)
    BY <1>6
  <2> QED
    BY <1>6, <2>1, <2>2 DEF Created
<1>9. \A b \in Agent \ {a} : Created(b)' = Created(b)
  BY <1>7 DEF Created
<1>10. Reveries' = Reveries \cup {r}
  BY <1>8, <1>9 DEF Reveries
<1>11. Named'
  <2> SUFFICES ASSUME NEW b \in Agent, NEW k \in 1..Len(created'[b])
               PROVE  created'[b][k].id = <<b, k>> /\ Placed(created'[b][k])
    BY DEF Named, Placed, Provides
  <2>1. CASE b = a /\ k = Len(created[a]) + 1
    BY <1>2, <1>4, <1>6, <2>1
  <2>2. CASE b # a \/ k \in 1..Len(created[a])
    <3>1. k \in 1..Len(created[b]) /\ created'[b][k] = created[b][k]
      BY <1>6, <1>7, <2>2
    <3> QED
      BY <3>1 DEF Known, Named
  <2> QED
    BY <1>6, <2>1, <2>2
<1> QED
  BY <1>1, <1>4, <1>10, <1>11

\* What is known stays known.
LEMMA MsgKnownGrows ==
    ASSUME NEW R, NEW S, R \subseteq S, NEW m, MsgKnown(R, m)
    PROVE  MsgKnown(S, m)
  BY DEF MsgKnown

LEMMA PmKnownGrows ==
    ASSUME NEW R, NEW S, R \subseteq S, NEW n, NEW x, PmKnown(R, n, x)
    PROVE  PmKnown(S, n, x)
  BY DEF PmKnown

-----------------------------------------------------------------------------
(* What the PeerManager methods do to what is known. *)

\* y knows no more vessels than x, not its own node n, and the same reveries.
NoMore(n, x, y) ==
    /\ n \notin y.peer_info /\ y.agent_vessel \subseteq x.agent_vessel
    /\ y.cfrags = x.cfrags /\ y.reverie = x.reverie

\* No reverie of x is missing in y.
Keeps(x, y) == \A r \in x.reverie : \E s \in y.reverie : s.id = r.id

LEMMA NoMoreKnown ==
    ASSUME NEW R, NEW n, NEW x, NEW y, PmKnown(R, n, x), NoMore(n, x, y)
    PROVE  PmKnown(R, n, y) /\ Keeps(x, y)
  BY DEF PmKnown, NoMore, Keeps

LEMMA InsertPeerInfoNoMore ==
    ASSUME NEW x \in PeerManagers, NEW n, n \notin x.peer_info, NEW p, p # n
    PROVE  NoMore(n, x, InsertPeerInfo(x, p))
  BY DEF NoMore, InsertPeerInfo, PeerManagers

LEMMA HeartbeatNoMore ==
    ASSUME NEW x \in PeerManagers, NEW n, n \notin x.peer_info, NEW p, p # n
    PROVE  NoMore(n, x, UpdatePeerHeartbeat(x, p))
  BY InsertPeerInfoNoMore DEF NoMore, UpdatePeerHeartbeat

LEMMA RemovePeerNoMore ==
    ASSUME NEW x \in PeerManagers, NEW n, n \notin x.peer_info, NEW p
    PROVE  NoMore(n, x, RemovePeer(x, p))
<1> DEFINE y == RemoveKfragProvider(x, p)
<1>1. /\ y \in PeerManagers /\ y.peer_info = x.peer_info
      /\ y.agent_vessel = x.agent_vessel /\ y.cfrags = x.cfrags /\ y.reverie = x.reverie
  BY DEF RemoveKfragProvider, PeerManagers
<1> HIDE DEF y
<1>2. LET z == RemovePeerInfo(y, p) IN
      /\ z.peer_info \subseteq y.peer_info /\ z.agent_vessel \subseteq y.agent_vessel
      /\ z.cfrags = y.cfrags /\ z.reverie = y.reverie
  BY <1>1 DEF RemovePeerInfo, PeerManagers
<1> QED
  BY <1>1, <1>2 DEF RemovePeer, NoMore, y

LEMMA ProvidingNoMore ==
    ASSUME NEW x \in PeerManagers, NEW n, n \notin x.peer_info, NEW p, p # n,
           NEW id, NEW frag
    PROVE  NoMore(n, x, InsertPeerInfo(InsertKfragProvider(x, p, id, frag), p))
  BY DEF NoMore, InsertPeerInfo, InsertKfragProvider, PeerManagers

\* A vessel does not file a record of itself: it is not among its own peers.
LEMMA SetOwnNoMore ==
    ASSUME NEW x \in PeerManagers, NEW n, n \notin x.peer_info, NEW info,
           info.current_vessel = n
    PROVE  NoMore(n, x, SetPeerInfoAgentVessel(x, n, info))
  BY DEF NoMore, SetPeerInfoAgentVessel, PeerManagers

\* What the two storing handlers leave.
LEMMA StoreFields ==
    ASSUME NEW x, WellFormed(x), NEW n \in Node, NEW r \in Reverie
    PROVE  LET known == InsertReverieMetadata(
                          SetPeerInfoAgentVessel(x, n, VesselInfo(r)), VesselInfo(r))
               held == InsertCfrag(known, r)
               stored == InsertReverie(known, r)
           IN /\ held.peer_info = x.peer_info /\ held.reverie = x.reverie
              /\ held.cfrags = {c \in x.cfrags : c.id # r.id} \cup {r}
              /\ stored.peer_info = x.peer_info /\ stored.cfrags = x.cfrags
              /\ stored.reverie = {c \in x.reverie : c.id # r.id} \cup {r}
<1> DEFINE s == SetPeerInfoAgentVessel(x, n, VesselInfo(r))
           known == InsertReverieMetadata(s, VesselInfo(r))
<1>1. x \in PeerManagers
  BY DEF WellFormed
<1>2. /\ s \in PeerManagers /\ s.peer_info = x.peer_info
      /\ s.cfrags = x.cfrags /\ s.reverie = x.reverie
  BY <1>1, VesselInfoType, SetPeerInfoAgentVesselWellFormed
  DEF WellFormed, SetPeerInfoAgentVessel, PeerManagers
<1> HIDE DEF s
<1>3. /\ known.peer_info = s.peer_info
      /\ known.cfrags = s.cfrags /\ known.reverie = s.reverie
  BY <1>2 DEF InsertReverieMetadata, PeerManagers
<1>4. known \in PeerManagers
  BY StoreMetadataOK DEF WellFormed, s
<1> HIDE DEF known
<1>5. /\ InsertCfrag(known, r).peer_info = known.peer_info
      /\ InsertCfrag(known, r).reverie = known.reverie
      /\ InsertCfrag(known, r).cfrags = {c \in known.cfrags : c.id # r.id} \cup {r}
      /\ InsertReverie(known, r).peer_info = known.peer_info
      /\ InsertReverie(known, r).cfrags = known.cfrags
      /\ InsertReverie(known, r).reverie = {c \in known.reverie : c.id # r.id} \cup {r}
  BY <1>4 DEF InsertCfrag, InsertReverie, PeerManagers
<1> QED
  BY <1>2, <1>3, <1>5 DEF known, s

\* A provider that stores a fragment is not the next vessel.
LEMMA HeldKnown ==
    ASSUME NEW R, NEW n \in Node, NEW x, WellFormed(x), PmKnown(R, n, x),
           NEW r \in Reverie, r \in R, Provides(n, r), Placed(r)
    PROVE  LET y == InsertCfrag(InsertReverieMetadata(
                       SetPeerInfoAgentVessel(x, n, VesselInfo(r)), VesselInfo(r)), r)
           IN PmKnown(R, n, y) /\ Keeps(x, y)
<1> DEFINE y == InsertCfrag(InsertReverieMetadata(
                   SetPeerInfoAgentVessel(x, n, VesselInfo(r)), VesselInfo(r)), r)
<1>1. /\ y.agent_vessel \subseteq x.agent_vessel \cup {VesselInfo(r)}
      /\ y.peer_info = x.peer_info /\ y.reverie = x.reverie
      /\ y.cfrags = {c \in x.cfrags : c.id # r.id} \cup {r}
  BY RecordsAfterStore, StoreFields
<1>2. VesselInfo(r).next_vessel # n
  BY VesselInfoFields DEF Placed
<1> HIDE DEF y
<1> QED
  BY <1>1, <1>2 DEF PmKnown, Keeps, y

\* The next vessel stores the ciphertext with the record.
LEMMA StoredKnown ==
    ASSUME NEW R, NEW n \in Node, NEW x, WellFormed(x), PmKnown(R, n, x),
           NEW r \in Reverie, r \in R, n = r.target
    PROVE  LET y == InsertReverie(InsertReverieMetadata(
                       SetPeerInfoAgentVessel(x, n, VesselInfo(r)), VesselInfo(r)), r)
           IN PmKnown(R, n, y) /\ Keeps(x, y)
<1> DEFINE y == InsertReverie(InsertReverieMetadata(
                   SetPeerInfoAgentVessel(x, n, VesselInfo(r)), VesselInfo(r)), r)
<1>1. /\ y.agent_vessel \subseteq x.agent_vessel \cup {VesselInfo(r)}
      /\ y.peer_info = x.peer_info /\ y.cfrags = x.cfrags
      /\ y.reverie = {c \in x.reverie : c.id # r.id} \cup {r}
  BY RecordsAfterStore, StoreFields
<1> HIDE DEF y
<1>2. Keeps(x, y)
  BY <1>1 DEF Keeps
<1>3. VesselInfo(r).reverie_id = r.id
  BY DEF VesselInfo
<1>4. \A av \in y.agent_vessel :
         av.next_vessel = n => \E c \in y.reverie : c.id = av.reverie_id
  <2> SUFFICES ASSUME NEW av \in y.agent_vessel, av.next_vessel = n
               PROVE  \E c \in y.reverie : c.id = av.reverie_id
    OBVIOUS
  <2>1. CASE av = VesselInfo(r)
    BY <1>1, <1>3, <2>1
  <2>2. CASE av \in x.agent_vessel
    BY <1>2, <2>2 DEF PmKnown, Keeps
  <2> QED
    BY <1>1, <2>1, <2>2
<1> QED
  BY <1>1, <1>2, <1>4 DEF PmKnown, y

-----------------------------------------------------------------------------
(* Every kind of step preserves Known. *)

\* Steps that make no reverie and change one PeerManager at most.
LEMMA PmStepKnown ==
    ASSUME Inv, Known, created' = created, NEW n \in Node, NEW y,
           pm' = [pm EXCEPT ![n] = y], PmKnown(Reveries, n, y), Keeps(pm[n], y),
           \A m \in msgs' : m \in msgs \/ MsgKnown(Reveries, m),
           inbox' = inbox
    PROVE  Known'
<1>1. Reveries' = Reveries
  BY DEF Reveries, Created
<1>2. pm'[n] = y /\ \A q \in Node \ {n} : pm'[q] = pm[q]
  BY DEF Inv, PmOK
<1>3. Named'
  BY DEF Known, Named
<1>4. \A m \in msgs' : MsgKnown(Reveries, m)
  BY DEF Known
<1>5. \A q \in Node : PmKnown(Reveries, q, pm'[q])
  BY <1>2 DEF Known
<1>6. RequestsKnown'
  BY <1>2 DEF Known, RequestsKnown, Keeps
<1> QED
  BY <1>1, <1>3, <1>4, <1>5, <1>6 DEF Known

\* Steps that change no PeerManager.
LEMMA QuietKnown ==
    ASSUME Inv, Known, UNCHANGED <<created, pm, inbox>>,
           \A m \in msgs' : m \in msgs \/ MsgKnown(Reveries, m)
    PROVE  Known'
<1>1. Reveries' = Reveries /\ Named'
  BY DEF Reveries, Created, Known, Named
<1>2. \A m \in msgs' : MsgKnown(Reveries, m)
  BY DEF Known
<1> QED
  BY <1>1, <1>2 DEF Known, RequestsKnown

\* A node that forgets everything knows nothing wrong.
LEMMA ForgetKnown ==
    ASSUME Inv, Known, NEW n \in Node, Forget(n), created' = created,
           \A m \in msgs' : m \in msgs \/ MsgKnown(Reveries, m)
    PROVE  Known'
<1>1. Reveries' = Reveries /\ Named'
  BY DEF Reveries, Created, Known, Named
<1>2. /\ pm'[n] = NewPeerManager /\ \A q \in Node \ {n} : pm'[q] = pm[q]
      /\ inbox'[n] = <<>> /\ \A q \in Node \ {n} : inbox'[q] = inbox[q]
  BY DEF Forget, Inv, PmOK, QueueOK
<1>3. PmKnown(Reveries, n, NewPeerManager)
  BY DEF PmKnown, NewPeerManager
<1>4. \A m \in msgs' : MsgKnown(Reveries, m)
  BY DEF Known
<1>5. \A q \in Node : PmKnown(Reveries, q, pm'[q])
  BY <1>2, <1>3 DEF Known
<1>6. RequestsKnown'
  <2>1. 1..Len(<<>>) = {}
    OBVIOUS
  <2> QED
    BY <1>2, <2>1 DEF Known, RequestsKnown
<1> QED
  BY <1>1, <1>4, <1>5, <1>6 DEF Known

LEMMA DropRespawnKnown ==
    ASSUME Inv, Known, NEW n \in Node, inbox[n] # <<>>, DropRespawn(n)
    PROVE  Known'
<1>1. /\ inbox' = [inbox EXCEPT ![n] = Tail(@)] /\ UNCHANGED <<pm, msgs, created>>
  BY DEF DropRespawn
<1>2. RequestsKnown'
  BY <1>1, InboxTail DEF Known, RequestsKnown
<1>3. Reveries' = Reveries /\ Named'
  BY <1>1 DEF Reveries, Created, Known, Named
<1> QED
  BY <1>1, <1>2, <1>3 DEF Known

\* The requests that store something or end a respawn.
LEMMA RequestsKeepKnown ==
    ASSUME Inv, Line, Known, NEW n \in Node, NEW m \in msgs,
           \/ SaveFragmentRequest(n, m)
           \/ ProvidingFragmentRequest(n, m)
           \/ SaveCiphertextRequest(n, m)
           \/ MarkRespawnCompleteRequest(n, m)
    PROVE  Known'
<1> USE DEF Inbound
<1>0. /\ m \in Message /\ WellFormed(pm[n]) /\ pm[n] \in PeerManagers
      /\ MsgKnown(Reveries, m) /\ PmKnown(Reveries, n, pm[n]) /\ n \notin pm[n].peer_info
  BY DEF Inv, MsgsOK, PmOK, Known, PmKnown
<1>1. CASE SaveFragmentRequest(n, m)
  <2> DEFINE r == m.reverie
             y == InsertCfrag(InsertReverieMetadata(
                     SetPeerInfoAgentVessel(pm[n], n, VesselInfo(r)), VesselInfo(r)), r)
             p == [type |-> "ProvidingFragment", from |-> n, sender |-> boot[n],
                   to |-> r.target, id |-> r.id, frag |-> m.frag]
  <2>1. /\ pm' = [pm EXCEPT ![n] = y] /\ msgs' = (msgs \ {m}) \cup {p}
        /\ UNCHANGED <<created, inbox>>
    BY <1>1 DEF SaveFragmentRequest
  <2>2. r \in Reveries /\ Provides(n, r)
    BY <1>0, <1>1 DEF SaveFragmentRequest, MsgKnown
  <2>3. r \in Reverie /\ Placed(r)
    BY <2>2, KnownReverie
  <2>4. PmKnown(Reveries, n, y) /\ Keeps(pm[n], y)
    BY <1>0, <2>2, <2>3, HeldKnown
  <2>5. MsgKnown(Reveries, p)
    <3>1. p.type = "ProvidingFragment" /\ p.from = n /\ p.to = r.target
      OBVIOUS
    <3> HIDE DEF p
    <3> QED
      BY <2>2, <2>3, <3>1 DEF MsgKnown, Placed
  <2> HIDE DEF y, p
  <2> QED
    BY <2>1, <2>4, <2>5, PmStepKnown
<1>2. CASE ProvidingFragmentRequest(n, m)
  <2> DEFINE y == InsertPeerInfo(InsertKfragProvider(pm[n], m.from, m.id, m.frag), m.from)
  <2>1. /\ pm' = [pm EXCEPT ![n] = y] /\ msgs' = msgs \ {m} /\ UNCHANGED <<created, inbox>>
    BY <1>2 DEF ProvidingFragmentRequest
  <2>2. m.from # n
    BY <1>0, <1>2 DEF ProvidingFragmentRequest, MsgKnown
  <2>3. NoMore(n, pm[n], y)
    BY <1>0, <2>2, ProvidingNoMore
  <2> HIDE DEF y
  <2> QED
    BY <1>0, <2>1, <2>3, NoMoreKnown, PmStepKnown
<1>3. CASE SaveCiphertextRequest(n, m)
  <2> DEFINE r == m.reverie
             y == InsertReverie(InsertReverieMetadata(
                     SetPeerInfoAgentVessel(pm[n], n, VesselInfo(r)), VesselInfo(r)), r)
  <2>1. /\ pm' = [pm EXCEPT ![n] = y] /\ msgs' = msgs \ {m} /\ UNCHANGED <<created, inbox>>
    BY <1>3 DEF SaveCiphertextRequest
  <2>2. r \in Reveries /\ n = r.target
    BY <1>0, <1>3 DEF SaveCiphertextRequest, MsgKnown
  <2>3. r \in Reverie
    BY <2>2, KnownReverie
  <2>4. PmKnown(Reveries, n, y) /\ Keeps(pm[n], y)
    BY <1>0, <2>2, <2>3, StoredKnown
  <2> HIDE DEF y
  <2> QED
    BY <2>1, <2>4, PmStepKnown
<1>4. CASE MarkRespawnCompleteRequest(n, m)
  <2> DEFINE y == RemovePeer(pm[n], m.info.current_vessel)
  <2>1. /\ pm' = [pm EXCEPT ![n] = y] /\ msgs' = msgs \ {m} /\ UNCHANGED <<created, inbox>>
    BY <1>4 DEF MarkRespawnCompleteRequest
  <2>2. NoMore(n, pm[n], y)
    BY <1>0, RemovePeerNoMore
  <2> HIDE DEF y
  <2> QED
    BY <1>0, <2>1, <2>2, NoMoreKnown, PmStepKnown
<1> QED
  BY <1>1, <1>2, <1>3, <1>4

\* An answer is about what was asked for.
LEMMA AnswerKnown ==
    ASSUME NEW m, m.type = "GetFragment", MsgKnown(Reveries, m), NEW ok, NEW x,
           x \in Answer(m, ok)
    PROVE  MsgKnown(Reveries, x)
<1>1. /\ x.type = "GetFragmentResponse" /\ x.from = m.to /\ x.to = m.from /\ x.id = m.id
  BY DEF Answer
<1> QED
  BY <1>1 DEF MsgKnown

\* Fragment requests, their answers, and messages that end badly.
LEMMA FragmentTrafficKeepsKnown ==
    ASSUME Inv, Known, NEW n \in Node, NEW m \in msgs,
           \/ GetFragmentRequest(n, m)
           \/ GetFragmentRefused(n, m)
           \/ GetFragmentResponse(n, m)
           \/ ResponseChannelClosed(n, m)
           \/ LoseMessage(m)
    PROVE  Known'
<1> USE DEF Inbound
<1>0. MsgKnown(Reveries, m) /\ m \in Message
  BY DEF Known, Inv, MsgsOK
<1>1. CASE GetFragmentRequest(n, m)
  <2>1. m.type = "GetFragment" /\ msgs' = (msgs \ {m}) \cup Answer(m, TRUE)
        /\ UNCHANGED <<created, pm, inbox>>
    BY <1>1 DEF GetFragmentRequest
  <2> QED
    BY <1>0, <2>1, AnswerKnown, QuietKnown
<1>2. CASE GetFragmentRefused(n, m)
  <2>1. /\ m.type = "GetFragment"
        /\ msgs' = (msgs \ (AnswersTo(n) \cup {m})) \cup Answer(m, FALSE)
        /\ Forget(n) /\ created' = created
    BY <1>2 DEF GetFragmentRefused, Wedge
  <2> QED
    BY <1>0, <2>1, AnswerKnown, ForgetKnown
<1>3. CASE GetFragmentResponse(n, m)
  BY <1>3, QuietKnown DEF GetFragmentResponse
<1>4. CASE ResponseChannelClosed(n, m)
  <2>1. Forget(n) /\ created' = created
    BY <1>4 DEF ResponseChannelClosed, Wedge
  <2>2. CASE m.type = "GetFragment"
    <3>1. msgs' = (msgs \ (AnswersTo(n) \cup {m})) \cup Answer(m, FALSE)
      BY <1>4, <2>2 DEF ResponseChannelClosed
    <3> QED
      BY <1>0, <2>1, <2>2, <3>1, AnswerKnown, ForgetKnown
  <2>3. CASE m.type # "GetFragment"
    <3>1. msgs' \subseteq msgs
      BY <1>4, <2>3 DEF ResponseChannelClosed
    <3> QED
      BY <2>1, <3>1, ForgetKnown
  <2> QED
    BY <2>2, <2>3
<1>5. CASE LoseMessage(m)
  <2>1. UNCHANGED <<created, pm, inbox>>
    BY <1>5 DEF LoseMessage
  <2>2. CASE m.type = "GetFragment"
    <3>1. msgs' = (msgs \ {m}) \cup Answer(m, FALSE)
      BY <1>5, <2>2 DEF LoseMessage
    <3> QED
      BY <1>0, <2>1, <2>2, <3>1, AnswerKnown, QuietKnown
  <2>3. CASE m.type = "GetFragmentResponse"
    <3> DEFINE x == [m EXCEPT !.ok = FALSE]
    <3>1. msgs' = (msgs \ {m}) \cup {x}
      BY <1>5, <2>3 DEF LoseMessage
    <3>2. x.type = m.type /\ x.from = m.from /\ x.to = m.to /\ x.id = m.id
      BY <1>0, <2>3 DEF Message
    <3> HIDE DEF x
    <3>3. MsgKnown(Reveries, x)
      BY <1>0, <2>3, <3>2 DEF MsgKnown
    <3> QED
      BY <2>1, <3>1, <3>3, QuietKnown
  <2>4. CASE m.type # "GetFragment" /\ m.type # "GetFragmentResponse"
    <3>1. msgs' = (msgs \ {m}) \cup {}
      BY <1>5, <2>4 DEF LoseMessage
    <3> QED
      BY <2>1, <3>1, QuietKnown
  <2> QED
    BY <2>2, <2>3, <2>4
<1> QED
  BY <1>1, <1>2, <1>3, <1>4, <1>5

\* The listener, up to the placement: it asks the providers of a reverie of which
\* it is the next vessel.
LEMMA ListenerKeepsKnown ==
    ASSUME Inv, Known, NEW n \in Node,
           \/ \E r \in pm[n].reverie : StartRespawn(n, r)
           \/ CollectCfrags(n)
           \/ CollectFails(n)
           \/ PlaceFails(n)
    PROVE  Known'
<1>1. CASE \E r \in pm[n].reverie : StartRespawn(n, r)
  <2>1. PICK r \in pm[n].reverie : StartRespawn(n, r)
    BY <1>1
  <2>2. r \in Reveries /\ r.target = n
    BY DEF Known, PmKnown
  <2>3. \A x \in msgs' \ msgs : \E i \in 1..TotalFrags :
           x = [type |-> "GetFragment", from |-> n, sender |-> boot[n],
                to |-> r.providers[i], id |-> r.id]
    BY <2>1 DEF StartRespawn
  <2>4. \A x \in msgs' \ msgs : MsgKnown(Reveries, x)
    <3> TAKE x \in msgs' \ msgs
    <3>1. x.type = "GetFragment" /\ x.from = n /\ x.id = r.id /\ Provides(x.to, r)
      BY <2>3 DEF Provides
    <3> QED
      BY <2>2, <3>1 DEF MsgKnown
  <2>5. UNCHANGED <<created, pm, inbox>>
    BY <2>1 DEF StartRespawn
  <2> QED
    BY <2>4, <2>5, QuietKnown
<1>2. CASE CollectCfrags(n)
  BY <1>2, QuietKnown DEF CollectCfrags
<1>3. CASE CollectFails(n) \/ PlaceFails(n)
  <2>1. inbox[n] # <<>> /\ DropRespawn(n)
    BY <1>3 DEF CollectFails, PlaceFails, AllAnswered, Inv, QueueOK, BusyListenerHasRequest
  <2> QED
    BY <2>1, DropRespawnKnown
<1> QED
  BY <1>1, <1>2, <1>3

\* The messages of a new reverie go to the nodes it names.
LEMMA BroadcastKnown ==
    ASSUME NEW n, NEW r, NEW R, r \in R, NEW x \in BroadcastMsgs(n, r)
    PROVE  MsgKnown(R, x)
<1>1. \/ x.type = "SaveFragment" /\ x.reverie = r /\ Provides(x.to, r)
      \/ x.type = "SaveCiphertext" /\ x.reverie = r /\ x.to = r.target
  BY DEF BroadcastMsgs, Provides
<1> QED
  BY <1>1 DEF MsgKnown

\* A new reverie and what its maker n keeps of it.
LEMMA MadeKnown ==
    ASSUME Inv, Known, Named', NEW r, Reveries' = Reveries \cup {r},
           NEW n \in Node, NEW y, NoMore(n, pm[n], y), pm' = [pm EXCEPT ![n] = y],
           \A x \in msgs' : x \in msgs \/ MsgKnown(Reveries', x),
           \A q \in Node : \A i \in 1..Len(inbox'[q]) :
              \E j \in 1..Len(inbox[q]) : inbox'[q][i] = inbox[q][j]
    PROVE  Known'
<1>1. pm'[n] = y /\ \A q \in Node \ {n} : pm'[q] = pm[q]
  BY DEF Inv, PmOK
<1>2. \A q \in Node : PmKnown(Reveries, q, pm'[q]) /\ Keeps(pm[q], pm'[q])
  BY <1>1, NoMoreKnown DEF Known, Keeps
<1>3. \A q \in Node : PmKnown(Reveries', q, pm'[q])
  BY <1>2, PmKnownGrows
<1>4. \A x \in msgs' : MsgKnown(Reveries', x)
  BY MsgKnownGrows DEF Known
<1>5. RequestsKnown'
  BY <1>2 DEF Known, RequestsKnown, Keeps
<1> QED
  BY <1>3, <1>4, <1>5 DEF Known

LEMMA SpawnKeepsKnown ==
    ASSUME Inv, Known, NEW n \in Node, NEW a \in Agent, NEW target \in Node,
           NEW providers \in Providers, SpawnAgent(n, a, target, providers)
    PROVE  Known'
<1> DEFINE r == NewReverie(n, a, 0, target, providers)
           y == SetPeerInfoAgentVessel(pm[n], n, VesselInfo(r))
<1>1. /\ CanPlace(n, target, providers) /\ inbox' = inbox
      /\ created' = [created EXCEPT ![a] = Append(@, r)]
      /\ msgs' = msgs \cup BroadcastMsgs(n, r) /\ pm' = [pm EXCEPT ![n] = y]
  BY DEF SpawnAgent
<1>2. r.source = n
  BY DEF NewReverie
<1>3. Reveries' = Reveries \cup {r} /\ Named'
  BY <1>1, ReverieMade
<1> HIDE DEF r
<1>4. NoMore(n, pm[n], y)
  BY <1>2, VesselInfoFields, SetOwnNoMore DEF Inv, PmOK, Known, PmKnown
<1>5. \A x \in msgs' : x \in msgs \/ MsgKnown(Reveries', x)
  BY <1>1, <1>3, BroadcastKnown
<1> HIDE DEF y
<1> QED
  BY <1>1, <1>3, <1>4, <1>5, MadeKnown

LEMMA PlaceKeepsKnown ==
    ASSUME Inv, Known, NEW n \in Node, NEW target \in Node,
           NEW providers \in Providers, PlaceAgent(n, target, providers)
    PROVE  Known'
<1> DEFINE prev == Head(inbox[n])
           a == prev.agent
           r == NewReverie(n, a, NextNonce(prev), target, providers)
           s == SetPeerInfoAgentVessel(pm[n], n, VesselInfo(r))
           y == RemovePeer(s, prev.current_vessel)
           marks == MarkCompleteMsgs(n, y, prev)
<1>1. /\ CanPlace(n, target, providers) /\ inbox' = [inbox EXCEPT ![n] = Tail(@)]
      /\ created' = [created EXCEPT ![a] = Append(@, r)]
      /\ msgs' = msgs \cup BroadcastMsgs(n, r) \cup marks /\ pm' = [pm EXCEPT ![n] = y]
  BY DEF PlaceAgent
<1>2. inbox[n] # <<>> /\ inbox[n] \in Seq(AgentVesselInfo)
  BY DEF PlaceAgent, Inv, QueueOK, BusyListenerHasRequest
<1>3. prev \in AgentVesselInfo
  BY <1>2, HeadTailProperties
<1> HIDE DEF prev
<1>4. a \in Agent /\ NextNonce(prev) \in Nat
  BY <1>3 DEF AgentVesselInfo, NextNonce
<1>5. r.source = n
  BY DEF NewReverie
<1>6. Reveries' = Reveries \cup {r} /\ Named' /\ r \in Reverie
  BY <1>1, <1>4, ReverieMade
<1> HIDE DEF r, a
<1>7. pm[n] \in PeerManagers /\ WellFormed(pm[n]) /\ n \notin pm[n].peer_info
  BY DEF Inv, PmOK, Known, PmKnown
<1>8. NoMore(n, pm[n], s)
  BY <1>5, <1>7, VesselInfoFields, SetOwnNoMore
<1>9. s \in PeerManagers
  BY <1>6, <1>7, VesselInfoType, SetPeerInfoAgentVesselWellFormed DEF WellFormed
<1> HIDE DEF s
<1>10. NoMore(n, s, y)
  BY <1>8, <1>9, RemovePeerNoMore DEF NoMore
<1> HIDE DEF y
<1>11. NoMore(n, pm[n], y)
  BY <1>8, <1>10 DEF NoMore
<1>12. \A x \in marks : MsgKnown(Reveries', x)
  <2>1. \A x \in marks : x.type = "MarkRespawnComplete"
    BY DEF MarkCompleteMsgs
  <2> QED
    BY <2>1 DEF MsgKnown
<1> HIDE DEF marks
<1>13. \A x \in msgs' : x \in msgs \/ MsgKnown(Reveries', x)
  BY <1>1, <1>6, <1>12, BroadcastKnown
<1>14. \A q \in Node : \A i \in 1..Len(inbox'[q]) :
          \E j \in 1..Len(inbox[q]) : inbox'[q][i] = inbox[q][j]
  BY <1>1, <1>2, InboxTail
<1> QED
  BY <1>1, <1>6, <1>11, <1>13, <1>14, MadeKnown

\* Heartbeats, ticks, connections and the DHT.
LEMMA NetworkKeepsKnown ==
    ASSUME Inv, Line, Known, NEW n \in Node, NEW p \in Node,
           \/ PeerHeartbeatFailure(n, p)
           \/ Heartbeat(n, p)
           \/ ConnectionEstablished(n, p)
           \/ SecondConnection(n, p)
           \/ ConnectionLost(n, p)
           \/ RoutingUpdated(n, p)
           \/ Bootstrap(n)
    PROVE  Known'
<1>0. \A q \in Node : /\ pm[q] \in PeerManagers /\ q \notin pm[q].peer_info
                      /\ PmKnown(Reveries, q, pm[q]) /\ q \notin conn[q]
  BY DEF Inv, PmOK, Known, PmKnown, Line, Addressed
<1>1. CASE PeerHeartbeatFailure(n, p)
  <2> DEFINE y == RemovePeer(pm[n], p)
  <2>1. UNCHANGED <<created, msgs>>
    BY <1>1 DEF PeerHeartbeatFailure
  <2>2. \/ UNCHANGED <<pm, inbox>>
        \/ pm' = [pm EXCEPT ![n] = y] /\ UNCHANGED inbox
        \/ /\ pm' = [pm EXCEPT ![n] = y]
           /\ \E av \in pm[n].agent_vessel :
                 av.next_vessel = n /\ inbox' = [inbox EXCEPT ![n] = Append(@, av)]
    BY <1>1 DEF PeerHeartbeatFailure
  <2>3. NoMore(n, pm[n], y)
    BY <1>0, RemovePeerNoMore
  <2> HIDE DEF y
  <2>4. PmKnown(Reveries, n, y) /\ Keeps(pm[n], y) /\ y.reverie = pm[n].reverie
    BY <1>0, <2>3, NoMoreKnown DEF NoMore
  <2>5. CASE UNCHANGED <<pm, inbox>>
    BY <2>1, <2>5, QuietKnown
  <2>6. CASE pm' = [pm EXCEPT ![n] = y] /\ UNCHANGED inbox
    BY <2>1, <2>4, <2>6, PmStepKnown
  <2>7. ASSUME pm' = [pm EXCEPT ![n] = y], NEW av \in pm[n].agent_vessel,
               av.next_vessel = n, inbox' = [inbox EXCEPT ![n] = Append(@, av)]
        PROVE  Known'
    <3>1. pm'[n] = y /\ \A q \in Node \ {n} : pm'[q] = pm[q]
      BY <2>7 DEF Inv, PmOK
    <3>2. /\ inbox[n] \in Seq(AgentVesselInfo) /\ inbox'[n] = Append(inbox[n], av)
          /\ \A q \in Node \ {n} : inbox'[q] = inbox[q]
      BY <2>7 DEF Inv, QueueOK
    <3>3. av \in AgentVesselInfo
      BY <1>0 DEF PeerManagers
    <3>4. \A i \in 1..Len(inbox'[n]) :
             (i \in 1..Len(inbox[n]) /\ inbox'[n][i] = inbox[n][i]) \/ inbox'[n][i] = av
      BY <3>2, <3>3, AppendProperties, LenProperties
    <3>5. RequestsKnown'
      <4>1. \E r \in y.reverie : r.id = av.reverie_id
        BY <1>0, <2>4, <2>7 DEF PmKnown
      <4> QED
        BY <2>4, <3>1, <3>2, <3>4, <4>1 DEF Known, RequestsKnown
    <3>6. Reveries' = Reveries /\ Named'
      BY <2>1 DEF Reveries, Created, Known, Named
    <3>7. \A q \in Node : PmKnown(Reveries, q, pm'[q])
      BY <1>0, <2>4, <3>1
    <3> QED
      BY <2>1, <3>5, <3>6, <3>7 DEF Known
  <2> QED
    BY <2>2, <2>5, <2>6, <2>7
<1>2. CASE Heartbeat(n, p)
  <2> DEFINE y == UpdatePeerHeartbeat(pm[n], p)
  <2>1. p # n /\ pm' = [pm EXCEPT ![n] = y] /\ UNCHANGED <<created, inbox, msgs>>
    BY <1>0, <1>2 DEF Heartbeat
  <2>2. NoMore(n, pm[n], y)
    BY <1>0, <2>1, HeartbeatNoMore
  <2> HIDE DEF y
  <2> QED
    BY <1>0, <2>1, <2>2, NoMoreKnown, PmStepKnown
<1>3. CASE ConnectionEstablished(n, p) \/ SecondConnection(n, p)
  <2>1. /\ pm' = [pm EXCEPT ![n] = InsertPeerInfo(@, p), ![p] = InsertPeerInfo(@, n)]
        /\ p # n /\ UNCHANGED <<created, inbox, msgs>>
    BY <1>0, <1>3 DEF ConnectionEstablished, SecondConnection
  <2>2. /\ pm'[n] = InsertPeerInfo(pm[n], p) /\ pm'[p] = InsertPeerInfo(pm[p], n)
        /\ \A q \in Node \ {n, p} : pm'[q] = pm[q]
    BY <2>1 DEF Inv, PmOK
  <2>3. NoMore(n, pm[n], pm'[n]) /\ NoMore(p, pm[p], pm'[p])
    BY <1>0, <2>1, <2>2, InsertPeerInfoNoMore
  <2>4. \A q \in Node : PmKnown(Reveries, q, pm'[q]) /\ pm'[q].reverie = pm[q].reverie
    BY <1>0, <2>2, <2>3, NoMoreKnown DEF NoMore
  <2>5. Reveries' = Reveries /\ Named'
    BY <2>1 DEF Reveries, Created, Known, Named
  <2> QED
    BY <2>1, <2>4, <2>5 DEF Known, RequestsKnown
<1>4. CASE ConnectionLost(n, p) \/ Bootstrap(n)
  BY <1>4, QuietKnown DEF ConnectionLost, Bootstrap
<1>5. CASE RoutingUpdated(n, p)
  <2> DEFINE y == InsertPeerInfo(pm[n], p)
  <2>1. p # n /\ pm' = [pm EXCEPT ![n] = y] /\ UNCHANGED <<created, inbox, msgs>>
    BY <1>5 DEF RoutingUpdated
  <2>2. NoMore(n, pm[n], y)
    BY <1>0, <2>1, InsertPeerInfoNoMore
  <2> HIDE DEF y
  <2> QED
    BY <1>0, <2>1, <2>2, NoMoreKnown, PmStepKnown
<1> QED
  BY <1>1, <1>2, <1>3, <1>4, <1>5

LEMMA FailuresKeepKnown ==
    ASSUME Inv, Known, NEW n \in Node,
           \/ InternalHeartbeatFailure(n)
           \/ TriggerRestart(n)
           \/ Crash(n)
           \/ Restart(n)
    PROVE  Known'
<1>1. CASE InternalHeartbeatFailure(n) \/ Restart(n)
  BY <1>1, QuietKnown DEF InternalHeartbeatFailure, Restart
<1>2. CASE TriggerRestart(n) \/ Crash(n)
  BY <1>2, ForgetKnown DEF TriggerRestart, Crash
<1> QED
  BY <1>1, <1>2

LEMMA InitKnown == Init => Known
<1> SUFFICES ASSUME Init PROVE Known
  OBVIOUS
<1>1. 1..Len(<<>>) = {}
  OBVIOUS
<1>2. Named /\ RequestsKnown /\ msgs = {}
  BY <1>1 DEF Init, Named, RequestsKnown
<1>3. \A n \in Node : PmKnown(Reveries, n, pm[n])
  <2> TAKE n \in Node
  <2>1. /\ pm[n].peer_info = Node \ {n} /\ pm[n].agent_vessel = {}
        /\ pm[n].cfrags = {} /\ pm[n].reverie = {}
    BY DEF Init, NewPeerManager
  <2> QED
    BY <2>1 DEF PmKnown
<1> QED
  BY <1>2, <1>3 DEF Known

LEMMA NextKnown == Inv /\ Line /\ Known /\ [Next]_vars => Known'
<1> SUFFICES ASSUME Inv, Line, Known, [Next]_vars PROVE Known'
  OBVIOUS
<1>1. CASE Environment
  BY <1>1, SpawnKeepsKnown, FailuresKeepKnown, NetworkKeepsKnown DEF Environment
<1>2. CASE \E n \in Node : Listener(n) \/ TriggerRestart(n) \/ Restart(n)
  BY <1>2, ListenerKeepsKnown, PlaceKeepsKnown, FailuresKeepKnown DEF Listener, Place
<1>3. CASE \E n \in Node, m \in msgs : Deliver(n, m) \/ ResponseChannelClosed(n, m)
  BY <1>3, RequestsKeepKnown, FragmentTrafficKeepsKnown DEF Deliver
<1>4. CASE \E m \in msgs : LoseMessage(m)
  <2> PICK m \in msgs : LoseMessage(m)
    BY <1>4
  <2>1. m.to \in Node
    BY MessageFields DEF Inv, MsgsOK
  <2> QED
    BY <2>1, FragmentTrafficKeepsKnown
<1>5. CASE \E n, p \in Node : \/ PeerHeartbeatFailure(n, p)
                              \/ Heartbeat(n, p)
                              \/ ConnectionEstablished(n, p)
  BY <1>5, NetworkKeepsKnown
<1>6. CASE UNCHANGED vars
  BY <1>6, QuietKnown DEF vars
<1> QED
  BY <1>1, <1>2, <1>3, <1>4, <1>5, <1>6 DEF Next

LEMMA KnownAlways == Spec => [](Inv /\ Line /\ Known)
<1>1. Init => Inv /\ Line /\ Known
  BY InitInv, InitLine, InitKnown
<1>2. (Inv /\ Line /\ Known) /\ [Next]_vars => (Inv /\ Line /\ Known)'
  BY NextInv, NextLine, NextKnown
<1> QED
  BY <1>1, <1>2, PTL DEF Spec

\* A vessel record is kept only by the next vessel and the kfrag providers of its
\* reverie, and it is the record of that reverie: no handler files one elsewhere,
\* and no vessel files one of itself.
THEOREM RecordsAtGuardians == Spec => []VesselRecordsOnlyAtGuardians
<1>1. Known => VesselRecordsOnlyAtGuardians
  BY DEF Known, PmKnown, VesselRecordsOnlyAtGuardians, Provides
<1> QED
  BY <1>1, KnownAlways, PTL

\* The next vessel never dispatches or handles a respawn whose ciphertext it does
\* not have: the record is filed by the handler that stores the ciphertext.
THEOREM CiphertextAtHand == Spec => []RespawnsHaveCiphertext
<1>1. Inv /\ Known => RespawnsHaveCiphertext
  <2> SUFFICES ASSUME Inv, Known, NEW n \in Node,
                      NEW av \in {x \in pm[n].agent_vessel : x.next_vessel = n}
                                 \cup {inbox[n][i] : i \in DOMAIN inbox[n]}
               PROVE  \E r \in pm[n].reverie : r.id = av.reverie_id
    BY DEF RespawnsHaveCiphertext
  <2>1. DOMAIN inbox[n] = 1..Len(inbox[n])
    BY LenProperties DEF Inv, QueueOK
  <2> QED
    BY <2>1 DEF Known, PmKnown, RequestsKnown
<1> QED
  BY <1>1, KnownAlways, PTL

-----------------------------------------------------------------------------
(* Asking for fragments. *)

\* A request of n that can still be answered, or an answer on its way to n.
Outstanding(n, m) ==
    \/ m.type = "GetFragment" /\ m.from = n /\ ChannelOpen(m)
    \/ m.type = "GetFragmentResponse" /\ m.to = n

\* The provider it was put to.
Asked(m) == IF m.type = "GetFragment" THEN m.to ELSE m.from

\* The listener of n waits for what is outstanding, for the reverie it handles.
Awaits(n) ==
    \A m \in msgs : Outstanding(n, m) =>
        /\ Up(n) /\ task[n].pc = "collect"
        /\ m.id = Head(inbox[n]).reverie_id
        /\ Asked(m) \notin task[n].ok \cup task[n].failed

AskedOnce(n) ==
    \A m1, m2 \in msgs :
        Outstanding(n, m1) /\ Outstanding(n, m2) /\ Asked(m1) = Asked(m2) => m1 = m2

\* What it has taken came from providers of that reverie.
Taken(n) ==
    /\ task[n].pc = "idle" => task[n] = Idle
    /\ task[n].pc = "place" => Cardinality(task[n].ok) >= Threshold
    /\ \A p \in task[n].ok \cup task[n].failed :
          \E r \in Reveries : r.id = Head(inbox[n]).reverie_id /\ Provides(p, r)

\* A request is of this boot of its sender or of an earlier one.
SentBefore ==
    \A m \in msgs : m.type = "GetFragment" => m.sender <= boot[m.from]

\* A fragment is on its way only to the boot whose key its reverie names.
KeysCurrent ==
    \A m \in msgs : m.type = "GetFragmentResponse" /\ m.ok =>
        \E r \in Reveries : r.id = m.id /\ r.verifying_key = <<m.to, boot[m.to]>>

AskingAt(n) == Awaits(n) /\ AskedOnce(n) /\ Taken(n)

Asking == SentBefore /\ KeysCurrent /\ \A n \in Node : AskingAt(n)

LEMMA SenderType ==
    ASSUME NEW m \in Message, m.type = "GetFragment"
    PROVE  m.sender \in Nat
  BY DEF Message

\* A step that concerns node n only by what it takes out of the network.
Untouched(n) ==
    /\ status'[n] = status[n] /\ boot'[n] = boot[n] /\ task'[n] = task[n]
    /\ task[n].pc # "idle" => Head(inbox'[n]) = Head(inbox[n])

LEMMA UntouchedAsking ==
    ASSUME NEW n, AskingAt(n), Untouched(n), Reveries \subseteq Reveries',
           \A m \in msgs' : Outstanding(n, m)' => m \in msgs
    PROVE  AskingAt(n)'
<1>1. \A m \in msgs' : Outstanding(n, m)' => m \in msgs /\ Outstanding(n, m)
  BY DEF Untouched, Outstanding, ChannelOpen, Up
<1>2. Awaits(n)'
  <2> SUFFICES ASSUME NEW m \in msgs', Outstanding(n, m)'
               PROVE  /\ Up(n)' /\ task'[n].pc = "collect"
                      /\ m.id = Head(inbox'[n]).reverie_id
                      /\ Asked(m) \notin task'[n].ok \cup task'[n].failed
    BY DEF Awaits, Asked
  <2>1. /\ Up(n) /\ task[n].pc = "collect" /\ m.id = Head(inbox[n]).reverie_id
        /\ Asked(m) \notin task[n].ok \cup task[n].failed
    BY <1>1 DEF AskingAt, Awaits
  <2> QED
    BY <2>1 DEF Untouched, Up
<1>3. AskedOnce(n)'
  BY <1>1 DEF AskingAt, AskedOnce, Asked
<1>4. Taken(n)'
  <2>1. CASE task[n].pc = "idle"
    <3>1. task'[n] = Idle /\ Idle.pc = "idle" /\ Idle.ok = {} /\ Idle.failed = {}
      BY <2>1 DEF AskingAt, Taken, Untouched, Idle
    <3> QED
      BY <3>1 DEF Taken
  <2>2. CASE task[n].pc # "idle"
    BY <2>2 DEF AskingAt, Taken, Untouched
  <2> QED
    BY <2>1, <2>2
<1> QED
  BY <1>2, <1>3, <1>4 DEF AskingAt

\* A listener that has been stopped, or has nothing to do any more.
LEMMA SilencedAsking ==
    ASSUME NEW n, task'[n] = Idle, \A m \in msgs' : ~Outstanding(n, m)'
    PROVE  AskingAt(n)'
<1>1. Idle.pc = "idle" /\ Idle.ok = {} /\ Idle.failed = {}
  BY DEF Idle
<1> QED
  BY <1>1 DEF AskingAt, Awaits, AskedOnce, Taken

\* One thing outstanding takes the place of another one.
LEMMA ExchangedAsking ==
    ASSUME NEW n, AskingAt(n), Untouched(n), Reveries \subseteq Reveries',
           NEW m \in msgs, Outstanding(n, m),
           NEW x, x.id = m.id, Asked(x) = Asked(m),
           \A y \in msgs' : Outstanding(n, y)' => (y \in msgs /\ y # m) \/ y = x
    PROVE  AskingAt(n)'
<1>1. \A y \in msgs' : Outstanding(n, y)' =>
         \/ y \in msgs /\ y # m /\ Outstanding(n, y)
         \/ y = x
  BY DEF Untouched, Outstanding, ChannelOpen, Up
<1>0. /\ Up(n) /\ task[n].pc = "collect" /\ m.id = Head(inbox[n]).reverie_id
      /\ Asked(m) \notin task[n].ok \cup task[n].failed
  BY DEF AskingAt, Awaits
<1>2. Awaits(n)'
  <2> SUFFICES ASSUME NEW y \in msgs', Outstanding(n, y)'
               PROVE  /\ Up(n)' /\ task'[n].pc = "collect"
                      /\ y.id = Head(inbox'[n]).reverie_id
                      /\ Asked(y) \notin task'[n].ok \cup task'[n].failed
    BY DEF Awaits, Asked
  <2>1. /\ y.id = Head(inbox[n]).reverie_id
        /\ Asked(y) \notin task[n].ok \cup task[n].failed
    BY <1>0, <1>1 DEF AskingAt, Awaits
  <2> QED
    BY <1>0, <2>1 DEF Untouched, Up
<1>3. AskedOnce(n)'
  <2> SUFFICES ASSUME NEW y \in msgs', NEW z \in msgs', Outstanding(n, y)',
                      Outstanding(n, z)', Asked(y) = Asked(z)
               PROVE  y = z
    BY DEF AskedOnce, Asked
  <2>1. \A u \in msgs : Outstanding(n, u) /\ Asked(u) = Asked(m) => u = m
    BY DEF AskingAt, AskedOnce
  <2>2. CASE y = x \/ z = x
    BY <1>1, <2>1, <2>2
  <2>3. CASE y # x /\ z # x
    BY <1>1, <2>3 DEF AskingAt, AskedOnce
  <2> QED
    BY <2>2, <2>3
<1>4. Taken(n)'
  BY <1>0 DEF AskingAt, Taken, Untouched
<1> QED
  BY <1>2, <1>3, <1>4 DEF AskingAt

\* When every provider has answered, nothing is outstanding.
LEMMA NothingOutstanding ==
    ASSUME Inv, Known, NEW n \in Node, AskingAt(n), AllAnswered(n), NEW m \in msgs,
           Outstanding(n, m)
    PROVE  FALSE
<1> DEFINE A == task[n].ok \cup task[n].failed
<1>1. /\ m.id = Head(inbox[n]).reverie_id /\ Asked(m) \notin A
      /\ Cardinality(A) = TotalFrags
  BY DEF AskingAt, Awaits, AllAnswered
<1>2. PICK r \in Reveries : r.id = m.id /\ Provides(Asked(m), r)
  BY DEF Outstanding, Known, MsgKnown, Asked
<1> DEFINE P == {r.providers[i] : i \in 1..TotalFrags}
           f == [i \in 1..TotalFrags |-> r.providers[i]]
<1>3. A \subseteq P
  <2> SUFFICES ASSUME NEW p \in A PROVE p \in P
    OBVIOUS
  <2>1. PICK s \in Reveries : s.id = Head(inbox[n]).reverie_id /\ Provides(p, s)
    BY DEF AskingAt, Taken
  <2>2. s = r
    BY <1>1, <1>2, <2>1, IdsUnique
  <2> QED
    BY <2>1, <2>2 DEF Provides
<1>4. IsFiniteSet(1..TotalFrags) /\ Cardinality(1..TotalFrags) = TotalFrags
  BY TotalFragsAssumption, FS_Interval
<1>5. f \in Surjection(1..TotalFrags, P)
  BY DEF Surjection
<1>6. IsFiniteSet(P) /\ Cardinality(P) <= TotalFrags
  <2> HIDE DEF f, P
  <2> QED
    BY <1>4, <1>5, FS_Surjection
<1>7. A = P
  <2> HIDE DEF A, P
  <2>1. Cardinality(P) \in Nat /\ Cardinality(A) <= Cardinality(P)
    BY <1>3, <1>6, FS_Subset, FS_CardinalityType
  <2>2. Cardinality(P) = Cardinality(A)
    BY <1>1, <1>6, <2>1, TotalFragsAssumption
  <2> QED
    BY <1>3, <1>6, <2>2, FS_Subset
<1> QED
  BY <1>1, <1>2, <1>7 DEF Provides

\* The keys stay current while no node starts again.
LEMMA KeysStayCurrent ==
    ASSUME KeysCurrent, boot' = boot, Reveries \subseteq Reveries',
           \A m \in msgs' : \/ m \in msgs
                            \/ m.type # "GetFragmentResponse"
                            \/ ~m.ok
    PROVE  KeysCurrent'
  BY DEF KeysCurrent

LEMMA SentBeforeStays ==
    ASSUME SentBefore, boot' = boot,
           \A m \in msgs' : \/ m \in msgs
                            \/ m.type # "GetFragment"
                            \/ m.sender <= boot[m.from]
    PROVE  SentBefore'
  BY DEF SentBefore

\* Steps that concern no fragment traffic and no listener.
LEMMA QuietAsking ==
    ASSUME Inv, Asking, UNCHANGED <<status, boot, task>>, Reveries \subseteq Reveries',
           \A q \in Node : task[q].pc # "idle" => Head(inbox'[q]) = Head(inbox[q]),
           \A m \in msgs' : m \in msgs \/ m.type \notin {"GetFragment", "GetFragmentResponse"}
    PROVE  Asking'
<1>1. \A q \in Node : Untouched(q)
  BY DEF Untouched
<1>2. \A q \in Node : \A m \in msgs' : Outstanding(q, m)' => m \in msgs
  BY DEF Outstanding
<1>3. \A q \in Node : AskingAt(q)'
  BY <1>1, <1>2, UntouchedAsking DEF Asking
<1>4. KeysCurrent' /\ SentBefore'
  BY KeysStayCurrent, SentBeforeStays DEF Asking
<1> QED
  BY <1>3, <1>4 DEF Asking

\* Node n stops being up: nobody waits for its answers any more.
LEMMA StoppedAsking ==
    ASSUME Inv, Asking, NEW n \in Node, created' = created, boot' = boot,
           status' = [status EXCEPT ![n] = status'[n]], status'[n] # "up",
           \A q \in Node \ {n} : task'[q] = task[q] /\ inbox'[q] = inbox[q],
           task'[n] = Idle \/ (task'[n] = task[n] /\ inbox'[n] = inbox[n]),
           msgs' \subseteq msgs,
           \A m \in msgs' : ~(m.type = "GetFragmentResponse" /\ m.to = n)
    PROVE  Asking'
<1>1. Reveries' = Reveries
  BY DEF Reveries, Created
<1>2. \A q \in Node \ {n} : Untouched(q)
  BY DEF Untouched, Inv, LoopOK
<1>3. \A q \in Node \ {n} : AskingAt(q)'
  BY <1>1, <1>2, UntouchedAsking DEF Asking
<1>4. \A m \in msgs' : ~Outstanding(n, m)'
  BY DEF Outstanding, ChannelOpen, Up
<1>5. AskingAt(n)'
  <2>1. CASE task'[n] = Idle
    BY <1>4, <2>1, SilencedAsking
  <2>2. CASE task'[n] = task[n] /\ inbox'[n] = inbox[n]
    BY <1>1, <1>4, <2>2 DEF Asking, AskingAt, Awaits, AskedOnce, Taken
  <2> QED
    BY <2>1, <2>2
<1>6. KeysCurrent' /\ SentBefore'
  BY <1>1, KeysStayCurrent, SentBeforeStays DEF Asking
<1> QED
  BY <1>3, <1>5, <1>6 DEF Asking

\* What Forget does to the listeners.
LEMMA ForgetListener ==
    ASSUME Inv, NEW n \in Node, Forget(n)
    PROVE  /\ task'[n] = Idle
           /\ \A q \in Node \ {n} : task'[q] = task[q] /\ inbox'[q] = inbox[q]
  BY DEF Forget, Inv, QueueOK

LEMMA FailuresKeepAsking ==
    ASSUME Inv, Known, Asking, NEW n \in Node,
           \/ InternalHeartbeatFailure(n)
           \/ TriggerRestart(n)
           \/ Crash(n)
           \/ Restart(n)
    PROVE  Asking'
<1>0. status \in [Node -> Status] /\ boot \in [Node -> Nat]
  BY DEF Inv, LoopOK
<1>1. CASE InternalHeartbeatFailure(n)
  <2>1. /\ status' = [status EXCEPT ![n] = "sleeping"] /\ msgs' = msgs \ AnswersTo(n)
        /\ UNCHANGED <<created, boot, task, inbox>>
    BY <1>1 DEF InternalHeartbeatFailure
  <2>2. status'[n] # "up" /\ status' = [status EXCEPT ![n] = status'[n]]
    BY <1>0, <2>1
  <2> QED
    BY <2>1, <2>2, StoppedAsking DEF AnswersTo
<1>2. CASE Crash(n)
  <2>1. /\ status' = [status EXCEPT ![n] = "down"] /\ msgs' = msgs \ AnswersTo(n)
        /\ UNCHANGED <<created, boot>> /\ Forget(n)
    BY <1>2 DEF Crash
  <2>2. status'[n] # "up" /\ status' = [status EXCEPT ![n] = status'[n]]
    BY <1>0, <2>1
  <2> QED
    BY <2>1, <2>2, ForgetListener, StoppedAsking DEF AnswersTo
<1>3. CASE TriggerRestart(n)
  <2>1. /\ status[n] = "sleeping" /\ status' = [status EXCEPT ![n] = "down"]
        /\ UNCHANGED <<created, boot, msgs>> /\ Forget(n)
    BY <1>3 DEF TriggerRestart
  <2>2. status'[n] # "up" /\ status' = [status EXCEPT ![n] = status'[n]]
    BY <1>0, <2>1
  <2>3. \A m \in msgs : ~(m.type = "GetFragmentResponse" /\ m.to = n)
    BY <2>1 DEF Asking, AskingAt, Awaits, Outstanding, Up
  <2> QED
    BY <2>1, <2>2, <2>3, ForgetListener, StoppedAsking
<1>4. CASE Restart(n)
  <2>1. /\ status[n] = "down" /\ status' = [status EXCEPT ![n] = "up"]
        /\ boot' = [boot EXCEPT ![n] = @ + 1]
        /\ UNCHANGED <<created, task, inbox, msgs>>
    BY <1>4 DEF Restart
  <2>2. /\ boot'[n] = boot[n] + 1
        /\ \A q \in Node \ {n} : boot'[q] = boot[q] /\ status'[q] = status[q]
    BY <1>0, <2>1
  <2>3. Reveries' = Reveries
    BY <2>1 DEF Reveries, Created
  <2>4. \A m \in msgs : ~(m.type = "GetFragmentResponse" /\ m.to = n)
    BY <2>1 DEF Asking, AskingAt, Awaits, Outstanding, Up
  <2>5. \A m \in msgs : m.type = "GetFragment" => m.sender \in Nat /\ m.from \in Node
    BY SenderType, MessageFields DEF Inv, MsgsOK
  <2>6. SentBefore'
    <3> SUFFICES ASSUME NEW m \in msgs, m.type = "GetFragment"
                 PROVE  m.sender <= boot'[m.from]
      BY <2>1 DEF SentBefore
    <3>1. m.sender <= boot[m.from] /\ m.sender \in Nat /\ m.from \in Node
      BY <2>5 DEF Asking, SentBefore
    <3>2. boot[m.from] \in Nat /\ boot'[m.from] \in {boot[m.from], boot[m.from] + 1}
      BY <1>0, <2>2, <3>1
    <3> QED
      BY <3>1, <3>2
  <2>7. KeysCurrent'
    <3>1. \A m \in msgs : m.type = "GetFragmentResponse" => boot'[m.to] = boot[m.to]
      BY <2>2, <2>4, MessageFields DEF Inv, MsgsOK
    <3> QED
      BY <2>1, <2>3, <3>1 DEF Asking, KeysCurrent
  <2>8. \A m \in msgs : m.type = "GetFragment" /\ m.from = n => m.sender # boot[n] + 1
    BY <1>0, <2>5 DEF Asking, SentBefore
  <2>9. \A m \in msgs' : ~Outstanding(n, m)'
    BY <2>1, <2>2, <2>4, <2>8 DEF Outstanding, ChannelOpen
  <2>10. AskingAt(n)'
    BY <2>1, <2>3, <2>9 DEF Asking, AskingAt, Awaits, AskedOnce, Taken
  <2>11. \A q \in Node \ {n} : AskingAt(q)'
    BY <2>1, <2>2, <2>3, UntouchedAsking DEF Asking, Untouched
  <2> QED
    BY <2>6, <2>7, <2>10, <2>11 DEF Asking
<1> QED
  BY <1>1, <1>2, <1>3, <1>4

\* Storing, heartbeats, connections, and the first placement of an agent.
LEMMA OthersKeepAsking ==
    ASSUME Inv, Line, Known, Asking, NEW n \in Node,
           \/ \E m \in msgs : \/ SaveFragmentRequest(n, m)
                              \/ ProvidingFragmentRequest(n, m)
                              \/ SaveCiphertextRequest(n, m)
                              \/ MarkRespawnCompleteRequest(n, m)
           \/ \E p \in Node : \/ PeerHeartbeatFailure(n, p)
                              \/ Heartbeat(n, p)
                              \/ ConnectionEstablished(n, p)
                              \/ SecondConnection(n, p)
                              \/ ConnectionLost(n, p)
                              \/ RoutingUpdated(n, p)
           \/ Bootstrap(n)
    PROVE  Asking'
<1>1. UNCHANGED <<status, boot, task, created>>
  BY DEF SaveFragmentRequest, ProvidingFragmentRequest, SaveCiphertextRequest,
         MarkRespawnCompleteRequest, PeerHeartbeatFailure, Heartbeat,
         ConnectionEstablished, SecondConnection, ConnectionLost, RoutingUpdated,
         Bootstrap, loopVars
<1>2. Reveries' = Reveries
  BY <1>1 DEF Reveries, Created
<1>3. \A m \in msgs' : m \in msgs \/ m.type \notin {"GetFragment", "GetFragmentResponse"}
  BY DEF SaveFragmentRequest, ProvidingFragmentRequest, SaveCiphertextRequest,
         MarkRespawnCompleteRequest, PeerHeartbeatFailure, Heartbeat,
         ConnectionEstablished, SecondConnection, ConnectionLost, RoutingUpdated,
         Bootstrap
<1>4. \A q \in Node : task[q].pc # "idle" => Head(inbox'[q]) = Head(inbox[q])
  <2>1. \/ inbox' = inbox
        \/ \E av \in pm[n].agent_vessel : inbox' = [inbox EXCEPT ![n] = Append(@, av)]
    BY DEF SaveFragmentRequest, ProvidingFragmentRequest, SaveCiphertextRequest,
           MarkRespawnCompleteRequest, PeerHeartbeatFailure, Heartbeat,
           ConnectionEstablished, SecondConnection, ConnectionLost, RoutingUpdated,
           Bootstrap
  <2>2. CASE inbox' = inbox
    BY <2>2
  <2>3. ASSUME NEW av \in pm[n].agent_vessel, inbox' = [inbox EXCEPT ![n] = Append(@, av)]
        PROVE  \A q \in Node : task[q].pc # "idle" => Head(inbox'[q]) = Head(inbox[q])
    <3> SUFFICES ASSUME NEW q \in Node, task[q].pc # "idle"
                 PROVE  Head(inbox'[q]) = Head(inbox[q])
      OBVIOUS
    <3>1. inbox \in [Node -> Seq(AgentVesselInfo)] /\ inbox[q] # <<>>
      BY DEF Inv, QueueOK, BusyListenerHasRequest
    <3>2. CASE q # n
      BY <2>3, <3>1, <3>2
    <3>3. CASE q = n
      <4>1. av \in AgentVesselInfo
        BY DEF Inv, PmOK, PeerManagers
      <4>2. inbox'[n] = Append(inbox[n], av) /\ inbox[n] \in Seq(AgentVesselInfo)
        BY <2>3, <3>1
      <4>3. Len(inbox[n]) \in Nat \ {0}
        BY <3>1, <3>3, <4>2, LenProperties, EmptySeq
      <4>4. /\ Append(inbox[n], av)[1] = inbox[n][1]
            /\ Append(inbox[n], av) \in Seq(AgentVesselInfo)
            /\ Append(inbox[n], av) # <<>>
        BY <4>1, <4>2, <4>3, AppendProperties
      <4>5. /\ Head(Append(inbox[n], av)) = Append(inbox[n], av)[1]
            /\ Head(inbox[n]) = inbox[n][1]
        BY <3>1, <3>3, <4>2, <4>4, HeadTailProperties
      <4> QED
        BY <3>3, <4>2, <4>4, <4>5
    <3> QED
      BY <3>2, <3>3
  <2> QED
    BY <2>1, <2>2, <2>3
<1> QED
  BY <1>1, <1>2, <1>3, <1>4, QuietAsking

LEMMA SpawnKeepsAsking ==
    ASSUME Inv, Known, Asking, NEW n \in Node, NEW a \in Agent, NEW target \in Node,
           NEW providers \in Providers, SpawnAgent(n, a, target, providers)
    PROVE  Asking'
<1> DEFINE r == NewReverie(n, a, 0, target, providers)
<1>1. /\ CanPlace(n, target, providers) /\ UNCHANGED <<status, boot, task, inbox>>
      /\ created' = [created EXCEPT ![a] = Append(@, r)]
      /\ msgs' = msgs \cup BroadcastMsgs(n, r)
  BY DEF SpawnAgent, loopVars
<1>2. Reveries' = Reveries \cup {r}
  BY <1>1, ReverieMade
<1> HIDE DEF r
<1>3. \A m \in BroadcastMsgs(n, r) : m.type \notin {"GetFragment", "GetFragmentResponse"}
  BY DEF BroadcastMsgs
<1> QED
  BY <1>1, <1>2, <1>3, QuietAsking

\* A fragment request has another node as its receiver.
LEMMA AskedAnother ==
    ASSUME Inv, Known, NEW m \in msgs, m.type = "GetFragment"
    PROVE  m.from # m.to /\ m.from \in Node /\ m.to \in Node
<1>1. PICK r \in Reveries : m.from = r.target /\ Provides(m.to, r)
  BY DEF Known, MsgKnown
<1>2. Placed(r)
  BY KnownReverie
<1> QED
  BY <1>1, <1>2, MessageFields DEF Placed, Inv, MsgsOK

\* A request is taken out of the network and answered, if someone waits for it.
LEMMA AnsweredAsking ==
    ASSUME Inv, Known, Asking, NEW m \in msgs, m.type = "GetFragment", NEW ok,
           Reveries' = Reveries,
           \A y \in msgs' : (y \in msgs /\ y # m) \/ y \in Answer(m, ok),
           NEW q \in Node, Untouched(q)
    PROVE  AskingAt(q)'
<1> DEFINE x == [type |-> "GetFragmentResponse", from |-> m.to, to |-> m.from,
                 id |-> m.id, ok |-> ok]
<1>1. Answer(m, ok) = IF ChannelOpen(m) THEN {x} ELSE {}
  BY DEF Answer
<1>2. x.type = "GetFragmentResponse" /\ x.from = m.to /\ x.to = m.from /\ x.id = m.id
  OBVIOUS
<1> HIDE DEF x
<1>3. CASE ChannelOpen(m) /\ q = m.from
  <2>1. Outstanding(q, m) /\ Asked(x) = Asked(m)
    BY <1>2, <1>3 DEF Outstanding, Asked
  <2> QED
    BY <1>1, <1>2, <1>3, <2>1, ExchangedAsking DEF Asking
<1>4. CASE ~ChannelOpen(m) \/ q # m.from
  <2>1. \A y \in msgs' : Outstanding(q, y)' => y \in msgs
    BY <1>1, <1>2, <1>4 DEF Outstanding
  <2> QED
    BY <2>1, UntouchedAsking DEF Asking
<1> QED
  BY <1>3, <1>4

\* A provider hands out a fragment: the key the reverie names is the key of the
\* boot that asked, and that boot is still running.
LEMMA GetFragmentKeepsAsking ==
    ASSUME Inv, Known, Asking, NEW n \in Node, NEW m \in msgs, GetFragmentRequest(n, m)
    PROVE  Asking'
<1>1. /\ m.type = "GetFragment" /\ m.to = n /\ HasAccess(n, m)
      /\ msgs' = (msgs \ {m}) \cup Answer(m, TRUE)
      /\ UNCHANGED <<status, boot, task, inbox, created>>
  BY DEF GetFragmentRequest, Inbound, loopVars
<1>2. Reveries' = Reveries
  BY <1>1 DEF Reveries, Created
<1>3. \A q \in Node : AskingAt(q)'
  BY <1>1, <1>2, AnsweredAsking DEF Untouched
<1>4. \A x \in Answer(m, TRUE) :
         /\ x.type = "GetFragmentResponse" /\ x.to = m.from /\ x.id = m.id
         /\ boot[m.from] = m.sender
  BY DEF Answer, ChannelOpen
<1>5. KeysCurrent'
  <2>1. PICK c \in pm[n].cfrags : c.id = m.id /\ c.verifying_key = <<m.from, m.sender>>
    BY <1>1 DEF HasAccess
  <2>2. c \in Reveries
    BY DEF Known, PmKnown
  <2>3. \A x \in Answer(m, TRUE) :
           \E r \in Reveries : r.id = x.id /\ r.verifying_key = <<x.to, boot[x.to]>>
    BY <1>4, <2>1, <2>2
  <2> QED
    BY <1>1, <1>2, <2>3 DEF Asking, KeysCurrent
<1>6. SentBefore'
  BY <1>1, <1>4, SentBeforeStays DEF Asking
<1> QED
  BY <1>3, <1>5, <1>6 DEF Asking

\* A provider refuses, or cannot answer the requester, and its loop ends.
LEMMA WedgeKeepsAsking ==
    ASSUME Inv, Known, Asking, NEW n \in Node, NEW m \in msgs,
           GetFragmentRefused(n, m) \/ ResponseChannelClosed(n, m)
    PROVE  Asking'
<1>0. status \in [Node -> Status]
  BY DEF Inv, LoopOK
<1>1. /\ status' = [status EXCEPT ![n] = "wedged"] /\ Forget(n)
      /\ UNCHANGED <<boot, created>>
  BY DEF GetFragmentRefused, ResponseChannelClosed, Wedge
<1>2. status'[n] = "wedged" /\ \A q \in Node \ {n} : status'[q] = status[q]
  BY <1>0, <1>1
<1>3. Reveries' = Reveries
  BY <1>1 DEF Reveries, Created
<1>4. CASE ResponseChannelClosed(n, m) /\ m.type # "GetFragment"
  <2>1. msgs' = msgs \ (AnswersTo(n) \cup {m})
    BY <1>4 DEF ResponseChannelClosed
  <2>2. status' = [status EXCEPT ![n] = status'[n]] /\ status'[n] # "up"
    BY <1>0, <1>1
  <2> QED
    BY <1>1, <2>1, <2>2, ForgetListener, StoppedAsking DEF AnswersTo
<1>5. CASE m.type = "GetFragment"
  <2>1. /\ m.type = "GetFragment" /\ m.to = n
        /\ msgs' = (msgs \ (AnswersTo(n) \cup {m})) \cup Answer(m, FALSE)
    BY <1>5 DEF GetFragmentRefused, ResponseChannelClosed, Inbound
  <2>2. m.from # n
    BY <2>1, AskedAnother
  <2>3. \A x \in Answer(m, FALSE) :
           x.type = "GetFragmentResponse" /\ x.to = m.from /\ x.ok = FALSE
    BY DEF Answer
  <2>4. \A q \in Node \ {n} : AskingAt(q)'
    <3>1. \A q \in Node \ {n} : Untouched(q)
      BY <1>1, <1>2, ForgetListener DEF Untouched
    <3>2. \A y \in msgs' : (y \in msgs /\ y # m) \/ y \in Answer(m, FALSE)
      BY <2>1
    <3> QED
      BY <1>3, <2>1, <3>1, <3>2, AnsweredAsking
  <2>5. AskingAt(n)'
    <3>1. \A y \in msgs' : ~Outstanding(n, y)'
      BY <1>2, <2>1, <2>2, <2>3 DEF Outstanding, ChannelOpen, Up, AnswersTo
    <3> QED
      BY <1>1, <3>1, ForgetListener, SilencedAsking
  <2>6. KeysCurrent' /\ SentBefore'
    BY <1>1, <1>3, <2>1, <2>3, KeysStayCurrent, SentBeforeStays DEF Asking
  <2> QED
    BY <2>4, <2>5, <2>6 DEF Asking
<1> QED
  BY <1>4, <1>5 DEF GetFragmentRefused, Inbound

LEMMA LossKeepsAsking ==
    ASSUME Inv, Known, Asking, NEW m \in msgs, LoseMessage(m)
    PROVE  Asking'
<1>1. UNCHANGED <<status, boot, task, inbox, created>>
  BY DEF LoseMessage, loopVars
<1>2. Reveries' = Reveries
  BY <1>1 DEF Reveries, Created
<1>3. \A q \in Node : Untouched(q)
  BY <1>1 DEF Untouched
<1>4. CASE m.type = "GetFragment"
  <2>1. msgs' = (msgs \ {m}) \cup Answer(m, FALSE)
    BY <1>4 DEF LoseMessage
  <2>2. \A x \in Answer(m, FALSE) : x.type = "GetFragmentResponse" /\ x.ok = FALSE
    BY DEF Answer
  <2>3. \A q \in Node : AskingAt(q)'
    BY <1>2, <1>3, <1>4, <2>1, AnsweredAsking
  <2> QED
    BY <1>1, <1>2, <2>1, <2>2, <2>3, KeysStayCurrent, SentBeforeStays DEF Asking
<1>5. CASE m.type = "GetFragmentResponse"
  <2> DEFINE x == [m EXCEPT !.ok = FALSE]
  <2>1. msgs' = (msgs \ {m}) \cup {x}
    BY <1>5 DEF LoseMessage
  <2>2. x.type = m.type /\ x.from = m.from /\ x.to = m.to /\ x.id = m.id /\ x.ok = FALSE
    BY <1>5 DEF Inv, MsgsOK, Message
  <2> HIDE DEF x
  <2>3. \A q \in Node : AskingAt(q)'
    <3> TAKE q \in Node
    <3>1. CASE q = m.to
      <4>1. Outstanding(q, m) /\ Asked(x) = Asked(m)
        BY <1>5, <2>2, <3>1 DEF Outstanding, Asked
      <4> QED
        BY <1>2, <1>3, <2>1, <2>2, <4>1, ExchangedAsking DEF Asking
    <3>2. CASE q # m.to
      <4>1. \A y \in msgs' : Outstanding(q, y)' => y \in msgs
        BY <1>5, <2>1, <2>2, <3>2 DEF Outstanding
      <4> QED
        BY <1>2, <1>3, <4>1, UntouchedAsking DEF Asking
    <3> QED
      BY <3>1, <3>2
  <2> QED
    BY <1>1, <1>2, <1>5, <2>1, <2>2, <2>3, KeysStayCurrent, SentBeforeStays DEF Asking
<1>6. CASE m.type # "GetFragment" /\ m.type # "GetFragmentResponse"
  <2>1. msgs' = (msgs \ {m}) \cup {}
    BY <1>6 DEF LoseMessage
  <2> QED
    BY <1>1, <1>2, <2>1, QuietAsking
<1> QED
  BY <1>4, <1>5, <1>6

\* The event loop hands an answer to the listener that waits for it.
LEMMA ResponseKeepsAsking ==
    ASSUME Inv, Known, Asking, NEW n \in Node, NEW m \in msgs, GetFragmentResponse(n, m)
    PROVE  Asking'
<1>1. /\ m.type = "GetFragmentResponse" /\ m.to = n /\ msgs' = msgs \ {m}
      /\ UNCHANGED <<status, boot, inbox, created>>
      /\ \/ task' = [task EXCEPT ![n].ok = @ \cup {m.from}]
         \/ task' = [task EXCEPT ![n].failed = @ \cup {m.from}]
  BY Zenon DEF GetFragmentResponse, Inbound, loopVars
<1>2. Reveries' = Reveries
  BY <1>1 DEF Reveries, Created
<1>3. task \in [Node -> Task] /\ task[n] \in Task
  BY DEF Inv, QueueOK
<1>4. /\ task'[n].pc = task[n].pc
      /\ task'[n].ok \cup task'[n].failed = task[n].ok \cup task[n].failed \cup {m.from}
      /\ \A q \in Node \ {n} : task'[q] = task[q]
  BY <1>1, <1>3 DEF Task
<1>5. Outstanding(n, m) /\ Asked(m) = m.from
  BY <1>1 DEF Outstanding, Asked
<1>6. Up(n) /\ task[n].pc = "collect" /\ m.id = Head(inbox[n]).reverie_id
  BY <1>5 DEF Asking, AskingAt, Awaits
<1>7. \A x \in msgs' : \A q \in Node : Outstanding(q, x)' => Outstanding(q, x) /\ x \in msgs
  BY <1>1 DEF Outstanding, ChannelOpen, Up
<1>8. AskingAt(n)'
  <2>1. \A x \in msgs' : Outstanding(n, x)' => Asked(x) # m.from
    BY <1>1, <1>5, <1>7 DEF Asking, AskingAt, AskedOnce
  <2>2. Awaits(n)'
    <3> SUFFICES ASSUME NEW x \in msgs', Outstanding(n, x)'
                 PROVE  /\ Up(n)' /\ task'[n].pc = "collect"
                        /\ x.id = Head(inbox'[n]).reverie_id
                        /\ Asked(x) \notin task'[n].ok \cup task'[n].failed
      BY DEF Awaits, Asked
    <3>1. /\ x.id = Head(inbox[n]).reverie_id
          /\ Asked(x) \notin task[n].ok \cup task[n].failed
      BY <1>7 DEF Asking, AskingAt, Awaits
    <3> QED
      BY <1>1, <1>4, <1>6, <2>1, <3>1 DEF Up
  <2>3. AskedOnce(n)'
    BY <1>7 DEF Asking, AskingAt, AskedOnce, Asked
  <2>4. Taken(n)'
    <3>1. \E r \in Reveries : r.id = m.id /\ Provides(m.from, r)
      BY <1>1 DEF Known, MsgKnown
    <3>2. \A p \in task'[n].ok \cup task'[n].failed :
             \E r \in Reveries : r.id = Head(inbox[n]).reverie_id /\ Provides(p, r)
      BY <1>4, <1>6, <3>1 DEF Asking, AskingAt, Taken
    <3> QED
      BY <1>1, <1>2, <1>4, <1>6, <3>2 DEF Taken
  <2> QED
    BY <2>2, <2>3, <2>4 DEF AskingAt
<1>9. \A q \in Node \ {n} : AskingAt(q)'
  BY <1>1, <1>2, <1>4, <1>7, UntouchedAsking DEF Asking, Untouched
<1>10. KeysCurrent' /\ SentBefore'
  BY <1>1, <1>2, KeysStayCurrent, SentBeforeStays DEF Asking
<1> QED
  BY <1>8, <1>9, <1>10 DEF Asking

\* An idle listener asks every provider of the reverie, once.
LEMMA StartKeepsAsking ==
    ASSUME Inv, Known, Asking, NEW n \in Node, NEW r \in pm[n].reverie, StartRespawn(n, r)
    PROVE  Asking'
<1> DEFINE asks == {[type |-> "GetFragment", from |-> n, sender |-> boot[n],
                     to |-> r.providers[i], id |-> r.id] : i \in 1..TotalFrags}
<1>1. /\ Up(n) /\ task[n].pc = "idle" /\ r.id = Head(inbox[n]).reverie_id
      /\ task' = [task EXCEPT ![n].pc = "collect"] /\ msgs' = msgs \cup asks
      /\ UNCHANGED <<status, boot, inbox, created>>
  BY DEF StartRespawn, loopVars
<1>2. Reveries' = Reveries
  BY <1>1 DEF Reveries, Created
<1>3. task[n] = Idle /\ \A m \in msgs : ~Outstanding(n, m)
  BY <1>1 DEF Asking, AskingAt, Awaits, Taken
<1>4. /\ task'[n].pc = "collect" /\ task'[n].ok = {} /\ task'[n].failed = {}
      /\ \A q \in Node \ {n} : task'[q] = task[q]
  BY <1>1, <1>3 DEF Inv, QueueOK, Idle
<1>5. \A m \in asks : /\ m.type = "GetFragment" /\ m.from = n /\ m.id = r.id
                      /\ m.sender = boot[n]
  OBVIOUS
<1>6. \A m1, m2 \in asks : m1.to = m2.to => m1 = m2
  OBVIOUS
<1> HIDE DEF asks
<1>7. \A m \in msgs' : Outstanding(n, m)' => m \in asks
  BY <1>1, <1>3 DEF Outstanding, ChannelOpen, Up
<1>8. AskingAt(n)'
  <2>1. Awaits(n)'
    BY <1>1, <1>4, <1>5, <1>7 DEF Awaits, Up
  <2>2. AskedOnce(n)'
    BY <1>5, <1>6, <1>7 DEF AskedOnce, Asked
  <2>3. Taken(n)'
    BY <1>4 DEF Taken
  <2> QED
    BY <2>1, <2>2, <2>3 DEF AskingAt
<1>9. \A q \in Node \ {n} : AskingAt(q)'
  <2> SUFFICES ASSUME NEW q \in Node \ {n} PROVE AskingAt(q)'
    OBVIOUS
  <2>1. Untouched(q)
    BY <1>1, <1>4 DEF Untouched
  <2>2. \A m \in msgs' : Outstanding(q, m)' => m \in msgs
    BY <1>1, <1>5 DEF Outstanding
  <2> QED
    BY <1>2, <2>1, <2>2, UntouchedAsking DEF Asking
<1>10. KeysCurrent'
  BY <1>1, <1>2, <1>5, KeysStayCurrent DEF Asking
<1>11. SentBefore'
  <2>1. boot[n] \in Nat
    BY DEF Inv, LoopOK
  <2> QED
    BY <1>1, <1>5, <2>1, SentBeforeStays DEF Asking
<1> QED
  BY <1>8, <1>9, <1>10, <1>11 DEF Asking

\* The listener of n has all its answers and goes on, or gives up.
LEMMA ListenerDoneAsking ==
    ASSUME Inv, Asking, NEW n \in Node, \A m \in msgs : ~Outstanding(n, m),
           UNCHANGED <<status, boot>>, Reveries \subseteq Reveries',
           \A q \in Node \ {n} : task'[q] = task[q] /\ inbox'[q] = inbox[q],
           Taken(n)',
           \A m \in msgs' : m \in msgs \/ m.type \notin {"GetFragment", "GetFragmentResponse"}
    PROVE  Asking'
<1>1. \A q \in Node : \A m \in msgs' : Outstanding(q, m)' => m \in msgs /\ Outstanding(q, m)
  BY DEF Outstanding, ChannelOpen, Up
<1>2. AskingAt(n)'
  BY <1>1 DEF AskingAt, Awaits, AskedOnce
<1>3. \A q \in Node \ {n} : AskingAt(q)'
  BY <1>1, UntouchedAsking DEF Asking, Untouched
<1>4. KeysCurrent' /\ SentBefore'
  BY KeysStayCurrent, SentBeforeStays DEF Asking
<1> QED
  BY <1>2, <1>3, <1>4 DEF Asking

\* A listener with nothing to do has taken nothing.
LEMMA IdleTaken ==
    ASSUME NEW n, task'[n] = Idle
    PROVE  Taken(n)'
<1>1. Idle.pc = "idle" /\ Idle.ok = {} /\ Idle.failed = {}
  BY DEF Idle
<1> QED
  BY <1>1 DEF Taken

LEMMA ListenerKeepsAsking ==
    ASSUME Inv, Known, Asking, NEW n \in Node,
           CollectCfrags(n) \/ CollectFails(n) \/ PlaceFails(n)
    PROVE  Asking'
<1>0. task \in [Node -> Task] /\ task[n] \in Task /\ inbox \in [Node -> Seq(AgentVesselInfo)]
  BY DEF Inv, QueueOK
<1>1. \A m \in msgs : ~Outstanding(n, m)
  <2>1. CASE CollectCfrags(n) \/ CollectFails(n)
    BY <2>1, NothingOutstanding DEF CollectCfrags, CollectFails, Asking
  <2>2. CASE PlaceFails(n)
    BY <2>2 DEF PlaceFails, Asking, AskingAt, Awaits
  <2> QED
    BY <2>1, <2>2
<1>2. UNCHANGED <<status, boot, msgs, created>>
  BY DEF CollectCfrags, CollectFails, PlaceFails, DropRespawn, loopVars
<1>3. Reveries' = Reveries
  BY <1>2 DEF Reveries, Created
<1>4. CASE CollectCfrags(n)
  <2>1. /\ Cardinality(task[n].ok) >= Threshold /\ inbox' = inbox
        /\ task' = [task EXCEPT ![n].pc = "place"]
    BY <1>4 DEF CollectCfrags, CfragsUsable
  <2>2. /\ task'[n].pc = "place" /\ task'[n].ok = task[n].ok
        /\ task'[n].failed = task[n].failed
        /\ \A q \in Node \ {n} : task'[q] = task[q]
    BY <1>0, <2>1 DEF Task
  <2>3. Taken(n)'
    BY <1>3, <2>1, <2>2 DEF Asking, AskingAt, Taken
  <2> QED
    BY <1>1, <1>2, <1>3, <2>1, <2>2, <2>3, ListenerDoneAsking
<1>5. CASE CollectFails(n) \/ PlaceFails(n)
  <2>1. /\ task'[n] = Idle
        /\ \A q \in Node \ {n} : task'[q] = task[q] /\ inbox'[q] = inbox[q]
    BY <1>0, <1>5 DEF CollectFails, PlaceFails, DropRespawn
  <2> QED
    BY <1>1, <1>2, <1>3, <2>1, IdleTaken, ListenerDoneAsking
<1> QED
  BY <1>4, <1>5

LEMMA PlaceKeepsAsking ==
    ASSUME Inv, Known, Asking, NEW n \in Node, NEW target \in Node,
           NEW providers \in Providers, PlaceAgent(n, target, providers)
    PROVE  Asking'
<1> DEFINE prev == Head(inbox[n])
           a == prev.agent
           r == NewReverie(n, a, NextNonce(prev), target, providers)
           done == RemovePeer(SetPeerInfoAgentVessel(pm[n], n, VesselInfo(r)),
                              prev.current_vessel)
           marks == MarkCompleteMsgs(n, done, prev)
<1>1. /\ CanPlace(n, target, providers) /\ task[n].pc = "place"
      /\ created' = [created EXCEPT ![a] = Append(@, r)]
      /\ msgs' = msgs \cup BroadcastMsgs(n, r) \cup marks
      /\ inbox' = [inbox EXCEPT ![n] = Tail(@)] /\ task' = [task EXCEPT ![n] = Idle]
      /\ UNCHANGED <<status, boot>>
  BY DEF PlaceAgent, loopVars
<1>2. inbox[n] # <<>> /\ inbox[n] \in Seq(AgentVesselInfo)
  BY DEF PlaceAgent, Inv, QueueOK, BusyListenerHasRequest
<1>3. prev \in AgentVesselInfo
  BY <1>2, HeadTailProperties
<1> HIDE DEF prev
<1>4. a \in Agent /\ NextNonce(prev) \in Nat
  BY <1>3 DEF AgentVesselInfo, NextNonce
<1>5. Reveries' = Reveries \cup {r}
  BY <1>1, <1>4, ReverieMade
<1>6. \A m \in BroadcastMsgs(n, r) \cup marks :
         m.type \notin {"GetFragment", "GetFragmentResponse"}
  <2> HIDE DEF r, done
  <2> QED
    BY DEF BroadcastMsgs, MarkCompleteMsgs
<1> HIDE DEF r, a, marks
<1>7. /\ task'[n] = Idle
      /\ \A q \in Node \ {n} : task'[q] = task[q] /\ inbox'[q] = inbox[q]
  BY <1>1 DEF Inv, QueueOK
<1>8. \A m \in msgs : ~Outstanding(n, m)
  BY <1>1 DEF Asking, AskingAt, Awaits
<1> QED
  BY <1>1, <1>5, <1>6, <1>7, <1>8, IdleTaken, ListenerDoneAsking

LEMMA InitAsking == Init => Asking
<1> SUFFICES ASSUME Init PROVE Asking
  OBVIOUS
<1>1. Idle.pc = "idle" /\ Idle.ok = {} /\ Idle.failed = {}
  BY DEF Idle
<1>2. msgs = {} /\ \A n \in Node : task[n] = Idle
  BY DEF Init
<1> QED
  BY <1>1, <1>2 DEF Asking, AskingAt, Awaits, AskedOnce, Taken, SentBefore, KeysCurrent

LEMMA NextAsking == Inv /\ Line /\ Known /\ Asking /\ [Next]_vars => Asking'
<1> SUFFICES ASSUME Inv, Line, Known, Asking, [Next]_vars PROVE Asking'
  OBVIOUS
<1>1. CASE Environment
  BY <1>1, SpawnKeepsAsking, FailuresKeepAsking, OthersKeepAsking DEF Environment
<1>2. CASE \E n \in Node : Listener(n) \/ TriggerRestart(n) \/ Restart(n)
  BY <1>2, StartKeepsAsking, ListenerKeepsAsking, PlaceKeepsAsking, FailuresKeepAsking
  DEF Listener, Place
<1>3. CASE \E n \in Node, m \in msgs : Deliver(n, m) \/ ResponseChannelClosed(n, m)
  BY <1>3, OthersKeepAsking, GetFragmentKeepsAsking, WedgeKeepsAsking,
     ResponseKeepsAsking DEF Deliver
<1>4. CASE \E m \in msgs : LoseMessage(m)
  BY <1>4, LossKeepsAsking
<1>5. CASE \E n, p \in Node : \/ PeerHeartbeatFailure(n, p)
                              \/ Heartbeat(n, p)
                              \/ ConnectionEstablished(n, p)
  BY <1>5, OthersKeepAsking
<1>6. CASE UNCHANGED vars
  <2>1. Reveries' = Reveries
    BY <1>6 DEF vars, Reveries, Created
  <2> QED
    BY <1>6, <2>1, QuietAsking DEF vars
<1> QED
  BY <1>1, <1>2, <1>3, <1>4, <1>5, <1>6 DEF Next

LEMMA AskingAlways == Spec => [](Inv /\ Line /\ Known /\ Asking)
<1>1. Init => Inv /\ Line /\ Known /\ Asking
  BY InitInv, InitLine, InitKnown, InitAsking
<1>2. (Inv /\ Line /\ Known /\ Asking) /\ [Next]_vars => (Inv /\ Line /\ Known /\ Asking)'
  BY NextInv, NextLine, NextKnown, NextAsking
<1> QED
  BY <1>1, <1>2, PTL DEF Spec

\* A fragment on its way comes from a provider of its reverie and goes to the next
\* vessel, in the boot whose key the reverie names: a vessel that restarts while
\* its requests are under way gets nothing with its old signature.
THEOREM FragmentsReachOnlyNextVessel == Spec => []FragmentsOnlyToNextVessel
<1>1. Inv /\ Known /\ Asking => FragmentsOnlyToNextVessel
  <2> SUFFICES ASSUME Inv, Known, Asking, NEW m \in msgs,
                      m.type = "GetFragmentResponse", m.ok
               PROVE  \E r \in Reveries :
                         /\ r.id = m.id /\ m.to = r.target
                         /\ r.verifying_key = <<m.to, boot[m.to]>>
                         /\ \E i \in 1..TotalFrags : m.from = r.providers[i]
    BY DEF FragmentsOnlyToNextVessel
  <2>1. PICK r \in Reveries : r.id = m.id /\ m.to = r.target /\ Provides(m.from, r)
    BY DEF Known, MsgKnown
  <2>2. PICK s \in Reveries : s.id = m.id /\ s.verifying_key = <<m.to, boot[m.to]>>
    BY DEF Asking, KeysCurrent
  <2>3. r = s
    BY <2>1, <2>2, IdsUnique
  <2> QED
    BY <2>1, <2>2, <2>3 DEF Provides
<1> QED
  BY <1>1, AskingAlways, PTL

\* A listener that is about to place an agent is the next vessel of the reverie at
\* the head of its inbox and has Threshold fragments of that very reverie.
LEMMA PlacesWithThreshold ==
    ASSUME Inv, Line, Known, Asking, NEW n \in Node, task[n].pc = "place"
    PROVE  \E r \in Reveries :
              /\ Head(inbox[n]) = VesselInfo(r) /\ r.target = n
              /\ Cardinality({i \in 1..TotalFrags : r.providers[i] \in task[n].ok})
                    >= Threshold
<1> DEFINE prev == Head(inbox[n])
           a == prev.agent
           r == Latest(a)
           ok == task[n].ok
           I == {i \in 1..TotalFrags : r.providers[i] \in ok}
           f == [i \in I |-> r.providers[i]]
<1>1. /\ prev \in AgentVesselInfo /\ prev.next_vessel = n /\ prev = VesselInfo(r)
      /\ Len(created[a]) \in Nat \ {0}
  BY PlacedIsLatest DEF Current
<1>2. a \in Agent
  BY <1>1 DEF AgentVesselInfo
<1>3. r \in Reveries
  <2>1. DOMAIN created[a] = 1..Len(created[a])
    BY <1>2, LenProperties DEF Inv, RestOK
  <2>2. Len(created[a]) \in DOMAIN created[a]
    BY <1>1, <2>1
  <2>3. r \in Created(a)
    BY <2>2 DEF Created, Latest
  <2> QED
    BY <1>2, <2>3 DEF Reveries
<1>4. r.target = n /\ prev.reverie_id = r.id
  BY <1>1, VesselInfoFields DEF VesselInfo
<1>5. \A p \in ok : Provides(p, r)
  <2> SUFFICES ASSUME NEW p \in ok PROVE Provides(p, r)
    OBVIOUS
  <2>1. PICK s \in Reveries : s.id = prev.reverie_id /\ Provides(p, s)
    BY DEF Asking, AskingAt, Taken
  <2>2. s = r
    BY <1>3, <1>4, <2>1, IdsUnique
  <2> QED
    BY <2>1, <2>2
<1>6. IsFiniteSet(I)
  <2>1. IsFiniteSet(1..TotalFrags)
    BY TotalFragsAssumption, FS_Interval
  <2>2. I \in SUBSET (1..TotalFrags)
    OBVIOUS
  <2> HIDE DEF I
  <2> QED
    BY <2>1, <2>2, FS_Subset
<1>7. f \in Surjection(I, ok)
  BY <1>5 DEF Surjection, Provides
<1>8. /\ IsFiniteSet(ok) /\ Cardinality(ok) <= Cardinality(I)
      /\ Cardinality(ok) \in Nat /\ Cardinality(I) \in Nat
  <2> HIDE DEF f, I, ok
  <2> QED
    BY <1>6, <1>7, FS_Surjection, FS_CardinalityType
<1>9. Cardinality(ok) >= Threshold
  BY DEF Asking, AskingAt, Taken
<1>10. Cardinality(I) >= Threshold
  <2> HIDE DEF I, ok
  <2> QED
    BY <1>8, <1>9, ThresholdAssumption, TotalFragsAssumption
<1> QED
  BY <1>1, <1>3, <1>4, <1>10

\* No listener decrypts an agent's secrets with fewer fragments than the
\* threshold, or with fragments that came late for another reverie.
THEOREM DecryptionNeedsThreshold == Spec => []SecretsNeedThreshold
<1>1. Inv /\ Line /\ Known /\ Asking => SecretsNeedThreshold
  BY PlacesWithThreshold DEF SecretsNeedThreshold
<1> QED
  BY <1>1, AskingAlways, PTL
=============================================================================
