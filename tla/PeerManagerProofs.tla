------------------------- MODULE PeerManagerProofs -------------------------
(***************************************************************************)
(* Every method of the PeerManager maps a well-formed value to a           *)
(* well-formed value: it keeps the types, the agreement of the two         *)
(* provider maps and the filing of the vessel records.                     *)
(***************************************************************************)
EXTENDS PeerManager, TLAPS

WellFormed(x) == x \in PeerManagers /\ ProviderMapsAgree(x) /\ VesselRecordsFiled(x)

\* The AgentVesselInfo made from a reverie has the right type.
LEMMA VesselInfoType ==
    ASSUME NEW r \in Reverie
    PROVE  VesselInfo(r) \in AgentVesselInfo
BY DEF Reverie, VesselInfo, AgentVesselInfo

\* A new PeerManager that knows any set of peers is well formed.
LEMMA NewWellFormed ==
    ASSUME NEW S \in SUBSET Node
    PROVE  WellFormed([NewPeerManager EXCEPT !.peer_info = S])
<1> DEFINE x == [NewPeerManager EXCEPT !.peer_info = S]
<1>1. x \in PeerManagers
  BY DEF NewPeerManager, PeerManagers
<1>2. ProviderMapsAgree(x) /\ VesselRecordsFiled(x)
  BY DEF NewPeerManager, ProviderMapsAgree, VesselRecordsFiled
<1> QED BY <1>1, <1>2 DEF WellFormed

LEMMA EmptyWellFormed == WellFormed(NewPeerManager)
<1>1. NewPeerManager \in PeerManagers
  BY DEF NewPeerManager, PeerManagers
<1>2. ProviderMapsAgree(NewPeerManager) /\ VesselRecordsFiled(NewPeerManager)
  BY DEF NewPeerManager, ProviderMapsAgree, VesselRecordsFiled
<1> QED BY <1>1, <1>2 DEF WellFormed

\* insert_peer_info
LEMMA InsertPeerInfoWellFormed ==
    ASSUME NEW x, WellFormed(x), NEW p \in Node
    PROVE  WellFormed(InsertPeerInfo(x, p))
<1> DEFINE y == InsertPeerInfo(x, p)
<1>1. y \in PeerManagers
  BY DEF WellFormed, InsertPeerInfo, PeerManagers
<1>2. /\ y.peer_info = x.peer_info \cup {p}
      /\ y.agent_vessel = {av \in x.agent_vessel : av.current_vessel # p}
      /\ y.kfrag_providers = x.kfrag_providers
      /\ y.peers_to_reverie_frags = x.peers_to_reverie_frags
  BY DEF WellFormed, InsertPeerInfo, PeerManagers
<1> HIDE DEF y
<1>3. ProviderMapsAgree(y)
  BY <1>2 DEF WellFormed, ProviderMapsAgree
<1>4. VesselRecordsFiled(y)
  BY <1>2 DEF WellFormed, VesselRecordsFiled
<1> QED BY <1>1, <1>3, <1>4 DEF WellFormed, y

\* remove_peer_info
LEMMA RemovePeerInfoWellFormed ==
    ASSUME NEW x, WellFormed(x), NEW p \in Node
    PROVE  WellFormed(RemovePeerInfo(x, p))
<1> DEFINE y == RemovePeerInfo(x, p)
<1>1. y \in PeerManagers
  BY DEF WellFormed, RemovePeerInfo, PeerManagers
<1>2. /\ y.peer_info = x.peer_info \ {p}
      /\ y.agent_vessel = {av \in x.agent_vessel : av.current_vessel # p}
      /\ y.kfrag_providers = x.kfrag_providers
      /\ y.peers_to_reverie_frags = x.peers_to_reverie_frags
  BY DEF WellFormed, RemovePeerInfo, PeerManagers
<1> HIDE DEF y
<1>3. ProviderMapsAgree(y)
  BY <1>2 DEF WellFormed, ProviderMapsAgree
<1>4. VesselRecordsFiled(y)
  BY <1>2 DEF WellFormed, VesselRecordsFiled
<1> QED BY <1>1, <1>3, <1>4 DEF WellFormed, y

\* update_peer_heartbeat
LEMMA UpdatePeerHeartbeatWellFormed ==
    ASSUME NEW x, WellFormed(x), NEW p \in Node
    PROVE  WellFormed(UpdatePeerHeartbeat(x, p))
BY InsertPeerInfoWellFormed DEF UpdatePeerHeartbeat

\* set_peer_info_agent_vessel
LEMMA SetPeerInfoAgentVesselWellFormed ==
    ASSUME NEW x, WellFormed(x), NEW self \in Node, NEW info \in AgentVesselInfo
    PROVE  WellFormed(SetPeerInfoAgentVessel(x, self, info))
<1> DEFINE y == SetPeerInfoAgentVessel(x, self, info)
<1>1. y \in PeerManagers
  BY DEF WellFormed, SetPeerInfoAgentVessel, PeerManagers
<1>2. /\ y.peer_info = x.peer_info
      /\ y.kfrag_providers = x.kfrag_providers
      /\ y.peers_to_reverie_frags = x.peers_to_reverie_frags
      /\ y.agent_vessel =
            IF info.current_vessel \in x.peer_info
            THEN {av \in x.agent_vessel : av.current_vessel # info.current_vessel}
                 \cup {info}
            ELSE x.agent_vessel
  BY DEF WellFormed, SetPeerInfoAgentVessel, PeerManagers
<1> HIDE DEF y
<1>3. ProviderMapsAgree(y)
  BY <1>2 DEF WellFormed, ProviderMapsAgree
<1>4. VesselRecordsFiled(y)
  BY <1>2 DEF WellFormed, VesselRecordsFiled
<1> QED BY <1>1, <1>3, <1>4 DEF WellFormed, y

\* insert_kfrag_provider with track_reverie_fragment
LEMMA InsertKfragProviderWellFormed ==
    ASSUME NEW x, WellFormed(x), NEW p \in Node, NEW id \in ReverieId,
           NEW frag \in 1..TotalFrags
    PROVE  WellFormed(InsertKfragProvider(x, p, id, frag))
<1> DEFINE y == InsertKfragProvider(x, p, id, frag)
<1>1. y \in PeerManagers
  <2> DEFINE kp == <<id, p>>
             f == <<p, id, frag>>
  <2>1. kp \in ReverieId \X Node /\ f \in Node \X ReverieId \X (1..TotalFrags)
    OBVIOUS
  <2>2. y = [x EXCEPT !.kfrag_providers = @ \cup {kp},
                      !.peers_to_reverie_frags = @ \cup {f}]
    BY DEF InsertKfragProvider
  <2> HIDE DEF kp, f, y
  <2> QED BY <2>1, <2>2 DEF WellFormed, PeerManagers
<1>2. /\ y.peer_info = x.peer_info
      /\ y.agent_vessel = x.agent_vessel
      /\ y.kfrag_providers = x.kfrag_providers \cup {<<id, p>>}
      /\ y.peers_to_reverie_frags = x.peers_to_reverie_frags \cup {<<p, id, frag>>}
  BY DEF WellFormed, InsertKfragProvider, PeerManagers
<1> HIDE DEF y
<1>3. ProviderMapsAgree(y)
  <2>1. x.kfrag_providers = {<<f[2], f[1]>> : f \in x.peers_to_reverie_frags}
    BY DEF WellFormed, ProviderMapsAgree
  <2>2. \A kp : kp \in y.kfrag_providers <=>
                  \E f \in y.peers_to_reverie_frags : kp = <<f[2], f[1]>>
    <3> DEFINE g == <<p, id, frag>>
    <3>1. g[1] = p /\ g[2] = id
      OBVIOUS
    <3>2. /\ y.kfrag_providers = x.kfrag_providers \cup {<<id, p>>}
          /\ y.peers_to_reverie_frags = x.peers_to_reverie_frags \cup {g}
      BY <1>2
    <3> HIDE DEF g
    <3> QED BY <2>1, <3>1, <3>2
  <2> QED BY <2>2 DEF ProviderMapsAgree
<1>4. VesselRecordsFiled(y)
  BY <1>2 DEF WellFormed, VesselRecordsFiled
<1> QED BY <1>1, <1>3, <1>4 DEF WellFormed, y

\* remove_kfrag_provider
LEMMA RemoveKfragProviderWellFormed ==
    ASSUME NEW x, WellFormed(x), NEW p \in Node
    PROVE  WellFormed(RemoveKfragProvider(x, p))
<1> DEFINE y == RemoveKfragProvider(x, p)
<1>1. y \in PeerManagers
  BY DEF WellFormed, RemoveKfragProvider, PeerManagers
<1>2. /\ y.peer_info = x.peer_info
      /\ y.agent_vessel = x.agent_vessel
      /\ y.kfrag_providers =
            {kp \in x.kfrag_providers :
               ~ \E f \in x.peers_to_reverie_frags : f[1] = p /\ kp = <<f[2], p>>}
      /\ y.peers_to_reverie_frags = {f \in x.peers_to_reverie_frags : f[1] # p}
  BY DEF WellFormed, RemoveKfragProvider, PeerManagers
<1> HIDE DEF y
<1>3. ProviderMapsAgree(y)
  <2>1. x.kfrag_providers = {<<f[2], f[1]>> : f \in x.peers_to_reverie_frags}
    BY DEF WellFormed, ProviderMapsAgree
  <2>2. x.peers_to_reverie_frags \subseteq Node \X ReverieId \X (1..TotalFrags)
    BY DEF WellFormed, PeerManagers
  <2>3. \A kp : kp \in y.kfrag_providers <=>
                  \E f \in y.peers_to_reverie_frags : kp = <<f[2], f[1]>>
    BY <1>2, <2>1, <2>2
  <2> QED BY <2>3 DEF ProviderMapsAgree
<1>4. VesselRecordsFiled(y)
  BY <1>2 DEF WellFormed, VesselRecordsFiled
<1> QED BY <1>1, <1>3, <1>4 DEF WellFormed, y

\* remove_peer
LEMMA RemovePeerWellFormed ==
    ASSUME NEW x, WellFormed(x), NEW p \in Node
    PROVE  WellFormed(RemovePeer(x, p))
BY RemoveKfragProviderWellFormed, RemovePeerInfoWellFormed DEF RemovePeer

\* insert_cfrags, insert_reverie_metadata and insert_reverie touch neither the
\* provider maps nor the vessel records.
LEMMA InsertCfragWellFormed ==
    ASSUME NEW x, WellFormed(x), NEW r \in Reverie
    PROVE  WellFormed(InsertCfrag(x, r))
<1> DEFINE y == InsertCfrag(x, r)
<1>1. y \in PeerManagers
  BY DEF WellFormed, InsertCfrag, PeerManagers
<1>2. /\ y.peer_info = x.peer_info
      /\ y.agent_vessel = x.agent_vessel
      /\ y.kfrag_providers = x.kfrag_providers
      /\ y.peers_to_reverie_frags = x.peers_to_reverie_frags
  BY DEF WellFormed, InsertCfrag, PeerManagers
<1> HIDE DEF y
<1> QED BY <1>1, <1>2 DEF WellFormed, ProviderMapsAgree, VesselRecordsFiled, y

LEMMA InsertReverieMetadataWellFormed ==
    ASSUME NEW x, WellFormed(x), NEW info \in AgentVesselInfo
    PROVE  WellFormed(InsertReverieMetadata(x, info))
<1> DEFINE y == InsertReverieMetadata(x, info)
<1>1. y \in PeerManagers
  BY DEF WellFormed, InsertReverieMetadata, PeerManagers
<1>2. /\ y.peer_info = x.peer_info
      /\ y.agent_vessel = x.agent_vessel
      /\ y.kfrag_providers = x.kfrag_providers
      /\ y.peers_to_reverie_frags = x.peers_to_reverie_frags
  BY DEF WellFormed, InsertReverieMetadata, PeerManagers
<1> HIDE DEF y
<1> QED BY <1>1, <1>2 DEF WellFormed, ProviderMapsAgree, VesselRecordsFiled, y

LEMMA InsertReverieWellFormed ==
    ASSUME NEW x, WellFormed(x), NEW r \in Reverie
    PROVE  WellFormed(InsertReverie(x, r))
<1> DEFINE y == InsertReverie(x, r)
<1>1. y \in PeerManagers
  BY DEF WellFormed, InsertReverie, PeerManagers
<1>2. /\ y.peer_info = x.peer_info
      /\ y.agent_vessel = x.agent_vessel
      /\ y.kfrag_providers = x.kfrag_providers
      /\ y.peers_to_reverie_frags = x.peers_to_reverie_frags
  BY DEF WellFormed, InsertReverie, PeerManagers
<1> HIDE DEF y
<1> QED BY <1>1, <1>2 DEF WellFormed, ProviderMapsAgree, VesselRecordsFiled, y
=============================================================================
