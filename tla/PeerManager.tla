---------------------------- MODULE PeerManager ----------------------------
(***************************************************************************)
(* The PeerManager a node keeps in its network event loop                  *)
(* (node/p2p-network/src/network_events/peer_manager): which peers it      *)
(* knows, which of them is an agent's vessel, who holds which key          *)
(* fragment, and the capsule fragments and ciphertexts it stores itself.   *)
(*                                                                         *)
(* Each method of the Rust struct is an operator from a PeerManager value  *)
(* to the next one.  Every HashMap is a set:                               *)
(*   - peer_info is the set of its keys; the agent_vessel field of the     *)
(*     entry for peer p is the element of pm.agent_vessel whose            *)
(*     current_vessel is p (the code always files it under that key);      *)
(*   - kfrag_providers and peers_to_reverie_frags are relations;           *)
(*   - cfrags, reverie and reverie_metadata are the sets of their values,  *)
(*     each value carrying the id it is filed under.                       *)
(***************************************************************************)
EXTENDS Naturals, Sequences

CONSTANTS Node,        \* peer ids
          Agent,       \* agent names
          TotalFrags   \* kfrags made for every reverie (total_frags)

ASSUME TotalFragsAssumption == TotalFrags \in Nat \ {0}

-----------------------------------------------------------------------------
(* Data.  A verifying key is the pair of its owner and the boot it was     *)
(* drawn in: UmbralKey::new makes a random signer at every start.          *)

Key == Node \X Nat

\* reverie_id() is a fresh random string: here the agent and how many
\* reveries had been made for it.
ReverieId == Agent \X Nat

\* A Reverie together with the ReverieMessage fields that travel with it.
Reverie == [id : ReverieId, agent : Agent, nonce : Nat,
            source : Node, target : Node,
            providers : [1..TotalFrags -> Node], verifying_key : Key]

AgentVesselInfo == [reverie_id : ReverieId, agent : Agent, nonce : Nat,
                    current_vessel : Node, next_vessel : Node]

\* The AgentVesselInfo every handler builds from a reverie (threshold and
\* total_frags are constants of the model).
VesselInfo(r) ==
    [reverie_id |-> r.id, agent |-> r.agent, nonce |-> r.nonce,
     current_vessel |-> r.source, next_vessel |-> r.target]

PeerManagers ==
    [peer_info : SUBSET Node,
     agent_vessel : SUBSET AgentVesselInfo,
     vessel_agent : SUBSET AgentVesselInfo,
     kfrag_providers : SUBSET (ReverieId \X Node),
     peers_to_reverie_frags : SUBSET (Node \X ReverieId \X (1..TotalFrags)),
     cfrags : SUBSET Reverie,
     reverie_metadata : SUBSET AgentVesselInfo,
     reverie : SUBSET Reverie]

NewPeerManager ==
    [peer_info |-> {}, agent_vessel |-> {}, vessel_agent |-> {},
     kfrag_providers |-> {}, peers_to_reverie_frags |-> {},
     cfrags |-> {}, reverie_metadata |-> {}, reverie |-> {}]

-----------------------------------------------------------------------------
(* peer_info *)

\* PeerInfo::new has no agent_vessel, so an existing one is overwritten.
InsertPeerInfo(pm, p) ==
    [pm EXCEPT !.peer_info = @ \cup {p},
               !.agent_vessel = {av \in @ : av.current_vessel # p}]

RemovePeerInfo(pm, p) ==
    [pm EXCEPT !.peer_info = @ \ {p},
               !.agent_vessel = {av \in @ : av.current_vessel # p}]

\* Only a heartbeat of an unknown peer changes what the model keeps.
UpdatePeerHeartbeat(pm, p) ==
    IF p \in pm.peer_info THEN pm ELSE InsertPeerInfo(pm, p)

\* Mutant: the record is kept whether or not the vessel is a known peer.
SetAgentVesselUnchecked(pm, self, info) ==
    [pm EXCEPT
        !.agent_vessel =
            {av \in @ : av.current_vessel # info.current_vessel} \cup {info},
        !.vessel_agent = IF info.current_vessel = self THEN {info} ELSE @]

SetPeerInfoAgentVessel(pm, self, info) ==
    [pm EXCEPT
        !.agent_vessel =
            IF info.current_vessel \in pm.peer_info
            THEN {av \in @ : av.current_vessel # info.current_vessel} \cup {info}
            ELSE @,
        !.vessel_agent = IF info.current_vessel = self THEN {info} ELSE @]

-----------------------------------------------------------------------------
(* kfrag_providers and peers_to_reverie_frags *)

InsertKfragProvider(pm, p, id, frag) ==
    [pm EXCEPT !.kfrag_providers = @ \cup {<<id, p>>},
               !.peers_to_reverie_frags = @ \cup {<<p, id, frag>>}]

\* Mutant: only the fragments tracked for the peer are forgotten.
ForgetFragsOnly(pm, p) ==
    [pm EXCEPT !.peers_to_reverie_frags = {f \in @ : f[1] # p}]

\* The peer leaves the providers of every reverie it is tracked for.
RemoveKfragProvider(pm, p) ==
    [pm EXCEPT
        !.kfrag_providers =
            {kp \in @ : ~ \E f \in pm.peers_to_reverie_frags :
                            f[1] = p /\ kp = <<f[2], p>>},
        !.peers_to_reverie_frags = {f \in @ : f[1] # p}]

KfragProviders(pm, id) == {p \in Node : <<id, p>> \in pm.kfrag_providers}

\* Mutant: the peer's info, and the vessel record in it, stays.
KeepPeerInfo(pm, p) == RemoveKfragProvider(pm, p)

\* NetworkEvents::remove_peer; the removal of the peer's status record is
\* from the local copy of the DHT only.
RemovePeer(pm, p) == RemovePeerInfo(RemoveKfragProvider(pm, p), p)

-----------------------------------------------------------------------------
(* cfrags, reverie_metadata and reverie: insert_entry replaces a value     *)
(* filed under the same id.                                                *)

InsertCfrag(pm, r) ==
    [pm EXCEPT !.cfrags = {c \in @ : c.id # r.id} \cup {r}]

InsertReverieMetadata(pm, info) ==
    [pm EXCEPT !.reverie_metadata =
        {i \in @ : i.reverie_id # info.reverie_id} \cup {info}]

InsertReverie(pm, r) ==
    [pm EXCEPT !.reverie = {c \in @ : c.id # r.id} \cup {r}]

-----------------------------------------------------------------------------
(* What a PeerManager must never lose track of.                            *)

\* The two provider maps agree: a peer is a provider of a reverie exactly
\* when some fragment of that reverie is tracked for it.  remove_kfrag_provider
\* finds what to delete through the second map, so a provider missing there
\* could never be removed.
ProviderMapsAgree(pm) ==
    pm.kfrag_providers = {<<f[2], f[1]>> : f \in pm.peers_to_reverie_frags}

\* A vessel record lives in the peer_info entry of its vessel, one per entry.
VesselRecordsFiled(pm) ==
    /\ \A av \in pm.agent_vessel : av.current_vessel \in pm.peer_info
    /\ \A a, b \in pm.agent_vessel :
          a.current_vessel = b.current_vessel => a = b
=============================================================================
