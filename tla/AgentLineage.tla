---------------------------- MODULE AgentLineage ----------------------------
(***************************************************************************)
(* What the network promises about an agent, without nodes, messages or    *)
(* failures: it has a single line of incarnations.  Each one lives in a    *)
(* vessel and names the vessel that may bring the agent back; only that    *)
(* vessel does, at most once, and it counts the nonce up by one.           *)
(***************************************************************************)
EXTENDS Naturals, Sequences

CONSTANTS Node, Agent

VARIABLE line   \* [Agent -> Seq(Incarnation)]

Incarnation == [nonce : Nat, vessel : Node, next : Node]

Last(s) == s[Len(s)]

\* The agent starts in a vessel chosen by its owner.
Spawn(a, v, t) ==
    /\ line[a] = <<>>
    /\ line' = [line EXCEPT ![a] = <<[nonce |-> 0, vessel |-> v, next |-> t]>>]

\* The next vessel of the latest incarnation becomes the agent's vessel.
Reincarnate(a, t) ==
    /\ line[a] # <<>>
    /\ line' = [line EXCEPT ![a] =
          Append(@, [nonce |-> Last(@).nonce + 1, vessel |-> Last(@).next,
                     next |-> t])]

Init == line = [a \in Agent |-> <<>>]

Next == \E a \in Agent, v, t \in Node : Spawn(a, v, t) \/ Reincarnate(a, t)

Spec == Init /\ [][Next]_line
=============================================================================
