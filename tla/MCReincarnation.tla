-------------------------- MODULE MCReincarnation --------------------------
(* Instances of Reincarnation for TLC. *)
EXTENDS Reincarnation, TLC

Symmetry == Permutations(Node)

\* An orderly failure: a node fails when every hand-over is finished, and is
\* back only after the next vessels of the agents it hosted have noticed.
OrderlyFailures ==
    /\ failures' # failures =>
          msgs = {} /\ \A n \in Node : inbox[n] = <<>>
    /\ \A n \in Node : boot'[n] # boot[n] =>
          \A q \in Node : \A av \in pm[q].agent_vessel :
              ~(av.current_vessel = n /\ av.next_vessel = q)

\* Names are interchangeable: the first placement is this one.
Vessel1 == CHOOSE n \in Node : TRUE
Target1 == CHOOSE n \in Node \ {Vessel1} : TRUE
FirstPlacement ==
    \A a \in Agent : created[a] = <<>> /\ created'[a] # <<>> =>
        created'[a][1].source = Vessel1 /\ created'[a][1].target = Target1

OrderlySpec ==
    Init /\ [][Next /\ OrderlyFailures /\ FirstPlacement]_vars /\ Fairness
=============================================================================
