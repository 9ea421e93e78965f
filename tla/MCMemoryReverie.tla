--------------------------- MODULE MCMemoryReverie ---------------------------
(* Small instances of MemoryReverie.                                       *)
EXTENDS MemoryReverie

CONSTANTS a, b, c, d, e, s1, s2, s3, s4, s5, d1, e1, e2, e3, e4, n1, g1, agent,
          alice, bob, reveries, elsewhere

SpawnAt(n, k, total, condition) ==
    [op |-> "spawn", at |-> n, threshold |-> k, total |-> total, condition |-> condition]
AccessAt(n, op, r, key) == [op |-> op, at |-> n, reverie |-> r, key |-> key]
NearKey(contract, spender, amount) ==
    [kind |-> "near", contract |-> contract, spender |-> spender, amount |-> amount]
Signature(kind, valid) == [kind |-> kind, valid |-> valid]
NameAt(n, nm) == [op |-> "name", at |-> n, name |-> nm]

\* s1 finds three vessels and needs them all; s2 finds too few, after it has
\* paid for its registration; s3 and s4 share node e.  s1 is used at b, with
\* the payments of two accounts and with a key for another contract; the key of
\* e3 is of another kind than its reverie asks for.
MCCall ==
    [t \in Task |->
        CASE t = s1 -> SpawnAt(a, 2, 2, "near")
          [] t = s2 -> SpawnAt(b, 1, 2, "near")
          [] t = s3 -> SpawnAt(e, 1, 1, "ecdsa")
          [] t = s4 -> SpawnAt(e, 1, 1, "near")
          [] t = s5 -> SpawnAt(e, 2, 1, "near")
          [] t = d1 -> AccessAt(b, "delegate", s1, NearKey(reveries, alice, 1))
          [] t = e1 -> AccessAt(b, "execute", s1, NearKey(reveries, bob, 1))
          [] t = e2 -> AccessAt(c, "execute", s3, Signature("ecdsa", TRUE))
          [] t = e3 -> AccessAt(c, "execute", s4, Signature("umbral", TRUE))
          [] t = e4 -> AccessAt(b, "execute", s1, NearKey(elsewhere, bob, 1))
          [] t = n1 -> NameAt(c, agent)
          [] t = g1 -> [op |-> "agent", at |-> b, name |-> agent]]

MCConnected ==
    [n \in Node |-> CASE n = a -> {b, c, d} [] n = b -> {a, c, e} [] n = c -> {a, b, e}
                      [] n = d -> {a} [] n = e -> {b, c}]

\* a and e only ask; they never host.
MCStatus == [n \in Node |-> IF n \in {a, e} THEN "NeverVessel" ELSE "EmptyVessel"]
=============================================================================
