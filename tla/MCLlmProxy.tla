----------------------------- MODULE MCLlmProxy -----------------------------
(* Small instances of LlmProxy.                                            *)
EXTENDS LlmProxy

CONSTANTS r1, r2, s1, s2, t1, t2

Payload(r, s, anthropic, sendable) ==
    [reverie |-> r, spender |-> s, anthropic |-> anthropic, sendable |-> sendable]

\* The key of r1 may be given to another spender; r2 has a key with a line
\* break in it, and one for another provider.
MCPayloads == {Payload(r1, s1, TRUE, TRUE), Payload(r1, s2, TRUE, TRUE),
               Payload(r2, s1, TRUE, FALSE), Payload(r2, s1, FALSE, TRUE)}

Kind(host, flag, collected, results) ==
    [host |-> host, flag |-> flag, collected |-> collected, results |-> results]

MCKinds == {Kind("anthropic", TRUE, TRUE, <<t1, t2>>),
            Kind("anthropic", TRUE, FALSE, <<>>),
            Kind("deepseek", FALSE, TRUE, <<>>)}

Event(type, in, out, tool) == [type |-> type, in |-> in, out |-> out, tool |-> tool]

Stream(encoding, names, events, in, out) ==
    [sse |-> TRUE, encoding |-> encoding, names |-> names, in |-> in,
     out |-> out, tool |-> None, pieces |-> events]

Body(encoding, names, in, out, chunks) ==
    [sse |-> FALSE, encoding |-> encoding, names |-> names, in |-> in, out |-> out,
     tool |-> t2, pieces |-> [i \in 1..chunks |-> "chunk"]]

Delta(n) == Event("message_delta", None, n, None)
Stop == Event("message_stop", None, None, None)

MCReplies ==
    { Stream("identity", "input_tokens", <<Event("message_start", 2, None, None),
                           Delta(1), Delta(3), Stop>>, 2, 3),
      \* two messages in one stream
      Stream("identity", "input_tokens", <<Delta(1), Stop, Delta(2), Stop>>, 0, 3),
      \* another provider's events
      Stream("identity", "prompt_tokens", <<Event("usage", 1, 2, None), Event("untyped", None, None, None), Stop>>, 1, 2),
      Stream("gzip", "input_tokens", <<Delta(1), Stop>>, 0, 1),
      Body("identity", "input_tokens", 1, 2, 4),
      Body("gzip", "prompt_tokens", 0, 2, 3),
      Body("br", "input_tokens", 1, 1, 1) }

MCRefusal == Body("identity", "none", 0, 0, 1)

\* A body with a gap is read with a lower or a higher count.
MCMisreadings == {[in |-> 0, out |-> 1, tool |-> None], [in |-> 1, out |-> 9, tool |-> None]}
=============================================================================
