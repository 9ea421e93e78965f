------------------------------ MODULE LlmProxy ------------------------------
(***************************************************************************)
(* The LLM proxy of a vessel and the part of the node it talks to.         *)
(*                                                                         *)
(* The proxy stands between the agent's LLM client and the providers.  A   *)
(* request that carries the delegation flag as its API key gets the key of *)
(* a reverie that the node has delegated.  The response is passed on and   *)
(* copied frame by frame into a bounded channel; a task per response reads *)
(* the copy, extracts the token usage, signs it and posts it to the node,  *)
(* which verifies the report and stores a row per request.                 *)
(*                                                                         *)
(* Every start of the proxy makes a new signing key and a new CA, named    *)
(* here by the number of the start (the boot), and registers both with     *)
(* the node.  The node delegates keys over TLS with a client that is built *)
(* once, from the first CA it needs.                                       *)
(***************************************************************************)
EXTENDS Integers, Sequences, FiniteSets

CONSTANTS Reverie,       \* reveries whose keys may be delegated
          KeyPayloads,   \* the ApiKeyPayloads the node delegates
          Req,           \* requests of the LLM client
          RequestKinds,  \* what a request may look like
          Replies,       \* what a provider may answer to an accepted request
          Refusal,       \* what it answers to any other: no usage in it
          Misreadings,   \* what a body with a gap may be read as
          ChannelCap,    \* capacity of the copy's channel (100)
          MaxRestarts,   \* bound: restarts of the proxy and of the node
          MaxCalls,      \* bound: delegations and removals by the node
          None           \* Option::None

ASSUME CapAssumption == ChannelCap \in Nat \ {0}
ASSUME BoundsAssumption == MaxRestarts \in Nat /\ MaxCalls \in Nat
ASSUME RefusalAssumption ==
    Refusal.in = 0 /\ Refusal.out = 0 /\ ~Refusal.sse /\ Refusal.names = "none"
ASSUME OptionAssumption == None \notin Reverie \cup Replies \cup {Refusal}
ASSUME FiniteAssumption == IsFiniteSet(Req)

\* A provider bills counts of tokens, and no less than its stream tells.
ASSUME BillsAssumption ==
    \A rep \in Replies :
        /\ rep.in \in Nat /\ rep.out \in Nat
        /\ rep.pieces \in Seq({rep.pieces[i] : i \in DOMAIN rep.pieces})
        /\ rep.sse => \A i \in DOMAIN rep.pieces :
                         /\ rep.pieces[i].in \in (0..rep.in) \cup {None}
                         /\ rep.pieces[i].out \in (0..rep.out) \cup {None}

VARIABLES
    \* the proxy process
    boot,        \* Nat, from 1: its start, which names its signing key and CA
    serverCert,  \* 1..boot: the boot whose CA signed internal_api.crt
    keyStore,    \* [Reverie -> KeyPayloads \cup {None}]: api_key_store
    \* the node
    nodeBoot,    \* Nat, from 1: the node's start
    proxyKey,    \* 0..boot: llm_proxy_public_key, 0 for None
    proxyCa,     \* 0..boot: llm_proxy_ca_cert
    httpClient,  \* 0..boot: the CA PROXY_HTTP_CLIENT trusts
    db,          \* SUBSET Row: usage_reports
    \* between them
    registers,   \* register_llm_proxy_key calls on their way, by boot
    caToStore,   \* registrations that have stored the key and not yet the CA
    calls,       \* add_api_key and remove_api_key calls on their way
    callCount,   \* 0..MaxCalls
    reports,     \* signed usage reports on their way
    \* one request and its response
    kind,        \* [Req -> RequestKinds]
    stage,       \* [Req -> Stage]
    context,     \* [Req -> Context \cup {None}]: HttpContext.request_context
    injected,    \* [Req -> KeyPayloads \cup {None}]: the key sent upstream
    reply,       \* [Req -> Replies \cup {Refusal, None}]
    pos,         \* [Req -> Nat]: pieces of the reply that have been polled
    unsent,      \* [Req -> Seq]: parsed in this poll, not yet offered
    channel,     \* [Req -> Seq]: the copy's channel
    logger,      \* [Req -> {"none", "running", "done"}]: the response's task
    current,     \* [Req -> Usage]: current_usage of the SSE task
    logBuffer,   \* [Req -> SUBSET Nat]: the pieces in log_buffer
    lost         \* [Req -> Loss \cup {None}], history: what first cost q a report

proxyVars == <<boot, serverCert, keyStore>>
nodeVars  == <<nodeBoot, proxyKey, proxyCa, httpClient, db>>
linkVars  == <<registers, caToStore, calls, callCount>>
reqVars   == <<kind, stage, context, injected, reply>>
copyVars  == <<pos, unsent, channel>>
taskVars  == <<logger, current, logBuffer>>
vars == <<proxyVars, nodeVars, linkVars, reports, reqVars, copyVars, taskVars, lost>>

Stage == {"new", "sent", "streaming", "ended", "aborted"}
Loss  == {"dropped", "cut", "restart", "quote", "post", "unverified", "dcap", "store"}

ASSUME LossAssumption == None \notin Loss

Loses(q, cause) == IF lost[q] = None THEN cause ELSE lost[q]

NoUsage == [in |-> 0, out |-> 0, tool |-> None]

-----------------------------------------------------------------------------
(* Reading a response (parser/).  A reply is                               *)
(*   [sse, encoding, names, in, out, tool, pieces]                         *)
(* where `names` tells which field names its usage block uses ("none" if   *)
(* it has none), and `in` and `out` what the provider bills.  The pieces   *)
(* of a streamed reply are SSE events, those of another one chunks of the  *)
(* bytes of a JSON text, cut anywhere.                                     *)

\* get_parser_for_url; the host of a response without a context is None.
ParserFor(host) ==
    CASE host \in {"anthropic", "openai"} -> "Anthropic"
      [] host = "deepseek" -> "Deepseek"
      [] OTHER -> "generic"

Update(k, n) == [kind |-> k, n |-> n]
TokenUpdate(k, n) == IF n = None THEN <<>> ELSE <<Update(k, n)>>

\* parse_sse_data_line: the updates of one event.
ParseSseDataLine(e) ==
    CASE e.type = "message_start" /\ e.in # None -> TokenUpdate("InputTokens", e.in)
      [] e.type = "message_delta" /\ e.out # None -> TokenUpdate("OutputTokens", e.out)
      [] e.type = "content_block_start" -> TokenUpdate("ToolUse", e.tool)
      [] e.type = "content_block_delta" -> <<Update("Text", None)>>
      [] e.type = "message_stop" -> <<Update("Stop", None)>>
      [] OTHER -> <<Update("Other", None)>>

\* DeepseekParser::parse_sse_data: an event with a type is Other whatever its
\* type, and only the top-level usage is read.
ParseDeepseekData(e) ==
    IF e.type = "untyped" THEN ParseSseDataLine(e)
    ELSE <<Update("Other", None)>>
         \o (IF e.type = "usage" THEN TokenUpdate("InputTokens", e.in)
                                      \o TokenUpdate("OutputTokens", e.out)
             ELSE IF e.type = "content" THEN <<Update("Text", None)>> ELSE <<>>)

\* SSEParser::process_chunk with the separator of event e.  A compressed
\* stream is not decompressed, and no line of it starts with "data:".
ProcessChunk(host, rep, e) ==
    IF rep.encoding # "identity" THEN <<>>
    ELSE IF ParserFor(host) = "Deepseek" THEN ParseDeepseekData(e)
    ELSE ParseSseDataLine(e)

\* The field names a parser looks for (extract_usage, extract_generic_usage).
ReadsNames(parser, names) ==
    CASE parser = "Anthropic" -> names = "input_tokens"
      [] parser = "Deepseek" -> names = "prompt_tokens"
      [] OTHER -> names # "none"

\* Mutant: a count of zero of either kind drops the usage.
ExtractBoth(host, rep) ==
    IF ~ReadsNames(ParserFor(host), rep.names) \/ rep.in = 0 \/ rep.out = 0
    THEN None
    ELSE [in |-> rep.in, out |-> rep.out, tool |-> None]

\* parse_json_and_extract_usage on the whole text: the usage in it, or None.
ExtractUsage(host, rep) ==
    IF ~ReadsNames(ParserFor(host), rep.names) \/ (rep.in = 0 /\ rep.out = 0)
    THEN None
    ELSE [in |-> rep.in, out |-> rep.out,
          tool |-> IF ParserFor(host) = "Anthropic" THEN rep.tool ELSE None]

\* The chunks in got are the first ones.
Prefix(got) == got = 1..Cardinality(got)

\* decompress_body and parse_json_and_extract_usage on the chunks in got, put
\* end to end: what they may find.  Brotli is not decoded, and gzip checks what
\* it decodes.  A prefix of the text ends inside its object, unless only blanks
\* are missing.  With a gap the text may not parse, or parse with numbers that
\* were joined from digits of several.
Readings(host, rep, got) ==
    IF got = DOMAIN rep.pieces
    THEN {IF rep.encoding = "br" THEN None ELSE ExtractUsage(host, rep)}
    ELSE {None} \cup {u \in {ExtractUsage(host, rep)} \cup Misreadings :
                         /\ rep.encoding = "identity"
                         /\ IF Prefix(got) THEN u = ExtractUsage(host, rep)
                            ELSE ReadsNames(ParserFor(host), rep.names)}

-----------------------------------------------------------------------------
(* The proxy starts (main) and registers with the node.                    *)

\* write_api_server_pem_files keeps the files it finds.
ServerCertAfter(kept) == IF kept THEN serverCert ELSE boot + 1

RestartsLeft == boot + nodeBoot < MaxRestarts + 2

\* The process dies and starts again, in the same container (its files are
\* kept) or in a new one.  Responses being copied, their tasks and the keys go.
RestartProxy(kept) ==
    /\ RestartsLeft
    /\ boot' = boot + 1
    /\ serverCert' = ServerCertAfter(kept)
    /\ keyStore' = [r \in Reverie |-> None]
    /\ registers' = registers \cup {boot + 1}
    /\ LET dies == {q \in Req : \/ stage[q] \in {"sent", "streaming"}
                                \/ stage[q] = "ended" /\ logger[q] = "running"}
       IN /\ stage' = [q \in Req |-> IF q \in dies THEN "aborted" ELSE stage[q]]
          /\ lost' = [q \in Req |-> IF q \in dies THEN Loses(q, "restart") ELSE lost[q]]
          /\ logger' = [q \in Req |-> IF q \in dies THEN "done" ELSE logger[q]]
          /\ unsent' = [q \in Req |-> IF q \in dies THEN <<>> ELSE unsent[q]]
          /\ channel' = [q \in Req |-> IF q \in dies THEN <<>> ELSE channel[q]]
    /\ UNCHANGED <<nodeVars, caToStore, calls, callCount, reports, kind, context,
                   injected, reply, pos, current, logBuffer>>

\* Mutant: the CA is stored first.
StoreCaThenKey(step, b) ==
    IF step = 1 THEN proxyCa' = b /\ UNCHANGED proxyKey
    ELSE proxyKey' = b /\ UNCHANGED proxyCa

\* register_llm_proxy_pubkey stores under two locks, one after the other.
StoreKeyThenCa(step, b) ==
    IF step = 1 THEN proxyKey' = b /\ UNCHANGED proxyCa
    ELSE proxyCa' = b /\ UNCHANGED proxyKey

\* The self-signed registration of boot b arrives.
RegisterLlmProxyPubkey(b) ==
    /\ b \in registers
    /\ registers' = registers \ {b}
    /\ StoreKeyThenCa(1, b)
    /\ caToStore' = caToStore \cup {b}
    /\ UNCHANGED <<proxyVars, nodeBoot, httpClient, db, calls, callCount, reports,
                   reqVars, copyVars, taskVars, lost>>

\* The same handler, after the await on the second lock.
StoreCaCert(b) ==
    /\ b \in caToStore
    /\ caToStore' = caToStore \ {b}
    /\ StoreKeyThenCa(2, b)
    /\ UNCHANGED <<proxyVars, nodeBoot, httpClient, db, registers, calls, callCount,
                   reports, reqVars, copyVars, taskVars, lost>>

\* The post fails; it is not repeated.
RegistrationLost(b) ==
    /\ b \in registers
    /\ registers' = registers \ {b}
    /\ UNCHANGED <<proxyVars, nodeVars, caToStore, calls, callCount, reports,
                   reqVars, copyVars, taskVars, lost>>

\* The node's process is replaced; its database is a file.
RestartNode ==
    /\ RestartsLeft
    /\ nodeBoot' = nodeBoot + 1
    /\ proxyKey' = 0 /\ proxyCa' = 0 /\ httpClient' = 0
    /\ caToStore' = {}
    /\ UNCHANGED <<proxyVars, db, registers, calls, callCount, reports, reqVars,
                   copyVars, taskVars, lost>>

-----------------------------------------------------------------------------
(* The node delegates and removes API keys (llm_proxy_client.rs) over the  *)
(* proxy's internal API (api_key_delegation_server).                       *)

\* get_proxy_http_client: a OnceCell.
ClientAfter == IF httpClient = 0 THEN proxyCa ELSE httpClient

Call(c) ==
    /\ proxyCa # 0 /\ callCount < MaxCalls
    /\ callCount' = callCount + 1
    /\ httpClient' = ClientAfter
    /\ calls' = calls \cup {c}
    /\ UNCHANGED <<proxyVars, nodeBoot, proxyKey, proxyCa, db, registers, caToStore,
                   reports, reqVars, copyVars, taskVars, lost>>

AddProxyApiKey(p) == Call([op |-> "add", payload |-> p, trusts |-> ClientAfter])

RemoveProxyApiKey(r) == Call([op |-> "remove", reverie |-> r, trusts |-> ClientAfter])

\* add_api_key and remove_api_key, behind verify_node_request.
StoreAfter(c) ==
    IF c.op = "add" THEN [keyStore EXCEPT ![c.payload.reverie] = c.payload]
    ELSE [keyStore EXCEPT ![c.reverie] = None]

\* The call is served if the client trusts the server's certificate.
ServeCall(c) ==
    /\ c \in calls
    /\ calls' = calls \ {c}
    /\ keyStore' = IF c.trusts = serverCert THEN StoreAfter(c) ELSE keyStore
    /\ UNCHANGED <<boot, serverCert, nodeVars, registers, caToStore, callCount,
                   reports, reqVars, copyVars, taskVars, lost>>

\* The call times out, or comes after its 60 second window.
CallLost(c) ==
    /\ c \in calls
    /\ calls' = calls \ {c}
    /\ UNCHANGED <<proxyVars, nodeVars, registers, caToStore, callCount, reports,
                   reqVars, copyVars, taskVars, lost>>

-----------------------------------------------------------------------------
(* A request (LogHandler::handle_request) and its response.                *)

\* find_tool_use_id_in_request_body: the first tool result of the messages.
FindToolUseId(results) == IF results = <<>> THEN None ELSE Head(results)

\* is_anthropic_delegation_request, for the hosts that are looked at.
WantsDelegation(k) == k.host = "anthropic" /\ k.flag

\* The keys one of which is chosen at random, whatever its reverie.
AnthropicKeys ==
    {keyStore[r] : r \in {x \in Reverie : keyStore[x] # None /\ keyStore[x].anthropic}}

\* What goes into the request context with the payload p that was chosen.
ContextWith(k, p) ==
    [host |-> k.host, linked |-> FindToolUseId(k.results),
     reverie |-> IF p = None THEN None ELSE p.reverie,
     spender |-> IF p = None THEN None ELSE p.spender]

\* Some(context) is not None.
ASSUME ContextAssumption ==
    \A k \in RequestKinds, p \in KeyPayloads \cup {None} : ContextWith(k, p) # None

\* handle_request.  A body that cannot be collected is forwarded empty, before
\* any context is set; a key that is no header value leaves the flag in place.
HandleRequest(q) ==
    /\ stage[q] = "new"
    /\ stage' = [stage EXCEPT ![q] = "sent"]
    /\ \/ /\ ~kind[q].collected
          /\ UNCHANGED <<context, injected>>
       \/ /\ kind[q].collected
          /\ WantsDelegation(kind[q]) => AnthropicKeys = {}
          /\ context' = [context EXCEPT ![q] = ContextWith(kind[q], None)]
          /\ UNCHANGED injected
       \/ /\ kind[q].collected /\ WantsDelegation(kind[q])
          /\ \E p \in AnthropicKeys :
                /\ context' = [context EXCEPT ![q] = ContextWith(kind[q], p)]
                /\ injected' = [injected EXCEPT ![q] = IF p.sendable THEN p ELSE None]
    /\ UNCHANGED <<proxyVars, nodeVars, linkVars, reports, kind, reply, copyVars,
                   taskVars, lost>>

\* The provider accepts the client's own key or a delegated one.
Accepted(q) == kind[q].collected /\ (kind[q].flag => injected[q] # None)

\* handle_response: the body is teed and the response's task spawned.
HandleResponse(q) ==
    /\ stage[q] = "sent"
    /\ stage' = [stage EXCEPT ![q] = "streaming"]
    /\ \E rep \in IF Accepted(q) THEN Replies ELSE {Refusal} :
          reply' = [reply EXCEPT ![q] = rep]
    /\ logger' = [logger EXCEPT ![q] = "running"]
    /\ UNCHANGED <<proxyVars, nodeVars, linkVars, reports, kind, context, injected,
                   copyVars, current, logBuffer, lost>>

Host(q) == IF context[q] = None THEN None ELSE context[q].host

\* poll_frame of TeeBody and of TeeBodySSE: the next piece is passed on, and
\* what the copy gets of it is offered to the channel one by one.
PollFrame(q) ==
    /\ stage[q] = "streaming" /\ unsent[q] = <<>> /\ pos[q] < Len(reply[q].pieces)
    /\ pos' = [pos EXCEPT ![q] = @ + 1]
    /\ unsent' = [unsent EXCEPT ![q] =
                    IF reply[q].sse
                    THEN ProcessChunk(Host(q), reply[q], reply[q].pieces[pos[q] + 1])
                    ELSE <<pos[q] + 1>>]
    /\ UNCHANGED <<proxyVars, nodeVars, linkVars, reports, reqVars, channel, taskVars,
                   lost>>

\* Mutant: the copy waits for nothing and is never dropped.
SendUnbounded(q) ==
    /\ unsent[q] # <<>>
    /\ unsent' = [unsent EXCEPT ![q] = Tail(@)]
    /\ channel' = [channel EXCEPT ![q] = Append(@, Head(unsent[q]))]
    /\ UNCHANGED <<proxyVars, nodeVars, linkVars, reports, reqVars, pos, taskVars, lost>>

\* try_send: a channel that is full, or has no receiver left, drops it.
TrySend(q) ==
    /\ unsent[q] # <<>>
    /\ unsent' = [unsent EXCEPT ![q] = Tail(@)]
    /\ IF logger[q] = "running" /\ Len(channel[q]) < ChannelCap
       THEN /\ channel' = [channel EXCEPT ![q] = Append(@, Head(unsent[q]))]
            /\ UNCHANGED lost
       ELSE /\ lost' = [lost EXCEPT ![q] = Loses(q, "dropped")]
            /\ UNCHANGED channel
    /\ UNCHANGED <<proxyVars, nodeVars, linkVars, reports, reqVars, pos, taskVars>>

\* The body ends and drops its sender: at its end, or before because the
\* provider's stream fails or the client goes away.
EndBody(q) ==
    /\ stage[q] = "streaming" /\ unsent[q] = <<>>
    /\ stage' = [stage EXCEPT ![q] = "ended"]
    /\ lost' = [lost EXCEPT ![q] = IF pos[q] < Len(reply[q].pieces)
                                   THEN Loses(q, "cut") ELSE @]
    /\ UNCHANGED <<proxyVars, nodeVars, linkVars, reports, kind, context, injected,
                   reply, copyVars, taskVars>>

-----------------------------------------------------------------------------
(* The task of a response (usage.rs).                                      *)

\* Mutant: who pays is looked up when the report is made.
ReportOfPayer(q, u, spends) ==
    LET r == IF context[q] = None THEN None ELSE context[q].reverie IN
    [req |-> q, usage |-> u, boot |-> boot, reverie |-> r,
     linked |-> IF context[q] = None THEN None ELSE context[q].linked,
     spender |-> IF spends /\ r # None /\ keyStore[r] # None
                 THEN keyStore[r].spender ELSE None]

\* UsageReportPayload, signed with the key of this boot.
ReportOf(q, u, spends) ==
    LET c == context[q] IN
    [req |-> q, usage |-> u, boot |-> boot,
     reverie |-> IF c = None THEN None ELSE c.reverie,
     linked |-> IF c = None THEN None ELSE c.linked,
     spender |-> IF c = None \/ ~spends THEN None ELSE c.spender]

\* Mutant: the output counts, which are cumulative, are added up.
AddUp(u, x) ==
    CASE x.kind = "InputTokens" -> [u EXCEPT !.in = x.n]
      [] x.kind = "OutputTokens" -> [u EXCEPT !.out = @ + x.n]
      [] OTHER -> u

\* current_usage after an update other than Stop.
Accumulate(u, x) ==
    CASE x.kind = "InputTokens" -> [u EXCEPT !.in = x.n]
      [] x.kind = "OutputTokens" -> [u EXCEPT !.out = x.n]
      [] x.kind = "ToolUse" -> [u EXCEPT !.tool = x.n]
      [] OTHER -> u

\* The next update is a Stop with something to report.
StopsNext(q) ==
    /\ channel[q] # <<>> /\ Head(channel[q]).kind = "Stop"
    /\ current[q].in > 0 \/ current[q].out > 0

\* log_sse_response_task takes one update.  At a Stop current_usage replaces
\* the usage that had been given the spender, so the report has none.
LogSseUpdate(q) ==
    /\ logger[q] = "running" /\ reply[q].sse /\ channel[q] # <<>>
    /\ channel' = [channel EXCEPT ![q] = Tail(@)]
    /\ current' = [current EXCEPT ![q] = IF StopsNext(q) THEN NoUsage
                                         ELSE Accumulate(@, Head(channel[q]))]
    /\ reports' = IF StopsNext(q) THEN reports \cup {ReportOf(q, current[q], FALSE)}
                  ELSE reports
    /\ UNCHANGED <<proxyVars, nodeVars, linkVars, reqVars, pos, unsent, logger,
                   logBuffer, lost>>

\* log_regular_response_task takes one chunk.
LogChunk(q) ==
    /\ logger[q] = "running" /\ ~reply[q].sse /\ channel[q] # <<>>
    /\ channel' = [channel EXCEPT ![q] = Tail(@)]
    /\ logBuffer' = [logBuffer EXCEPT ![q] = @ \cup {Head(channel[q])}]
    /\ UNCHANGED <<proxyVars, nodeVars, linkVars, reports, reqVars, pos, unsent,
                   logger, current, lost>>

\* What process_and_log_regular_body may find; it is not called without a chunk.
BodyReadings(q) ==
    IF reply[q].sse \/ logBuffer[q] = {} THEN {None}
    ELSE Readings(Host(q), reply[q], logBuffer[q])

Drained(q) == logger[q] = "running" /\ stage[q] = "ended" /\ channel[q] = <<>>

\* The channel is empty and has no sender left: the task ends, the one of a
\* response that was not streamed with its report.
LoggerEnds(q) ==
    /\ Drained(q)
    /\ logger' = [logger EXCEPT ![q] = "done"]
    /\ \E u \in BodyReadings(q) :
          reports' = IF u = None THEN reports ELSE reports \cup {ReportOf(q, u, TRUE)}
    /\ UNCHANGED <<proxyVars, nodeVars, linkVars, reqVars, copyVars, current,
                   logBuffer, lost>>

\* generate_tee_attestation_with_data fails for a report: the task panics.
QuoteFails(q) ==
    /\ logger[q] = "running"
    /\ \/ reply[q].sse /\ StopsNext(q)
       \/ Drained(q) /\ BodyReadings(q) # {None}
    /\ logger' = [logger EXCEPT ![q] = "done"]
    /\ channel' = [channel EXCEPT ![q] = <<>>]
    /\ lost' = [lost EXCEPT ![q] = Loses(q, "quote")]
    /\ UNCHANGED <<proxyVars, nodeVars, linkVars, reports, reqVars, pos, unsent,
                   current, logBuffer>>

-----------------------------------------------------------------------------
(* A usage report reaches the node (usage_verification.rs, usage_db.rs).   *)

\* The signature in verify_usage_report, with the key that is registered now.
Verifies(rep) == proxyKey # 0 /\ rep.boot = proxyKey

\* store_usage_payload: request_id is the primary key.
StoreUsagePayload(rep) ==
    IF \E row \in db : row.req = rep.req THEN db
    ELSE db \cup {[req |-> rep.req, usage |-> rep.usage, reverie |-> rep.reverie,
                   spender |-> rep.spender, linked |-> rep.linked]}

\* Why a report is not stored: the signature, or after it the quote or the
\* database.
Failures(rep) == IF Verifies(rep) THEN {"dcap", "store"} ELSE {"unverified"}

\* report_usage: what cannot be verified is refused; that the row cannot be
\* stored is only logged.
ReportUsage(rep) ==
    /\ rep \in reports
    /\ reports' = reports \ {rep}
    /\ \/ Verifies(rep) /\ db' = StoreUsagePayload(rep) /\ UNCHANGED lost
       \/ \E cause \in Failures(rep) :
             lost' = [lost EXCEPT ![rep.req] = Loses(rep.req, cause)] /\ UNCHANGED db
    /\ UNCHANGED <<proxyVars, nodeBoot, proxyKey, proxyCa, httpClient, linkVars,
                   reqVars, copyVars, taskVars>>

\* submit_usage_report posts once and gives up after ten seconds.
ReportLost(rep) ==
    /\ rep \in reports
    /\ reports' = reports \ {rep}
    /\ lost' = [lost EXCEPT ![rep.req] = Loses(rep.req, "post")]
    /\ UNCHANGED <<proxyVars, nodeVars, linkVars, reqVars, copyVars, taskVars>>

\* read_usage_data_for_reverie.
UsageOf(r) == {row \in db : row.reverie = r}

\* The totals of MCPToolUsageMetrics over some rows: the number of their
\* tokens, a token being a number under its row.
TokensBooked(rows) == UNION {{row} \X (1..(row.usage.in + row.usage.out)) : row \in rows}

TotalTokens(rows) == Cardinality(TokensBooked(rows))

-----------------------------------------------------------------------------

Init ==
    /\ boot = 1 /\ serverCert = 1
    /\ keyStore = [r \in Reverie |-> None]
    /\ nodeBoot = 1 /\ proxyKey = 0 /\ proxyCa = 0 /\ httpClient = 0
    /\ db = {}
    /\ registers = {1} /\ caToStore = {} /\ calls = {} /\ callCount = 0
    /\ reports = {}
    /\ kind \in [Req -> RequestKinds]
    /\ stage = [q \in Req |-> "new"]
    /\ context = [q \in Req |-> None]
    /\ injected = [q \in Req |-> None]
    /\ reply = [q \in Req |-> None]
    /\ pos = [q \in Req |-> 0]
    /\ unsent = [q \in Req |-> <<>>]
    /\ channel = [q \in Req |-> <<>>]
    /\ logger = [q \in Req |-> "none"]
    /\ current = [q \in Req |-> NoUsage]
    /\ logBuffer = [q \in Req |-> {}]
    /\ lost = [q \in Req |-> None]

Next ==
    \/ \E kept \in BOOLEAN : RestartProxy(kept)
    \/ RestartNode
    \/ \E b \in 1..boot :
          RegisterLlmProxyPubkey(b) \/ StoreCaCert(b) \/ RegistrationLost(b)
    \/ \E p \in KeyPayloads : AddProxyApiKey(p)
    \/ \E r \in Reverie : RemoveProxyApiKey(r)
    \/ \E c \in calls : ServeCall(c) \/ CallLost(c)
    \/ \E q \in Req :
          \/ HandleRequest(q) \/ HandleResponse(q)
          \/ PollFrame(q) \/ TrySend(q) \/ EndBody(q)
          \/ LogSseUpdate(q) \/ LogChunk(q) \/ LoggerEnds(q) \/ QuoteFails(q)
    \/ \E rep \in reports : ReportUsage(rep) \/ ReportLost(rep)

Delivery(q) ==
    \E rep \in reports : rep.req = q /\ (ReportUsage(rep) \/ ReportLost(rep))

\* The response's task is polled while it has something to do, and a post
\* ends within its timeout.  Nothing makes a provider finish its response.
Fairness ==
    \A q \in Req :
        /\ WF_vars(LogSseUpdate(q) \/ LogChunk(q) \/ LoggerEnds(q) \/ QuoteFails(q))
        /\ WF_vars(Delivery(q))

Spec == Init /\ [][Next]_vars

FairSpec == Spec /\ Fairness

-----------------------------------------------------------------------------
(* Properties.                                                             *)

\* Every variable has its type; a channel holds no more than its capacity.
TypeOK ==
    /\ boot \in 1..(MaxRestarts + 1) /\ serverCert \in 1..boot
    /\ nodeBoot \in 1..(MaxRestarts + 1)
    /\ {proxyKey, proxyCa, httpClient} \subseteq 0..boot
    /\ keyStore \in [Reverie -> KeyPayloads \cup {None}]
    /\ registers \subseteq 1..boot /\ caToStore \subseteq 1..boot
    /\ callCount \in 0..MaxCalls
    /\ \A rep \in reports : rep.req \in Req /\ rep.boot \in 1..boot
    /\ \A row \in db : row.req \in Req
    /\ kind \in [Req -> RequestKinds]
    /\ stage \in [Req -> Stage]
    /\ injected \in [Req -> KeyPayloads \cup {None}]
    /\ reply \in [Req -> Replies \cup {Refusal, None}]
    /\ logger \in [Req -> {"none", "running", "done"}]
    /\ lost \in [Req -> Loss \cup {None}]
    /\ \A q \in Req : Len(channel[q]) <= ChannelCap

\* A row is booked to the reverie and the spender of the key that its request
\* took upstream, although that key may be overwritten or removed, and the
\* proxy and the node restarted, while the response is copied; only the rows
\* of streamed responses name no spender (handle_request, process_and_log_regular_body).
UsageBookedToInjectedKey ==
    \A row \in db :
        LET p == injected[row.req] IN
        /\ row.reverie = IF p = None THEN None ELSE p.reverie
        /\ row.spender = IF p = None \/ reply[row.req].sse THEN None ELSE p.spender

\* What the providers billed for the requests that used a key of r, token by
\* token.
TokensBilled(r) ==
    UNION {{q} \X (1..(reply[q].in + reply[q].out)) :
              q \in {x \in Req : reply[x] # None /\ injected[x] # None
                                 /\ injected[x].reverie = r}}

\* The copy of the response to q has no gap: a stream is read event by event,
\* and of a body only the end is missing, if anything.
NoGap(q) == reply[q].sse \/ Prefix(logBuffer[q])

\* What is booked to a reverie from responses that were copied without a gap is
\* never more than what the providers billed for the requests that used its
\* key, whatever updates of a stream were dropped, however many Stops it has
\* and wherever a response was cut (log_sse_response_task,
\* process_and_log_regular_body, store_usage_payload).  A body with a gap may
\* be booked with any number: log_buffer does not know that a chunk is missing.
NoReverieOvercharged ==
    \A r \in Reverie :
        TotalTokens({row \in UsageOf(r) : NoGap(row.req)}) <= Cardinality(TokensBilled(r))

\* Until the proxy or the node is restarted, the node has the key that verifies
\* what the proxy reports about delegated keys, however the two steps of the
\* registration cross with delegations, requests and reports: no such report
\* is refused for its signature (register_llm_proxy_pubkey, report_usage).
\* After a restart it may be: registrations are not repeated, and those of two
\* starts can overlap.
DelegatedUsageVerifies ==
    boot = 1 /\ nodeBoot = 1 =>
        \A q \in Req : injected[q] # None =>
            /\ lost[q] # "unverified"
            /\ \A rep \in reports : rep.req = q => Verifies(rep)

\* The proxy can read the usage of the reply to q.
Billable(q) ==
    LET rep == reply[q] IN
    /\ rep.in + rep.out > 0
    /\ IF rep.sse THEN /\ rep.encoding = "identity" /\ rep.names = "input_tokens"
                       /\ ParserFor(kind[q].host) # "Deepseek"
                       /\ \E i \in DOMAIN rep.pieces : rep.pieces[i].type = "message_stop"
       ELSE rep.encoding # "br" /\ ReadsNames(ParserFor(kind[q].host), rep.names)

\* The usage of a response that ended and can be read is stored, unless the
\* copy missed something, the response was cut, the proxy died, the quote
\* could not be made, the post failed, the node had another key or none,
\* refused the quote or could not store the row: there is no ninth way to lose
\* a report (log_regular_response_task, log_sse_response_task, report_usage).
UsageStoredOrAccountedFor ==
    \A q \in Req :
        (stage[q] = "ended" /\ Billable(q))
            ~> ((\E row \in db : row.req = q) \/ lost[q] # None)
=============================================================================
