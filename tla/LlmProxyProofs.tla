--------------------------- MODULE LlmProxyProofs ---------------------------
(***************************************************************************)
(* The LLM proxy, for any requests, keys, replies and bounds: usage is     *)
(* booked to the reverie and the spender of the key a request took         *)
(* upstream, what was copied without a gap never exceeds the bill, and     *)
(* until a restart the node can verify what is reported of delegated keys. *)
(***************************************************************************)
EXTENDS LlmProxy, FiniteSetTheorems, FunctionTheorems, SequenceTheorems, TLAPS

-----------------------------------------------------------------------------
(* Types.                                                                  *)

\* A delegation carries a payload of the node; a channel is a sequence.
CallsOK    == \A c \in calls : c.op = "add" => c.payload \in KeyPayloads
IsSeq(s)   == \E X : s \in Seq(X)
ChannelsOK == channel = [q \in Req |-> channel[q]] /\ \A q \in Req : IsSeq(channel[q])

TypeInv == TypeOK /\ CallsOK /\ ChannelsOK

\* What a channel holds after a send and after a receive.
LEMMA ChannelAppend ==
    ASSUME NEW s, IsSeq(s), NEW e
    PROVE  IsSeq(Append(s, e)) /\ Len(Append(s, e)) = Len(s) + 1 /\ Len(s) \in Nat
<1>1. PICK X : s \in Seq(X)
  BY DEF IsSeq
<1>2. s \in Seq(X \cup {e})
  BY <1>1, SeqMonotonic
<1>3. Append(s, e) \in Seq(X \cup {e}) /\ Len(Append(s, e)) = Len(s) + 1
  BY <1>2, AppendProperties
<1> QED
  BY <1>1, <1>3, LenProperties DEF IsSeq

LEMMA ChannelTail ==
    ASSUME NEW s, IsSeq(s), s # <<>>
    PROVE  IsSeq(Tail(s)) /\ Len(Tail(s)) = Len(s) - 1 /\ Len(s) \in Nat
  BY HeadTailProperties, LenProperties DEF IsSeq

LEMMA InitTypes == Init => TypeInv
<1> SUFFICES ASSUME Init PROVE TypeInv
  OBVIOUS
<1>1. <<>> \in Seq({}) /\ Len(<<>>) = 0
  BY EmptySeq
<1>2. ChannelsOK /\ \A q \in Req : Len(channel[q]) <= ChannelCap
  BY <1>1, CapAssumption DEF Init, ChannelsOK, IsSeq
<1>3. /\ boot \in 1..(MaxRestarts + 1) /\ serverCert \in 1..boot
      /\ nodeBoot \in 1..(MaxRestarts + 1) /\ callCount \in 0..MaxCalls
      /\ {proxyKey, proxyCa, httpClient} \subseteq 0..boot
      /\ registers \subseteq 1..boot /\ caToStore \subseteq 1..boot
  BY BoundsAssumption DEF Init
<1>4. CallsOK
  BY DEF Init, CallsOK
<1> QED
  BY <1>2, <1>3, <1>4 DEF Init, TypeInv, TypeOK, Stage

\* A cause of loss has its type.
LEMMA LosesType ==
    ASSUME TypeOK, NEW q \in Req, NEW x \in Loss
    PROVE  Loses(q, x) \in Loss \cup {None}
  BY DEF TypeOK, Loses

\* The proxy restarts: everything that named its boot is older than the new one.
LEMMA RestartProxyTypes ==
    ASSUME TypeInv, NEW kept \in BOOLEAN, RestartProxy(kept)
    PROVE  TypeInv'
<1> USE DEF TypeInv
<1>1. /\ boot \in Nat /\ boot' = boot + 1 /\ boot' \in 1..(MaxRestarts + 1)
      /\ 1..boot \subseteq 1..boot' /\ 0..boot \subseteq 0..boot'
  BY BoundsAssumption DEF TypeOK, RestartProxy, RestartsLeft
<1>2. serverCert' \in 1..boot'
  BY <1>1 DEF TypeOK, RestartProxy, ServerCertAfter
<1>3. /\ {proxyKey, proxyCa, httpClient}' \subseteq 0..boot'
      /\ registers' \subseteq 1..boot' /\ caToStore' \subseteq 1..boot'
      /\ \A rep \in reports' : rep.req \in Req /\ rep.boot \in 1..boot'
  <2>1. /\ UNCHANGED <<proxyKey, proxyCa, httpClient, caToStore, reports>>
        /\ registers' = registers \cup {boot + 1}
    BY DEF RestartProxy, nodeVars
  <2>2. boot + 1 \in 1..boot'
    BY <1>1
  <2> QED
    BY <1>1, <2>1, <2>2 DEF TypeOK
<1>4. /\ stage' \in [Req -> Stage]
      /\ logger' \in [Req -> {"none", "running", "done"}]
      /\ keyStore' \in [Reverie -> KeyPayloads \cup {None}]
  BY DEF TypeOK, RestartProxy, Stage
<1>5. lost' \in [Req -> Loss \cup {None}]
  BY LosesType DEF TypeOK, RestartProxy, Loss
<1>6. ChannelsOK' /\ \A q \in Req : Len(channel'[q]) <= ChannelCap
  <2>1. \A q \in Req : channel'[q] = channel[q] \/ channel'[q] = <<>>
    BY DEF RestartProxy
  <2>2. channel' = [q \in Req |-> channel'[q]]
    BY DEF RestartProxy
  <2>3. IsSeq(<<>>) /\ Len(<<>>) = 0
    BY EmptySeq DEF IsSeq
  <2>4. \A q \in Req : IsSeq(channel'[q]) /\ Len(channel'[q]) <= ChannelCap
    BY <2>1, <2>3, CapAssumption DEF TypeOK, ChannelsOK
  <2> QED
    BY <2>2, <2>4 DEF ChannelsOK
<1>7. CallsOK'
  BY DEF RestartProxy, CallsOK
<1> QED
  BY <1>1, <1>2, <1>3, <1>4, <1>5, <1>6, <1>7 DEF TypeOK, RestartProxy, nodeVars

LEMMA NodeTypes ==
    ASSUME TypeInv,
           \/ RestartNode
           \/ \E b \in 1..boot : \/ RegisterLlmProxyPubkey(b) \/ StoreCaCert(b)
                                 \/ RegistrationLost(b)
    PROVE  TypeInv'
<1> USE DEF TypeInv, proxyVars, nodeVars, linkVars, reqVars, copyVars, taskVars
<1>1. CASE RestartNode
  <2>1. nodeBoot' \in 1..(MaxRestarts + 1)
    BY <1>1, BoundsAssumption DEF TypeOK, RestartNode, RestartsLeft
  <2>2. {proxyKey, proxyCa, httpClient}' \subseteq 0..boot'
    BY <1>1 DEF TypeOK, RestartNode
  <2> QED
    BY <1>1, <2>1, <2>2 DEF TypeOK, CallsOK, ChannelsOK, RestartNode
<1>2. ASSUME NEW b \in 1..boot, RegisterLlmProxyPubkey(b)
      PROVE  TypeInv'
  <2>1. {proxyKey, proxyCa, httpClient}' \subseteq 0..boot'
    BY <1>2 DEF TypeOK, RegisterLlmProxyPubkey, StoreKeyThenCa
  <2> QED
    BY <1>2, <2>1 DEF TypeOK, CallsOK, ChannelsOK, RegisterLlmProxyPubkey
<1>3. ASSUME NEW b \in 1..boot, StoreCaCert(b)
      PROVE  TypeInv'
  <2>1. {proxyKey, proxyCa, httpClient}' \subseteq 0..boot'
    BY <1>3 DEF TypeOK, StoreCaCert, StoreKeyThenCa
  <2> QED
    BY <1>3, <2>1 DEF TypeOK, CallsOK, ChannelsOK, StoreCaCert
<1>4. ASSUME NEW b \in 1..boot, RegistrationLost(b)
      PROVE  TypeInv'
  BY <1>4 DEF TypeOK, CallsOK, ChannelsOK, RegistrationLost
<1> QED
  BY <1>1, <1>2, <1>3, <1>4

\* Only payloads of the node get into the key store.
LEMMA CallTypes ==
    ASSUME TypeInv,
           \/ \E p \in KeyPayloads : AddProxyApiKey(p)
           \/ \E r \in Reverie : RemoveProxyApiKey(r)
           \/ \E c \in calls : ServeCall(c) \/ CallLost(c)
    PROVE  TypeInv'
<1> USE DEF TypeInv, proxyVars, nodeVars, linkVars, reqVars, copyVars, taskVars
<1>1. ASSUME NEW c, Call(c), c.op = "add" => c.payload \in KeyPayloads
      PROVE  TypeInv'
  <2>1. callCount' \in 0..MaxCalls
    BY <1>1, BoundsAssumption DEF TypeOK, Call
  <2>2. {proxyKey, proxyCa, httpClient}' \subseteq 0..boot'
    BY <1>1 DEF TypeOK, Call, ClientAfter
  <2>3. CallsOK'
    BY <1>1 DEF CallsOK, Call
  <2> QED
    BY <1>1, <2>1, <2>2, <2>3 DEF TypeOK, ChannelsOK, Call
<1>2. ASSUME NEW p \in KeyPayloads, AddProxyApiKey(p)
      PROVE  TypeInv'
  BY <1>1, <1>2 DEF AddProxyApiKey
<1>3. ASSUME NEW r \in Reverie, RemoveProxyApiKey(r)
      PROVE  TypeInv'
  BY <1>1, <1>3 DEF RemoveProxyApiKey
<1>4. ASSUME NEW c \in calls, ServeCall(c)
      PROVE  TypeInv'
  <2>1. keyStore' \in [Reverie -> KeyPayloads \cup {None}]
    BY <1>4 DEF TypeOK, CallsOK, ServeCall, StoreAfter
  <2> QED
    BY <1>4, <2>1 DEF TypeOK, CallsOK, ChannelsOK, ServeCall
<1>5. ASSUME NEW c \in calls, CallLost(c)
      PROVE  TypeInv'
  BY <1>5 DEF TypeOK, CallsOK, ChannelsOK, CallLost
<1> QED
  BY <1>2, <1>3, <1>4, <1>5

LEMMA RequestTypes ==
    ASSUME TypeInv, NEW q \in Req,
           \/ HandleRequest(q) \/ HandleResponse(q) \/ PollFrame(q) \/ EndBody(q)
    PROVE  TypeInv'
<1> USE DEF TypeInv, proxyVars, nodeVars, linkVars, reqVars, copyVars, taskVars
<1>1. CASE HandleRequest(q)
  <2>1. injected' \in [Req -> KeyPayloads \cup {None}]
    BY <1>1 DEF TypeOK, HandleRequest, AnthropicKeys
  <2>2. stage' \in [Req -> Stage]
    BY <1>1 DEF TypeOK, HandleRequest, Stage
  <2> QED
    BY <1>1, <2>1, <2>2 DEF TypeOK, CallsOK, ChannelsOK, HandleRequest
<1>2. CASE HandleResponse(q)
  <2>1. reply' \in [Req -> Replies \cup {Refusal, None}]
    BY <1>2 DEF TypeOK, HandleResponse
  <2> QED
    BY <1>2, <2>1 DEF TypeOK, CallsOK, ChannelsOK, HandleResponse, Stage
<1>3. CASE PollFrame(q)
  BY <1>3 DEF TypeOK, CallsOK, ChannelsOK, PollFrame
<1>4. CASE EndBody(q)
  <2>1. lost' \in [Req -> Loss \cup {None}]
    BY <1>4, LosesType DEF TypeOK, EndBody, Loss
  <2> QED
    BY <1>4, <2>1 DEF TypeOK, CallsOK, ChannelsOK, EndBody, Stage
<1> QED
  BY <1>1, <1>2, <1>3, <1>4

\* Only a channel below its capacity is sent to.
LEMMA CopyTypes ==
    ASSUME TypeInv, NEW q \in Req,
           \/ TrySend(q) \/ LogSseUpdate(q) \/ LogChunk(q) \/ LoggerEnds(q) \/ QuoteFails(q)
    PROVE  TypeInv'
<1> USE DEF TypeInv, proxyVars, nodeVars, linkVars, reqVars, copyVars, taskVars
<1>1. CASE TrySend(q)
  <2>1. lost' \in [Req -> Loss \cup {None}]
    BY <1>1, LosesType DEF TypeOK, TrySend, Loss
  <2>2. ChannelsOK' /\ \A x \in Req : Len(channel'[x]) <= ChannelCap
    <3>1. CASE channel' = channel
      BY <3>1 DEF TypeOK, ChannelsOK
    <3>2. CASE /\ Len(channel[q]) < ChannelCap
               /\ channel' = [channel EXCEPT ![q] = Append(@, Head(unsent[q]))]
      <4>1. channel' = [x \in Req |-> IF x = q THEN Append(channel[q], Head(unsent[q]))
                                               ELSE channel[x]]
        BY <3>2 DEF ChannelsOK
      <4>2. /\ IsSeq(Append(channel[q], Head(unsent[q])))
            /\ Len(Append(channel[q], Head(unsent[q]))) <= ChannelCap
        BY <3>2, ChannelAppend, CapAssumption DEF ChannelsOK
      <4> QED
        BY <4>1, <4>2 DEF TypeOK, ChannelsOK
    <3> QED
      BY <1>1, <3>1, <3>2 DEF TrySend
  <2> QED
    BY <1>1, <2>1, <2>2 DEF TypeOK, CallsOK, TrySend
<1>2. ASSUME channel[q] # <<>>, channel' = [channel EXCEPT ![q] = Tail(@)]
      PROVE  ChannelsOK' /\ \A x \in Req : Len(channel'[x]) <= ChannelCap
  <2>1. channel' = [x \in Req |-> IF x = q THEN Tail(channel[q]) ELSE channel[x]]
    BY <1>2 DEF ChannelsOK
  <2>2. IsSeq(Tail(channel[q])) /\ Len(Tail(channel[q])) <= ChannelCap
    BY <1>2, ChannelTail, CapAssumption DEF TypeOK, ChannelsOK
  <2> QED
    BY <2>1, <2>2 DEF TypeOK, ChannelsOK
<1>3. CASE LogSseUpdate(q)
  <2>0. boot \in 1..boot
    BY DEF TypeOK
  <2>1. \A rep \in reports' : rep.req \in Req /\ rep.boot \in 1..boot'
    <3>1. boot' = boot /\ \A rep \in reports' \ reports : rep = ReportOf(q, current[q], FALSE)
      BY <1>3 DEF LogSseUpdate
    <3>2. \A rep \in reports' \ reports : rep.req = q /\ rep.boot = boot
      BY <3>1 DEF ReportOf
    <3> QED
      BY <2>0, <3>1, <3>2 DEF TypeOK
  <2>2. ChannelsOK' /\ \A x \in Req : Len(channel'[x]) <= ChannelCap
    BY <1>2, <1>3 DEF LogSseUpdate
  <2> QED
    BY <1>3, <2>1, <2>2 DEF TypeOK, CallsOK, LogSseUpdate
<1>4. CASE LogChunk(q)
  <2>1. ChannelsOK' /\ \A x \in Req : Len(channel'[x]) <= ChannelCap
    BY <1>2, <1>4 DEF LogChunk
  <2> QED
    BY <1>4, <2>1 DEF TypeOK, CallsOK, LogChunk
<1>5. CASE LoggerEnds(q)
  <2>0. boot \in 1..boot
    BY DEF TypeOK
  <2>1. \A rep \in reports' : rep.req \in Req /\ rep.boot \in 1..boot'
    <3>1. boot' = boot /\ \A rep \in reports' \ reports : \E u : rep = ReportOf(q, u, TRUE)
      BY <1>5 DEF LoggerEnds
    <3>2. \A rep \in reports' \ reports : rep.req = q /\ rep.boot = boot
      BY <3>1 DEF ReportOf
    <3> QED
      BY <2>0, <3>1, <3>2 DEF TypeOK
  <2> QED
    BY <1>5, <2>1 DEF TypeOK, CallsOK, ChannelsOK, LoggerEnds
<1>6. CASE QuoteFails(q)
  <2>1. lost' \in [Req -> Loss \cup {None}]
    BY <1>6, LosesType DEF TypeOK, QuoteFails, Loss
  <2>2. ChannelsOK' /\ \A x \in Req : Len(channel'[x]) <= ChannelCap
    <3>1. channel' = [x \in Req |-> IF x = q THEN <<>> ELSE channel[x]]
      BY <1>6 DEF QuoteFails, ChannelsOK
    <3>2. IsSeq(<<>>) /\ Len(<<>>) = 0
      BY EmptySeq DEF IsSeq
    <3> QED
      BY <3>1, <3>2, CapAssumption DEF TypeOK, ChannelsOK
  <2> QED
    BY <1>6, <2>1, <2>2 DEF TypeOK, CallsOK, QuoteFails
<1> QED
  BY <1>1, <1>3, <1>4, <1>5, <1>6

LEMMA ReportTypes ==
    ASSUME TypeInv, NEW rep \in reports, ReportUsage(rep) \/ ReportLost(rep)
    PROVE  TypeInv'
<1> USE DEF TypeInv, proxyVars, nodeVars, linkVars, reqVars, copyVars, taskVars
<1>1. rep.req \in Req
  BY DEF TypeOK
<1>2. lost' \in [Req -> Loss \cup {None}]
  <2>1. \E x \in Loss : lost' = lost \/ lost' = [lost EXCEPT ![rep.req] = Loses(rep.req, x)]
    BY DEF ReportUsage, ReportLost, Failures, Loss
  <2> QED
    BY <1>1, <2>1, LosesType DEF TypeOK
<1>3. \A row \in db' : row.req \in Req
  BY <1>1 DEF TypeOK, ReportUsage, ReportLost, StoreUsagePayload
<1> QED
  BY <1>2, <1>3 DEF TypeOK, CallsOK, ChannelsOK, ReportUsage, ReportLost

LEMMA StepTypes == TypeInv /\ [Next]_vars => TypeInv'
<1> SUFFICES ASSUME TypeInv, [Next]_vars PROVE TypeInv'
  OBVIOUS
<1>1. CASE UNCHANGED vars
  BY <1>1 DEF TypeInv, TypeOK, CallsOK, ChannelsOK, vars, proxyVars, nodeVars,
              linkVars, reqVars, copyVars, taskVars
<1> QED
  BY <1>1, RestartProxyTypes, NodeTypes, CallTypes, RequestTypes, CopyTypes, ReportTypes
  DEF Next

\* Every variable keeps its type: a channel never holds more than its capacity,
\* however fast the provider streams (TeeBody, TeeBodySSE), and only payloads
\* the node delegated are in the key store.
THEOREM TypeCorrect == Spec => []TypeOK
<1>1. Spec => []TypeInv
  BY InitTypes, StepTypes, PTL DEF Spec
<1> QED
  BY <1>1, PTL DEF TypeInv

-----------------------------------------------------------------------------
(* Who pays.                                                               *)

\* Whom the key a request took upstream belongs to, and whom its context names.
InjectedReverie(q) == IF injected[q] = None THEN None ELSE injected[q].reverie
InjectedSpender(q) == IF injected[q] = None THEN None ELSE injected[q].spender
ContextReverie(q)  == IF context[q] = None THEN None ELSE context[q].reverie
ContextSpender(q)  == IF context[q] = None THEN None ELSE context[q].spender

\* The two agree, except for a key that is no header value: the provider
\* refuses that request.
ContextsAgree ==
    /\ context = [q \in Req |-> context[q]]
    /\ \A q \in Req :
          /\ stage[q] = "new" => context[q] = None /\ injected[q] = None
          /\ \/ ~Accepted(q)
             \/ /\ ContextReverie(q) = InjectedReverie(q)
                /\ ContextSpender(q) = InjectedSpender(q)

RefusalsAnswered ==
    \A q \in Req :
        stage[q] \in {"streaming", "ended"} /\ ~Accepted(q) => reply[q] = Refusal

LoggersRead ==
    \A q \in Req : logger[q] = "running" => stage[q] \in {"streaming", "ended"}

\* A report or a row x names the payer of its request, whose key and reply
\* are settled.
NamesPayer(x) ==
    /\ stage[x.req] \notin {"new", "sent"}
    /\ x.reverie = InjectedReverie(x.req)
    /\ x.spender = IF reply[x.req].sse THEN None ELSE InjectedSpender(x.req)

Booked ==
    /\ ContextsAgree /\ RefusalsAnswered /\ LoggersRead
    /\ \A x \in reports \cup db : NamesPayer(x)

\* What Booked depends on.
bookVars == <<kind, stage, context, injected, reply, logger, reports, db>>

LEMMA QuietSteps ==
    ASSUME Booked, UNCHANGED bookVars
    PROVE  Booked'
  BY DEF bookVars, Booked, ContextsAgree, RefusalsAnswered, LoggersRead, NamesPayer,
         Accepted, InjectedReverie, InjectedSpender, ContextReverie, ContextSpender

\* The stage of some requests moves on; their keys, contexts and replies stay.
LEMMA StagesMove ==
    ASSUME TypeOK, Booked, UNCHANGED <<kind, context, injected, reply>>,
           reports' \cup db' \subseteq reports \cup db,
           \A q \in Req :
              /\ stage'[q] = stage[q] \/ stage'[q] = "aborted"
                 \/ (stage[q] = "streaming" /\ stage'[q] = "ended")
              /\ logger'[q] = "running" =>
                    logger[q] = "running" /\ stage'[q] \in {"streaming", "ended"}
    PROVE  Booked'
<1>1. \A q \in Req :
         /\ Accepted(q)' = Accepted(q)
         /\ ContextReverie(q)' = ContextReverie(q) /\ ContextSpender(q)' = ContextSpender(q)
         /\ InjectedReverie(q)' = InjectedReverie(q) /\ InjectedSpender(q)' = InjectedSpender(q)
  BY DEF Accepted, ContextReverie, ContextSpender, InjectedReverie, InjectedSpender
<1>2. ContextsAgree'
  BY <1>1 DEF Booked, ContextsAgree
<1>3. RefusalsAnswered'
  BY <1>1 DEF Booked, RefusalsAnswered
<1>4. LoggersRead'
  BY DEF LoggersRead
<1>5. \A x \in reports \cup db : x.req \in Req
  BY DEF TypeOK
<1>6. \A x \in reports' \cup db' : NamesPayer(x)'
  <2> SUFFICES ASSUME NEW x \in reports' \cup db'
               PROVE  NamesPayer(x)'
    OBVIOUS
  <2>1. x \in reports \cup db /\ NamesPayer(x) /\ x.req \in Req
    BY <1>5 DEF Booked
  <2> QED
    BY <1>1, <2>1 DEF NamesPayer
<1> QED
  BY <1>2, <1>3, <1>4, <1>6 DEF Booked

\* The key is chosen when the request is handled, and its owner is noted then.
LEMMA RequestBooked ==
    ASSUME TypeOK, Booked, NEW q \in Req, HandleRequest(q)
    PROVE  Booked'
<1> USE DEF HandleRequest, proxyVars, nodeVars, linkVars, reqVars, copyVars, taskVars
<1>1. /\ stage[q] = "new" /\ stage' = [stage EXCEPT ![q] = "sent"]
      /\ UNCHANGED <<kind, reply, logger, reports, db>>
  OBVIOUS
<1>2. \A r \in Req : r # q => context'[r] = context[r] /\ injected'[r] = injected[r]
                              /\ stage'[r] = stage[r]
  BY DEF Booked, ContextsAgree, TypeOK
<1>3. \A r \in Req \ {q} :
         /\ Accepted(r)' = Accepted(r)
         /\ ContextReverie(r)' = ContextReverie(r) /\ ContextSpender(r)' = ContextSpender(r)
         /\ InjectedReverie(r)' = InjectedReverie(r) /\ InjectedSpender(r)' = InjectedSpender(r)
  BY <1>1, <1>2 DEF Accepted, ContextReverie, ContextSpender, InjectedReverie, InjectedSpender
<1>4. stage'[q] = "sent"
  BY <1>1 DEF TypeOK
<1>5. context' = [r \in Req |-> context'[r]]
  BY DEF Booked, ContextsAgree
<1>6. \/ ~Accepted(q)'
      \/ /\ ContextReverie(q)' = InjectedReverie(q)'
         /\ ContextSpender(q)' = InjectedSpender(q)'
  <2>1. context[q] = None /\ injected[q] = None /\ kind[q] \in RequestKinds
    BY <1>1 DEF Booked, ContextsAgree, TypeOK
  <2>2. CASE ~kind[q].collected
    BY <1>1, <2>2 DEF Accepted
  <2>3. CASE /\ context' = [context EXCEPT ![q] = ContextWith(kind[q], None)]
             /\ UNCHANGED injected
    <3>1. context'[q] = ContextWith(kind[q], None)
      BY <2>3 DEF Booked, ContextsAgree
    <3> QED
      BY <2>1, <2>3, <3>1
      DEF ContextReverie, ContextSpender, InjectedReverie, InjectedSpender, ContextWith
  <2>4. ASSUME NEW p \in AnthropicKeys, WantsDelegation(kind[q]),
               context' = [context EXCEPT ![q] = ContextWith(kind[q], p)],
               injected' = [injected EXCEPT ![q] = IF p.sendable THEN p ELSE None]
        PROVE  \/ ~Accepted(q)'
               \/ /\ ContextReverie(q)' = InjectedReverie(q)'
                  /\ ContextSpender(q)' = InjectedSpender(q)'
    <3>1. p \in KeyPayloads /\ p # None
      BY DEF AnthropicKeys, TypeOK
    <3>2. context'[q] = ContextWith(kind[q], p) /\ context'[q] # None
      BY <2>1, <2>4, <3>1, ContextAssumption DEF Booked, ContextsAgree
    <3>3. injected'[q] = IF p.sendable THEN p ELSE None
      BY <2>4 DEF TypeOK
    <3>4. CASE p.sendable
      BY <3>1, <3>2, <3>3, <3>4
      DEF ContextReverie, ContextSpender, InjectedReverie, InjectedSpender, ContextWith
    <3>5. CASE ~p.sendable
      BY <1>1, <2>4, <3>3, <3>5 DEF Accepted, WantsDelegation
    <3> QED
      BY <3>4, <3>5
  <2> QED
    BY <2>2, <2>3, <2>4
<1>7. ContextsAgree'
  BY <1>2, <1>3, <1>4, <1>5, <1>6 DEF Booked, ContextsAgree
<1>8. RefusalsAnswered' /\ LoggersRead'
  BY <1>1, <1>2, <1>3, <1>4 DEF Booked, RefusalsAnswered, LoggersRead
<1>9. \A x \in reports' \cup db' : NamesPayer(x)'
  <2> SUFFICES ASSUME NEW x \in reports' \cup db'
               PROVE  NamesPayer(x)'
    OBVIOUS
  <2>1. NamesPayer(x) /\ x.req \in Req /\ x.req # q
    BY <1>1 DEF Booked, NamesPayer, TypeOK
  <2> QED
    BY <1>1, <1>2, <1>3, <2>1 DEF NamesPayer
<1> QED
  BY <1>7, <1>8, <1>9 DEF Booked

LEMMA ResponseBooked ==
    ASSUME TypeOK, Booked, NEW q \in Req, HandleResponse(q)
    PROVE  Booked'
<1> USE DEF HandleResponse, proxyVars, nodeVars, linkVars, reqVars, copyVars, taskVars
<1>1. /\ stage[q] = "sent" /\ stage' = [stage EXCEPT ![q] = "streaming"]
      /\ logger' = [logger EXCEPT ![q] = "running"]
      /\ UNCHANGED <<kind, context, injected, reports, db>>
  OBVIOUS
<1>2. \A r \in Req :
         /\ Accepted(r)' = Accepted(r)
         /\ ContextReverie(r)' = ContextReverie(r) /\ ContextSpender(r)' = ContextSpender(r)
         /\ InjectedReverie(r)' = InjectedReverie(r) /\ InjectedSpender(r)' = InjectedSpender(r)
  BY <1>1 DEF Accepted, ContextReverie, ContextSpender, InjectedReverie, InjectedSpender
<1>3. /\ stage'[q] = "streaming"
      /\ \A r \in Req \ {q} : /\ stage'[r] = stage[r] /\ logger'[r] = logger[r]
                              /\ reply'[r] = reply[r]
  BY <1>1 DEF TypeOK
<1>4. ~Accepted(q) => reply'[q] = Refusal
  BY DEF TypeOK
<1>5. ContextsAgree'
  BY <1>1, <1>2, <1>3 DEF Booked, ContextsAgree
<1>6. RefusalsAnswered' /\ LoggersRead'
  BY <1>1, <1>2, <1>3, <1>4 DEF Booked, RefusalsAnswered, LoggersRead
<1>7. \A x \in reports' \cup db' : NamesPayer(x)'
  <2> SUFFICES ASSUME NEW x \in reports' \cup db'
               PROVE  NamesPayer(x)'
    OBVIOUS
  <2>1. NamesPayer(x) /\ x.req \in Req /\ x.req # q
    BY <1>1 DEF Booked, NamesPayer, TypeOK
  <2> QED
    BY <1>2, <1>3, <2>1 DEF NamesPayer
<1> QED
  BY <1>5, <1>6, <1>7 DEF Booked

\* A refusal has no usage in it, with or without a gap.
LEMMA RefusalHasNoUsage ==
    ASSUME NEW q \in Req, reply[q] = Refusal
    PROVE  BodyReadings(q) = {None}
<1>1. \A parser : ~ReadsNames(parser, Refusal.names)
  BY RefusalAssumption DEF ReadsNames
<1>2. ExtractUsage(Host(q), Refusal) = None
  BY <1>1 DEF ExtractUsage
<1>3. Readings(Host(q), Refusal, logBuffer[q]) = {None}
  BY <1>1, <1>2 DEF Readings
<1> QED
  BY <1>3 DEF BodyReadings

\* A report is made while its response is read, from the context of its request.
LEMMA ReportMade ==
    ASSUME TypeOK, Booked, NEW q \in Req,
           stage[q] \in {"streaming", "ended"}, reply[q] # Refusal, NEW u
    PROVE  /\ reply[q].sse => NamesPayer(ReportOf(q, u, FALSE))
           /\ ~reply[q].sse => NamesPayer(ReportOf(q, u, TRUE))
<1>1. Accepted(q)
  BY DEF Booked, RefusalsAnswered
<1>2. ContextReverie(q) = InjectedReverie(q) /\ ContextSpender(q) = InjectedSpender(q)
  BY <1>1 DEF Booked, ContextsAgree
<1>3. /\ ReportOf(q, u, FALSE).req = q /\ ReportOf(q, u, FALSE).reverie = ContextReverie(q)
      /\ ReportOf(q, u, FALSE).spender = None
  BY DEF ReportOf, ContextReverie
<1>4. /\ ReportOf(q, u, TRUE).req = q /\ ReportOf(q, u, TRUE).reverie = ContextReverie(q)
      /\ ReportOf(q, u, TRUE).spender = ContextSpender(q)
  BY DEF ReportOf, ContextReverie, ContextSpender
<1> QED
  BY <1>2, <1>3, <1>4 DEF NamesPayer

\* New reports name their payer, and everything else stays.
LEMMA ReportsAdded ==
    ASSUME TypeOK, Booked, UNCHANGED <<kind, stage, context, injected, reply, db>>,
           \A q \in Req : logger'[q] = "running" => logger[q] = "running",
           \A x \in reports' \ reports : NamesPayer(x)
    PROVE  Booked'
<1>1. ContextsAgree' /\ RefusalsAnswered' /\ LoggersRead'
  BY DEF Booked, ContextsAgree, RefusalsAnswered, LoggersRead, Accepted,
         InjectedReverie, InjectedSpender, ContextReverie, ContextSpender
<1>2. \A x : NamesPayer(x)' = NamesPayer(x)
  BY DEF NamesPayer, InjectedReverie, InjectedSpender
<1> QED
  BY <1>1, <1>2 DEF Booked

LEMMA LogBooked ==
    ASSUME TypeOK, Booked, NEW q \in Req, LogSseUpdate(q) \/ LoggerEnds(q) \/ QuoteFails(q)
    PROVE  Booked'
<1> USE DEF proxyVars, nodeVars, linkVars, reqVars, copyVars, taskVars
<1>1. stage[q] \in {"streaming", "ended"}
  BY DEF Booked, LoggersRead, LogSseUpdate, LoggerEnds, Drained, QuoteFails
<1>2. CASE LogSseUpdate(q)
  <2>1. reply[q].sse /\ reply[q] # Refusal
    BY <1>2, RefusalAssumption DEF LogSseUpdate
  <2>2. \A x \in reports' \ reports : x = ReportOf(q, current[q], FALSE)
    BY <1>2 DEF LogSseUpdate
  <2>3. \A x \in reports' \ reports : NamesPayer(x)
    BY <1>1, <2>1, <2>2, ReportMade
  <2>4. UNCHANGED <<kind, stage, context, injected, reply, db, logger>>
    BY <1>2 DEF LogSseUpdate
  <2> QED
    BY <2>3, <2>4, ReportsAdded
<1>3. CASE LoggerEnds(q)
  <2>1. /\ UNCHANGED <<kind, stage, context, injected, reply, db>>
        /\ \A r \in Req : logger'[r] = "running" => logger[r] = "running"
    BY <1>3 DEF LoggerEnds, TypeOK
  <2>2. PICK u \in BodyReadings(q) :
            reports' = IF u = None THEN reports ELSE reports \cup {ReportOf(q, u, TRUE)}
    BY <1>3 DEF LoggerEnds
  <2>3. CASE u = None
    BY <2>1, <2>2, <2>3, ReportsAdded
  <2>4. CASE u # None
    <3>1. reply[q] # Refusal /\ ~reply[q].sse
      BY <2>2, <2>4, RefusalHasNoUsage DEF BodyReadings
    <3>2. NamesPayer(ReportOf(q, u, TRUE))
      BY <1>1, <3>1, ReportMade
    <3> QED
      BY <2>1, <2>2, <2>4, <3>2, ReportsAdded
  <2> QED
    BY <2>3, <2>4
<1>4. CASE QuoteFails(q)
  <2>1. /\ UNCHANGED <<kind, stage, context, injected, reply, db, reports>>
        /\ \A r \in Req : logger'[r] = "running" => logger[r] = "running"
    BY <1>4 DEF QuoteFails, TypeOK
  <2> QED
    BY <2>1, ReportsAdded
<1> QED
  BY <1>2, <1>3, <1>4

\* The row that is stored says what the report says.
LEMMA StoreBooked ==
    ASSUME TypeOK, Booked, NEW rep \in reports, ReportUsage(rep) \/ ReportLost(rep)
    PROVE  Booked'
<1> USE DEF proxyVars, nodeVars, linkVars, reqVars, copyVars, taskVars
<1>1. /\ UNCHANGED <<kind, stage, context, injected, reply, logger>>
      /\ reports' \subseteq reports
      /\ \A x \in db' \ db : x = [req |-> rep.req, usage |-> rep.usage,
                                  reverie |-> rep.reverie, spender |-> rep.spender,
                                  linked |-> rep.linked]
  BY DEF ReportUsage, ReportLost, StoreUsagePayload
<1>2. NamesPayer(rep)
  BY DEF Booked
<1>3. \A x \in db' \ db : NamesPayer(x)
  BY <1>1, <1>2 DEF NamesPayer
<1>4. \A x : NamesPayer(x)' = NamesPayer(x)
  BY <1>1 DEF NamesPayer, InjectedReverie, InjectedSpender
<1>5. ContextsAgree' /\ RefusalsAnswered' /\ LoggersRead'
  BY <1>1 DEF Booked, ContextsAgree, RefusalsAnswered, LoggersRead, Accepted,
              InjectedReverie, InjectedSpender, ContextReverie, ContextSpender
<1> QED
  BY <1>1, <1>3, <1>4, <1>5 DEF Booked

LEMMA InitBooked == Init => Booked
  BY DEF Init, Booked, ContextsAgree, RefusalsAnswered, LoggersRead, Accepted,
         InjectedReverie, InjectedSpender, ContextReverie, ContextSpender

LEMMA StepBooked == TypeOK /\ Booked /\ [Next]_vars => Booked'
<1> SUFFICES ASSUME TypeOK, Booked, [Next]_vars
             PROVE  Booked'
  OBVIOUS
<1> USE DEF proxyVars, nodeVars, linkVars, reqVars, copyVars, taskVars
<1>1. ASSUME NEW kept \in BOOLEAN, RestartProxy(kept)
      PROVE  Booked'
  <2>1. /\ UNCHANGED <<kind, context, injected, reply>>
        /\ reports' \cup db' \subseteq reports \cup db
    BY <1>1 DEF RestartProxy
  <2>2. ASSUME NEW q \in Req
        PROVE  /\ stage'[q] = stage[q] \/ stage'[q] = "aborted"
               /\ logger'[q] = "running" =>
                     logger[q] = "running" /\ stage'[q] \in {"streaming", "ended"}
    BY <1>1 DEF RestartProxy, Booked, LoggersRead
  <2> QED
    BY <2>1, <2>2, StagesMove
<1>2. CASE RestartNode \/ \E b \in 1..boot : \/ RegisterLlmProxyPubkey(b) \/ StoreCaCert(b)
                                             \/ RegistrationLost(b)
  BY <1>2, QuietSteps
  DEF RestartNode, RegisterLlmProxyPubkey, StoreCaCert, RegistrationLost, bookVars
<1>3. CASE \/ \E c : Call(c)
           \/ \E c \in calls : ServeCall(c) \/ CallLost(c)
  BY <1>3, QuietSteps DEF Call, ServeCall, CallLost, bookVars
<1>4. ASSUME NEW q \in Req, HandleRequest(q)
      PROVE  Booked'
  BY <1>4, RequestBooked
<1>5. ASSUME NEW q \in Req, HandleResponse(q)
      PROVE  Booked'
  BY <1>5, ResponseBooked
<1>6. ASSUME NEW q \in Req, PollFrame(q) \/ TrySend(q) \/ LogChunk(q)
      PROVE  Booked'
  BY <1>6, QuietSteps DEF PollFrame, TrySend, LogChunk, bookVars
<1>7. ASSUME NEW q \in Req, EndBody(q)
      PROVE  Booked'
  <2>1. /\ UNCHANGED <<kind, context, injected, reply, logger>>
        /\ reports' \cup db' \subseteq reports \cup db
        /\ stage[q] = "streaming" /\ stage' = [stage EXCEPT ![q] = "ended"]
    BY <1>7 DEF EndBody
  <2>2. \A r \in Req :
           /\ stage'[r] = stage[r] \/ (stage[r] = "streaming" /\ stage'[r] = "ended")
           /\ logger'[r] = "running" =>
                 logger[r] = "running" /\ stage'[r] \in {"streaming", "ended"}
    BY <2>1 DEF TypeOK, Booked, LoggersRead
  <2> QED
    BY <2>1, <2>2, StagesMove
<1>8. ASSUME NEW q \in Req, LogSseUpdate(q) \/ LoggerEnds(q) \/ QuoteFails(q)
      PROVE  Booked'
  BY <1>8, LogBooked
<1>9. ASSUME NEW rep \in reports, ReportUsage(rep) \/ ReportLost(rep)
      PROVE  Booked'
  BY <1>9, StoreBooked
<1>10. CASE UNCHANGED vars
  BY <1>10, QuietSteps DEF vars, bookVars
<1> QED
  BY <1>1, <1>2, <1>3, <1>4, <1>5, <1>6, <1>7, <1>8, <1>9, <1>10
  DEF Next, AddProxyApiKey, RemoveProxyApiKey

\* A row is booked to the reverie and the spender of the key its request took
\* upstream, for any payloads and replies, although the key may be overwritten
\* or removed and both processes restarted before the report is stored
\* (handle_request, process_and_log_regular_body, store_usage_payload).
THEOREM UsageBookedToOwner == Spec => []UsageBookedToInjectedKey
<1>1. Booked => UsageBookedToInjectedKey
  BY DEF Booked, NamesPayer, UsageBookedToInjectedKey, InjectedReverie, InjectedSpender
<1> QED
  BY <1>1, InitBooked, StepBooked, TypeCorrect, PTL DEF Spec

-----------------------------------------------------------------------------
(* Registration.                                                           *)

\* Until the first restart: the key is stored before the CA, so before anything
\* can be delegated, and what was refused was of requests without a key.
KeyComesFirst ==
    /\ proxyCa # 0 \/ caToStore # {} \/ calls # {} => proxyKey # 0
    /\ \A r \in Reverie : keyStore[r] # None => proxyKey # 0
    /\ \A q \in Req : injected[q] # None => proxyKey # 0
    /\ \A q \in Req : lost[q] = "unverified" => stage[q] # "new" /\ injected[q] = None

Unrestarted == boot = 1 /\ nodeBoot = 1

\* Steps that change neither a key nor why a report was lost.
LEMMA KeysStay ==
    ASSUME TypeOK, KeyComesFirst,
           UNCHANGED <<proxyKey, proxyCa, caToStore, calls, keyStore, injected>>,
           \A q \in Req : /\ lost'[q] = "unverified" => lost[q] = "unverified"
                          /\ stage[q] # "new" => stage'[q] # "new"
    PROVE  KeyComesFirst'
  BY DEF KeyComesFirst

\* A key is injected only if it is in the store, before its request is reported.
LEMMA RequestKeys ==
    ASSUME TypeOK, Booked, KeyComesFirst, NEW q \in Req, HandleRequest(q)
    PROVE  KeyComesFirst'
<1> USE DEF HandleRequest, proxyVars, nodeVars, linkVars
<1>1. /\ UNCHANGED <<proxyKey, proxyCa, caToStore, calls, keyStore, lost>>
      /\ stage[q] = "new" /\ stage' = [stage EXCEPT ![q] = "sent"]
  OBVIOUS
<1>2. \A x \in Req : x # q => injected'[x] = injected[x]
  BY DEF TypeOK
<1>3. injected'[q] # None => injected[q] # None \/ AnthropicKeys # {}
  BY DEF TypeOK
<1>4. AnthropicKeys # {} => \E r \in Reverie : keyStore[r] # None
  BY DEF AnthropicKeys
<1>5. lost[q] # "unverified"
  BY <1>1 DEF KeyComesFirst
<1>6. \A x \in Req : stage[x] # "new" => stage'[x] # "new"
  BY <1>1 DEF TypeOK
<1> QED
  BY <1>1, <1>2, <1>3, <1>4, <1>5, <1>6 DEF KeyComesFirst

\* A report that does not verify is of a request without a delegated key.
LEMMA ReportKeys ==
    ASSUME TypeOK, Booked, Unrestarted, KeyComesFirst, NEW rep \in reports,
           ReportUsage(rep) \/ ReportLost(rep)
    PROVE  KeyComesFirst'
<1> USE DEF proxyVars, nodeVars, linkVars, reqVars, copyVars, taskVars
<1>1. UNCHANGED <<proxyKey, proxyCa, caToStore, calls, keyStore, injected, stage>>
  BY DEF ReportUsage, ReportLost
<1>2. rep.req \in Req /\ stage[rep.req] # "new"
  BY DEF TypeOK, Booked, NamesPayer
<1>3. \A q \in Req : q # rep.req => lost'[q] = lost[q]
  BY DEF TypeOK, ReportUsage, ReportLost
<1>4. CASE lost'[rep.req] = lost[rep.req]
  <2>1. \A q \in Req : lost'[q] = lost[q]
    BY <1>3, <1>4
  <2> QED
    BY <1>1, <2>1 DEF KeyComesFirst
<1>5. CASE lost'[rep.req] # lost[rep.req] /\ lost'[rep.req] # "unverified"
  <2>1. \A q \in Req : lost'[q] = "unverified" => lost[q] = "unverified"
    BY <1>3, <1>5
  <2> QED
    BY <1>1, <2>1 DEF KeyComesFirst
<1>6. CASE lost'[rep.req] # lost[rep.req] /\ lost'[rep.req] = "unverified"
  <2>1. ~Verifies(rep)
    BY <1>2, <1>6 DEF ReportUsage, ReportLost, Failures, Loses, TypeOK
  <2>2. rep.boot = 1 /\ proxyKey \in {0, 1}
    BY DEF TypeOK, Unrestarted
  <2>3. injected[rep.req] = None
    BY <1>2, <2>1, <2>2 DEF KeyComesFirst, Verifies
  <2> QED
    BY <1>1, <1>2, <1>3, <2>3 DEF KeyComesFirst
<1> QED
  BY <1>4, <1>5, <1>6

LEMMA StepKeys ==
    ASSUME TypeOK, Booked, Unrestarted => KeyComesFirst, [Next]_vars, Unrestarted'
    PROVE  KeyComesFirst'
<1> USE DEF proxyVars, nodeVars, linkVars, reqVars, copyVars, taskVars
<1>1. CASE RestartNode \/ \E kept \in BOOLEAN : RestartProxy(kept)
  BY <1>1 DEF RestartNode, RestartProxy, TypeOK, Unrestarted
<1>2. ASSUME NEW b \in 1..boot,
             RegisterLlmProxyPubkey(b) \/ StoreCaCert(b) \/ RegistrationLost(b)
      PROVE  KeyComesFirst'
  <2>1. Unrestarted /\ UNCHANGED <<calls, keyStore, injected, lost, stage>>
    BY <1>2 DEF RegisterLlmProxyPubkey, StoreCaCert, RegistrationLost, Unrestarted
  <2>2. CASE RegisterLlmProxyPubkey(b)
    <3>1. proxyKey' # 0
      BY <2>2 DEF RegisterLlmProxyPubkey, StoreKeyThenCa, TypeOK
    <3> QED
      BY <2>1, <3>1 DEF KeyComesFirst
  <2>3. CASE StoreCaCert(b)
    <3>1. b \in caToStore /\ proxyKey' = proxyKey
      BY <2>3 DEF StoreCaCert, StoreKeyThenCa
    <3> QED
      BY <2>1, <3>1 DEF KeyComesFirst
  <2>4. CASE RegistrationLost(b)
    BY <2>1, <2>4 DEF RegistrationLost, KeyComesFirst
  <2> QED
    BY <1>2, <2>2, <2>3, <2>4
<1>3. ASSUME NEW c, Call(c)
      PROVE  KeyComesFirst'
  BY <1>3 DEF Call, KeyComesFirst, Unrestarted
<1>4. ASSUME NEW c \in calls, ServeCall(c) \/ CallLost(c)
      PROVE  KeyComesFirst'
  BY <1>4 DEF ServeCall, CallLost, KeyComesFirst, Unrestarted
<1>5. ASSUME NEW q \in Req, HandleRequest(q)
      PROVE  KeyComesFirst'
  <2>1. Unrestarted
    BY <1>5 DEF HandleRequest, Unrestarted
  <2> QED
    BY <1>5, <2>1, RequestKeys
<1>6. ASSUME NEW q \in Req,
             \/ HandleResponse(q) \/ PollFrame(q) \/ TrySend(q) \/ EndBody(q)
             \/ LogSseUpdate(q) \/ LogChunk(q) \/ LoggerEnds(q) \/ QuoteFails(q)
      PROVE  KeyComesFirst'
  <2>1. /\ Unrestarted
        /\ UNCHANGED <<proxyKey, proxyCa, caToStore, calls, keyStore, injected>>
    BY <1>6 DEF HandleResponse, PollFrame, TrySend, EndBody, LogSseUpdate, LogChunk,
                LoggerEnds, QuoteFails, Unrestarted
  <2>2. \A x \in Req : lost'[x] = "unverified" => lost[x] = "unverified"
    BY <1>6 DEF HandleResponse, PollFrame, TrySend, EndBody, LogSseUpdate, LogChunk,
                LoggerEnds, QuoteFails, Loses, TypeOK
  <2>3. \A x \in Req : stage[x] # "new" => stage'[x] # "new"
    BY <1>6 DEF HandleResponse, PollFrame, TrySend, EndBody, LogSseUpdate, LogChunk,
                LoggerEnds, QuoteFails, TypeOK
  <2> QED
    BY <2>1, <2>2, <2>3, KeysStay
<1>7. ASSUME NEW rep \in reports, ReportUsage(rep) \/ ReportLost(rep)
      PROVE  KeyComesFirst'
  <2>1. Unrestarted
    BY <1>7 DEF ReportUsage, ReportLost, Unrestarted
  <2> QED
    BY <1>7, <2>1, ReportKeys
<1>8. CASE UNCHANGED vars
  BY <1>8 DEF vars, KeyComesFirst, Unrestarted
<1> QED
  BY <1>1, <1>2, <1>3, <1>4, <1>5, <1>6, <1>7, <1>8
  DEF Next, AddProxyApiKey, RemoveProxyApiKey

\* Until a restart, no report about a delegated key is refused for its
\* signature, for any requests, keys and delegations crossing with the two steps
\* of the registration (register_llm_proxy_pubkey stores the key, then the CA).
THEOREM UsageVerifiesUntilRestart == Spec => []DelegatedUsageVerifies
<1> DEFINE KeyInv == Unrestarted => KeyComesFirst
<1>1. Init => KeyInv
  <2>1. ASSUME Init
        PROVE  KeyComesFirst
    <3>1. \A q \in Req : lost[q] = None /\ injected[q] = None /\ stage[q] = "new"
      BY <2>1 DEF Init
    <3>2. None # "unverified"
      BY LossAssumption DEF Loss
    <3> QED
      BY <2>1, <3>1, <3>2 DEF Init, KeyComesFirst
  <2> QED
    BY <2>1
<1>2. TypeOK /\ Booked /\ KeyInv /\ [Next]_vars => KeyInv'
  BY StepKeys
<1>3. TypeOK /\ KeyInv => DelegatedUsageVerifies
  <2> SUFFICES ASSUME TypeOK, KeyComesFirst, Unrestarted, NEW q \in Req,
                      injected[q] # None
               PROVE  /\ lost[q] # "unverified"
                      /\ \A rep \in reports : rep.req = q => Verifies(rep)
    BY DEF DelegatedUsageVerifies, Unrestarted
  <2>1. lost[q] # "unverified" /\ proxyKey # 0
    BY DEF KeyComesFirst
  <2>2. proxyKey = 1 /\ \A rep \in reports : rep.boot = 1
    BY <2>1 DEF TypeOK, Unrestarted
  <2> QED
    BY <2>1, <2>2 DEF Verifies
<1>4. Spec => []Booked
  BY InitBooked, StepBooked, TypeCorrect, PTL DEF Spec
<1> HIDE DEF KeyInv
<1> QED
  BY <1>1, <1>2, <1>3, <1>4, TypeCorrect, PTL DEF Spec

-----------------------------------------------------------------------------
(* How much is charged.                                                    *)

\* What a stream tells is within its bill: an update, the updates of a
\* sequence, and what has been added up.
UpdateWithin(x, rep) ==
    /\ x.kind = "InputTokens" => x.n \in 0..rep.in
    /\ x.kind = "OutputTokens" => x.n \in 0..rep.out

CopyWithin(s, rep)  == rep.sse => \A i \in DOMAIN s : UpdateWithin(s[i], rep)
UsageWithin(u, rep) == u.in \in 0..rep.in /\ u.out \in 0..rep.out

\* Nothing is copied before the reply is there, and every copy is within it.
CopiesWithin ==
    \A q \in Req :
        IF reply[q] = None
        THEN unsent[q] = <<>> /\ channel[q] = <<>> /\ current[q] = NoUsage
        ELSE /\ CopyWithin(unsent[q], reply[q]) /\ CopyWithin(channel[q], reply[q])
             /\ UsageWithin(current[q], reply[q])

RepliesSettled ==
    \A q \in Req :
        /\ stage[q] \in {"new", "sent"} => reply[q] = None
        /\ stage[q] \in {"streaming", "ended"} => reply[q] # None

\* A report of a body was made from all that its task ever read.
ReportsWithin ==
    \A x \in reports \cup db :
        /\ reply[x.req] # None
        /\ ~reply[x.req].sse => logger[x.req] = "done"
        /\ NoGap(x.req) => UsageWithin(x.usage, reply[x.req])

\* request_id is the primary key.
RowsUnique == \A x, y \in db : x.req = y.req => x = y

IsUsage(u) == \E i, o, t : u = [in |-> i, out |-> o, tool |-> t]

CopyShape ==
    /\ pos \in [Req -> Nat]
    /\ unsent = [q \in Req |-> unsent[q]] /\ \A q \in Req : IsSeq(unsent[q])
    /\ current = [q \in Req |-> current[q]] /\ \A q \in Req : IsUsage(current[q])
    /\ logBuffer = [q \in Req |-> logBuffer[q]]

Charged ==
    /\ CopyShape /\ CopiesWithin /\ RepliesSettled /\ ReportsWithin /\ RowsUnique

\* Parsing: sequences of updates that are within the bill.
WithinSeq(s, rep) == IsSeq(s) /\ \A i \in DOMAIN s : UpdateWithin(s[i], rep)

LEMMA WithinEmpty ==
    ASSUME NEW rep PROVE WithinSeq(<<>>, rep)
  BY EmptySeq DEF WithinSeq, IsSeq

LEMMA WithinSingle ==
    ASSUME NEW rep, NEW x, UpdateWithin(x, rep) PROVE WithinSeq(<<x>>, rep)
<1>1. <<x>> \in Seq({x}) /\ DOMAIN <<x>> = {1} /\ <<x>>[1] = x
  OBVIOUS
<1> QED
  BY <1>1 DEF WithinSeq, IsSeq

LEMMA WithinConcat ==
    ASSUME NEW rep, NEW s, NEW t, WithinSeq(s, rep), WithinSeq(t, rep)
    PROVE  WithinSeq(s \o t, rep)
<1>1. PICK X, Y : s \in Seq(X) /\ t \in Seq(Y)
  BY DEF WithinSeq, IsSeq
<1>2. s \in Seq(X \cup Y) /\ t \in Seq(X \cup Y)
  BY <1>1, SeqMonotonic
<1>3. /\ s \o t \in Seq(X \cup Y) /\ Len(s \o t) = Len(s) + Len(t)
      /\ \A i \in 1..(Len(s) + Len(t)) :
            (s \o t)[i] = IF i <= Len(s) THEN s[i] ELSE t[i - Len(s)]
  BY <1>2, ConcatProperties
<1>4. /\ Len(s) \in Nat /\ Len(t) \in Nat
      /\ DOMAIN s = 1..Len(s) /\ DOMAIN t = 1..Len(t)
      /\ DOMAIN (s \o t) = 1..(Len(s) + Len(t))
  BY <1>1, <1>3, LenProperties
<1>5. \A i \in DOMAIN (s \o t) : UpdateWithin((s \o t)[i], rep)
  <2> SUFFICES ASSUME NEW i \in 1..(Len(s) + Len(t))
               PROVE  UpdateWithin((s \o t)[i], rep)
    BY <1>4
  <2>1. CASE i <= Len(s)
    BY <1>3, <1>4, <2>1 DEF WithinSeq
  <2>2. CASE i > Len(s)
    <3>1. i - Len(s) \in DOMAIN t /\ (s \o t)[i] = t[i - Len(s)]
      BY <1>3, <1>4, <2>2
    <3> QED
      BY <3>1 DEF WithinSeq
  <2> QED
    BY <1>4, <2>1, <2>2
<1> QED
  BY <1>3, <1>5 DEF WithinSeq, IsSeq

\* An event whose counts are within the bill is parsed to such updates.
LEMMA EventWithin ==
    ASSUME NEW rep, NEW e, e.in \in (0..rep.in) \cup {None}, e.out \in (0..rep.out) \cup {None}
    PROVE  /\ WithinSeq(ParseSseDataLine(e), rep)
           /\ WithinSeq(ParseDeepseekData(e), rep)
<1>1. ASSUME NEW k, NEW n, k \notin {"InputTokens", "OutputTokens"}
      PROVE  UpdateWithin(Update(k, n), rep)
  BY <1>1 DEF Update, UpdateWithin
<1>2. /\ WithinSeq(TokenUpdate("InputTokens", e.in), rep)
      /\ WithinSeq(TokenUpdate("OutputTokens", e.out), rep)
      /\ WithinSeq(TokenUpdate("ToolUse", e.tool), rep)
  <2>1. e.in # None => UpdateWithin(Update("InputTokens", e.in), rep)
    BY DEF Update, UpdateWithin
  <2>2. e.out # None => UpdateWithin(Update("OutputTokens", e.out), rep)
    BY DEF Update, UpdateWithin
  <2>3. UpdateWithin(Update("ToolUse", e.tool), rep)
    BY <1>1
  <2> QED
    BY <2>1, <2>2, <2>3, WithinEmpty, WithinSingle DEF TokenUpdate
<1>3. /\ WithinSeq(<<Update("Text", None)>>, rep) /\ WithinSeq(<<Update("Stop", None)>>, rep)
      /\ WithinSeq(<<Update("Other", None)>>, rep)
  BY <1>1, WithinSingle
<1>4. WithinSeq(ParseSseDataLine(e), rep)
  BY <1>2, <1>3 DEF ParseSseDataLine
<1>5. WithinSeq(ParseDeepseekData(e), rep)
  <2>1. WithinSeq(TokenUpdate("InputTokens", e.in) \o TokenUpdate("OutputTokens", e.out), rep)
    BY <1>2, WithinConcat
  <2>2. WithinSeq((IF e.type = "usage" THEN TokenUpdate("InputTokens", e.in)
                                            \o TokenUpdate("OutputTokens", e.out)
                   ELSE IF e.type = "content" THEN <<Update("Text", None)>> ELSE <<>>), rep)
    BY <1>3, <2>1, WithinEmpty
  <2>3. WithinSeq(<<Update("Other", None)>>
                  \o (IF e.type = "usage" THEN TokenUpdate("InputTokens", e.in)
                                               \o TokenUpdate("OutputTokens", e.out)
                      ELSE IF e.type = "content" THEN <<Update("Text", None)>> ELSE <<>>), rep)
    BY <1>3, <2>2, WithinConcat
  <2> QED
    BY <1>4, <2>3 DEF ParseDeepseekData
<1> QED
  BY <1>4, <1>5

LEMMA ChunkWithin ==
    ASSUME NEW host, NEW rep \in Replies, rep.sse, NEW i \in DOMAIN rep.pieces
    PROVE  WithinSeq(ProcessChunk(host, rep, rep.pieces[i]), rep)
<1>1. /\ rep.pieces[i].in \in (0..rep.in) \cup {None}
      /\ rep.pieces[i].out \in (0..rep.out) \cup {None}
  BY BillsAssumption
<1>2. /\ WithinSeq(ParseSseDataLine(rep.pieces[i]), rep)
      /\ WithinSeq(ParseDeepseekData(rep.pieces[i]), rep)
  BY <1>1, EventWithin
<1> QED
  BY <1>2, WithinEmpty DEF ProcessChunk

\* Taking an update and appending one keep what is left within the bill.
LEMMA CopyTail ==
    ASSUME NEW s, NEW rep, IsSeq(s), s # <<>>, CopyWithin(s, rep)
    PROVE  /\ IsSeq(Tail(s)) /\ CopyWithin(Tail(s), rep)
           /\ rep.sse => UpdateWithin(Head(s), rep)
<1>1. PICK X : s \in Seq(X)
  BY DEF IsSeq
<1>2. /\ Len(s) \in Nat \ {0} /\ DOMAIN s = 1..Len(s) /\ Head(s) = s[1]
      /\ Tail(s) \in Seq(X) /\ DOMAIN Tail(s) = 1..(Len(s) - 1)
      /\ \A i \in 1..(Len(s) - 1) : Tail(s)[i] = s[i + 1]
  BY <1>1, LenProperties, HeadTailProperties, EmptySeq
<1> QED
  BY <1>2 DEF IsSeq, CopyWithin

LEMMA CopyAppend ==
    ASSUME NEW s, NEW e, NEW rep, IsSeq(s), CopyWithin(s, rep),
           rep.sse => UpdateWithin(e, rep)
    PROVE  CopyWithin(Append(s, e), rep)
<1>1. PICK X : s \in Seq(X)
  BY DEF IsSeq
<1>2. s \in Seq(X \cup {e})
  BY <1>1, SeqMonotonic
<1>3. /\ Len(s) \in Nat /\ DOMAIN s = 1..Len(s)
      /\ DOMAIN Append(s, e) = 1..(Len(s) + 1)
      /\ \A i \in 1..(Len(s) + 1) :
            Append(s, e)[i] = IF i = Len(s) + 1 THEN e ELSE s[i]
  BY <1>2, LenProperties, AppendProperties
<1> QED
  BY <1>3 DEF CopyWithin

\* An update replaces a count by one that is within the bill.
LEMMA AccumulateWithin ==
    ASSUME NEW u, IsUsage(u), NEW x, NEW rep, UpdateWithin(x, rep), UsageWithin(u, rep)
    PROVE  IsUsage(Accumulate(u, x)) /\ UsageWithin(Accumulate(u, x), rep)
<1>1. PICK i, o, t : u = [in |-> i, out |-> o, tool |-> t]
  BY DEF IsUsage
<1>2. \/ Accumulate(u, x) = u
      \/ Accumulate(u, x) = [in |-> x.n, out |-> o, tool |-> t] /\ x.kind = "InputTokens"
      \/ Accumulate(u, x) = [in |-> i, out |-> x.n, tool |-> t] /\ x.kind = "OutputTokens"
      \/ Accumulate(u, x) = [in |-> i, out |-> o, tool |-> x.n]
  BY <1>1 DEF Accumulate
<1>3. IsUsage(Accumulate(u, x))
  BY <1>1, <1>2 DEF IsUsage
<1>4. i \in 0..rep.in /\ o \in 0..rep.out
  BY <1>1 DEF UsageWithin
<1>5. UsageWithin(Accumulate(u, x), rep)
  BY <1>2, <1>4 DEF UsageWithin, UpdateWithin
<1> QED
  BY <1>3, <1>5

chargeVars == <<reply, stage, pos, unsent, channel, current, logger, logBuffer, reports, db>>

LEMMA QuietCharged ==
    ASSUME Charged, UNCHANGED chargeVars
    PROVE  Charged'
  BY DEF chargeVars, Charged, CopyShape, CopiesWithin, RepliesSettled, ReportsWithin,
         RowsUnique, NoGap

\* The reply of a request, once it is there.
LEMMA ReplyKnown ==
    ASSUME TypeOK, NEW q \in Req, reply[q] # None
    PROVE  /\ reply[q] \in Replies \cup {Refusal}
           /\ reply[q].in \in Nat /\ reply[q].out \in Nat
           /\ reply[q].sse => reply[q] \in Replies
<1>1. reply[q] \in Replies \cup {Refusal}
  BY DEF TypeOK
<1>2. CASE reply[q] \in Replies
  <2>1. reply[q].in \in Nat /\ reply[q].out \in Nat
    BY <1>2, BillsAssumption
  <2> QED
    BY <1>1, <1>2, <2>1, Zenon
<1>3. CASE reply[q] = Refusal
  <2>1. reply[q].in = 0 /\ reply[q].out = 0
    BY <1>3, RefusalAssumption
  <2>2. ~reply[q].sse
    BY <1>3, RefusalAssumption, Zenon
  <2>3. reply[q].in \in Nat /\ reply[q].out \in Nat
    BY <2>1
  <2> QED
    BY <1>1, <2>2, <2>3, Zenon
<1> QED
  BY <1>1, <1>2, <1>3, Zenon

\* The copies of a response are dropped when the proxy restarts.
LEMMA RestartCharged ==
    ASSUME TypeInv, Charged, NEW kept \in BOOLEAN, RestartProxy(kept)
    PROVE  Charged'
<1> USE DEF RestartProxy, nodeVars
<1>1. /\ UNCHANGED <<reply, pos, current, logBuffer, reports, db>>
      /\ \A q \in Req : /\ logger[q] = "done" => logger'[q] = "done"
                        /\ unsent'[q] = unsent[q] \/ unsent'[q] = <<>>
                        /\ channel'[q] = channel[q] \/ channel'[q] = <<>>
                        /\ stage'[q] = stage[q] \/ stage'[q] = "aborted"
      /\ unsent' = [q \in Req |-> unsent'[q]]
  OBVIOUS
<1>2. IsSeq(<<>>) /\ DOMAIN <<>> = {}
  BY EmptySeq DEF IsSeq
<1>3. CopyShape'
  BY <1>1, <1>2 DEF Charged, CopyShape
<1>4. CopiesWithin'
  BY <1>1, <1>2 DEF Charged, CopiesWithin, CopyWithin
<1>5. RepliesSettled' /\ RowsUnique'
  BY <1>1 DEF Charged, RepliesSettled, RowsUnique
<1>6. ReportsWithin'
  BY <1>1 DEF Charged, ReportsWithin, NoGap, TypeInv, TypeOK
<1> QED
  BY <1>3, <1>4, <1>5, <1>6 DEF Charged

LEMMA RequestCharged ==
    ASSUME TypeInv, Charged, NEW q \in Req,
           HandleRequest(q) \/ HandleResponse(q) \/ EndBody(q)
    PROVE  Charged'
<1> USE DEF TypeInv, proxyVars, nodeVars, linkVars, reqVars, copyVars, taskVars
<1>1. CASE HandleRequest(q) \/ EndBody(q)
  <2>1. /\ UNCHANGED <<reply, pos, unsent, channel, current, logger, logBuffer, reports, db>>
        /\ \/ stage[q] = "new" /\ stage' = [stage EXCEPT ![q] = "sent"]
           \/ stage[q] = "streaming" /\ stage' = [stage EXCEPT ![q] = "ended"]
    BY <1>1 DEF HandleRequest, EndBody
  <2>2. RepliesSettled'
    BY <2>1 DEF Charged, RepliesSettled, TypeOK
  <2> QED
    BY <2>1, <2>2 DEF Charged, CopyShape, CopiesWithin, ReportsWithin, RowsUnique, NoGap
<1>2. CASE HandleResponse(q)
  <2>1. /\ UNCHANGED <<pos, unsent, channel, current, logBuffer, reports, db>>
        /\ logger' = [logger EXCEPT ![q] = "running"]
        /\ stage[q] = "sent" /\ stage' = [stage EXCEPT ![q] = "streaming"]
        /\ \E rep \in Replies \cup {Refusal} : reply' = [reply EXCEPT ![q] = rep]
    BY <1>2 DEF HandleResponse
  <2>2. reply[q] = None
    BY <2>1 DEF Charged, RepliesSettled
  <2>3. /\ reply'[q] # None /\ stage'[q] = "streaming"
        /\ \A x \in Req \ {q} : reply'[x] = reply[x] /\ stage'[x] = stage[x]
        /\ reply'[q].in \in Nat /\ reply'[q].out \in Nat
    <3>1. PICK rep \in Replies \cup {Refusal} : reply' = [reply EXCEPT ![q] = rep]
      BY <2>1
    <3>2. /\ reply'[q] = rep /\ stage'[q] = "streaming"
          /\ \A x \in Req \ {q} : reply'[x] = reply[x] /\ stage'[x] = stage[x]
      BY <2>1, <3>1 DEF TypeOK
    <3>3. rep # None
      BY OptionAssumption
    <3>4. rep.in \in Nat /\ rep.out \in Nat
      <4>1. CASE rep \in Replies
        BY <4>1, BillsAssumption
      <4>2. CASE rep = Refusal
        <5>1. rep.in = 0 /\ rep.out = 0
          BY <4>2, RefusalAssumption
        <5> QED
          BY <5>1
      <4> QED
        BY <4>1, <4>2
    <3> QED
      BY <3>2, <3>3, <3>4, Zenon
  <2>4. RepliesSettled'
    BY <2>3 DEF Charged, RepliesSettled
  <2>5. CopiesWithin'
    <3>1. CopyWithin(<<>>, reply'[q]) /\ UsageWithin(NoUsage, reply'[q])
      BY <2>3, EmptySeq DEF CopyWithin, UsageWithin, NoUsage
    <3> QED
      BY <2>1, <2>2, <2>3, <3>1 DEF Charged, CopiesWithin
  <2>6. ReportsWithin'
    <3> SUFFICES ASSUME NEW x \in reports \cup db
                 PROVE  /\ reply'[x.req] # None
                        /\ ~reply'[x.req].sse => logger'[x.req] = "done"
                        /\ NoGap(x.req)' => UsageWithin(x.usage, reply'[x.req])
      BY <2>1 DEF ReportsWithin
    <3>1. x.req \in Req /\ x.req # q
      BY <2>2 DEF Charged, ReportsWithin, TypeOK
    <3>2. reply'[x.req] = reply[x.req] /\ logger'[x.req] = logger[x.req]
      BY <2>1, <2>3, <3>1 DEF TypeOK
    <3>3. NoGap(x.req)' <=> NoGap(x.req)
      BY <2>1, <3>2 DEF NoGap
    <3> QED
      BY <3>2, <3>3 DEF Charged, ReportsWithin
  <2> QED
    BY <2>1, <2>4, <2>5, <2>6 DEF Charged, CopyShape, RowsUnique
<1> QED
  BY <1>1, <1>2

LEMMA PollCharged ==
    ASSUME TypeInv, Charged, NEW q \in Req, PollFrame(q)
    PROVE  Charged'
<1> USE DEF TypeInv, proxyVars, nodeVars, linkVars, reqVars, copyVars, taskVars
<1> DEFINE new == IF reply[q].sse
                  THEN ProcessChunk(Host(q), reply[q], reply[q].pieces[pos[q] + 1])
                  ELSE <<pos[q] + 1>>
<1>1. /\ UNCHANGED <<reply, stage, channel, current, logger, logBuffer, reports, db>>
      /\ stage[q] = "streaming" /\ pos[q] < Len(reply[q].pieces)
      /\ pos' = [pos EXCEPT ![q] = @ + 1] /\ unsent' = [unsent EXCEPT ![q] = new]
  BY DEF PollFrame
<1>2. reply[q] # None
  BY <1>1 DEF Charged, RepliesSettled
<1>3. IsSeq(new) /\ CopyWithin(new, reply[q])
  <2>1. CASE reply[q].sse
    <3>1. reply[q] \in Replies
      BY <1>2, <2>1, ReplyKnown
    <3>2. pos[q] + 1 \in DOMAIN reply[q].pieces
      <4>1. reply[q].pieces \in Seq({reply[q].pieces[i] : i \in DOMAIN reply[q].pieces})
        BY <3>1, BillsAssumption
      <4>2. DOMAIN reply[q].pieces = 1..Len(reply[q].pieces) /\ Len(reply[q].pieces) \in Nat
        BY <4>1, LenProperties
      <4> QED
        BY <1>1, <4>2 DEF Charged, CopyShape
    <3> QED
      BY <2>1, <3>1, <3>2, ChunkWithin DEF WithinSeq, CopyWithin
  <2>2. CASE ~reply[q].sse
    <3>1. new \in Seq({pos[q] + 1})
      BY <2>2
    <3> QED
      BY <2>2, <3>1 DEF IsSeq, CopyWithin
  <2> QED
    BY <2>1, <2>2
<1> HIDE DEF new
<1>4. unsent' = [x \in Req |-> IF x = q THEN new ELSE unsent[x]]
  BY <1>1 DEF Charged, CopyShape
<1>5. CopyShape'
  <2>1. pos' \in [Req -> Nat]
    BY <1>1 DEF Charged, CopyShape
  <2>2. unsent' = [x \in Req |-> unsent'[x]] /\ \A x \in Req : IsSeq(unsent'[x])
    BY <1>3, <1>4 DEF Charged, CopyShape
  <2> QED
    BY <1>1, <2>1, <2>2 DEF Charged, CopyShape
<1>6. CopiesWithin'
  BY <1>1, <1>2, <1>3, <1>4 DEF Charged, CopiesWithin
<1> QED
  BY <1>1, <1>5, <1>6 DEF Charged, RepliesSettled, ReportsWithin, RowsUnique, NoGap

\* An update moves from the poll to the channel, or is dropped.
LEMMA SendCharged ==
    ASSUME TypeInv, Charged, NEW q \in Req, TrySend(q)
    PROVE  Charged'
<1> USE DEF TypeInv, proxyVars, nodeVars, linkVars, reqVars, copyVars, taskVars
<1>1. /\ UNCHANGED <<reply, stage, pos, current, logger, logBuffer, reports, db>>
      /\ unsent[q] # <<>> /\ unsent' = [unsent EXCEPT ![q] = Tail(@)]
      /\ \/ channel' = channel
         \/ channel' = [channel EXCEPT ![q] = Append(@, Head(unsent[q]))]
  BY DEF TrySend
<1>2. /\ reply[q] # None /\ IsSeq(unsent[q]) /\ IsSeq(channel[q])
      /\ CopyWithin(unsent[q], reply[q]) /\ CopyWithin(channel[q], reply[q])
  BY <1>1 DEF Charged, CopiesWithin, CopyShape, ChannelsOK
<1>3. /\ IsSeq(Tail(unsent[q])) /\ CopyWithin(Tail(unsent[q]), reply[q])
      /\ CopyWithin(Append(channel[q], Head(unsent[q])), reply[q])
  BY <1>1, <1>2, CopyTail, CopyAppend
<1>4. unsent' = [x \in Req |-> IF x = q THEN Tail(unsent[q]) ELSE unsent[x]]
  BY <1>1 DEF Charged, CopyShape
<1>5. \/ channel' = channel
      \/ channel' = [x \in Req |-> IF x = q THEN Append(channel[q], Head(unsent[q]))
                                            ELSE channel[x]]
  BY <1>1 DEF ChannelsOK
<1>6. CopyShape'
  BY <1>1, <1>3, <1>4 DEF Charged, CopyShape
<1>7. CopiesWithin'
  BY <1>1, <1>2, <1>3, <1>4, <1>5 DEF Charged, CopiesWithin
<1> QED
  BY <1>1, <1>6, <1>7 DEF Charged, RepliesSettled, ReportsWithin, RowsUnique, NoGap

\* The task of a response takes what was sent to it.
LEMMA LogCharged ==
    ASSUME TypeInv, Charged, NEW q \in Req, LogSseUpdate(q) \/ LogChunk(q)
    PROVE  Charged'
<1> USE DEF TypeInv, proxyVars, nodeVars, linkVars, reqVars, copyVars, taskVars
<1>1. /\ UNCHANGED <<reply, stage, pos, unsent, logger, db>>
      /\ channel[q] # <<>> /\ channel' = [channel EXCEPT ![q] = Tail(@)]
  BY DEF LogSseUpdate, LogChunk
<1>2. /\ reply[q] # None /\ IsSeq(channel[q]) /\ CopyWithin(channel[q], reply[q])
      /\ IsUsage(current[q]) /\ UsageWithin(current[q], reply[q])
  BY <1>1 DEF Charged, CopiesWithin, CopyShape, ChannelsOK
<1>3. /\ CopyWithin(Tail(channel[q]), reply[q])
      /\ reply[q].sse => UpdateWithin(Head(channel[q]), reply[q])
  BY <1>1, <1>2, CopyTail
<1>4. channel' = [x \in Req |-> IF x = q THEN Tail(channel[q]) ELSE channel[x]]
  BY <1>1 DEF ChannelsOK
<1>5. CASE LogChunk(q)
  <2>1. /\ UNCHANGED <<current, reports>>
        /\ logger[q] = "running" /\ ~reply[q].sse
        /\ logBuffer' = [logBuffer EXCEPT ![q] = @ \cup {Head(channel[q])}]
    BY <1>5 DEF LogChunk
  <2>2. CopiesWithin'
    BY <1>1, <1>2, <1>3, <1>4, <2>1 DEF Charged, CopiesWithin
  <2>3. ReportsWithin'
    <3>1. \A x \in reports \cup db : x.req \in Req /\ x.req # q
      BY <2>1 DEF Charged, ReportsWithin, TypeOK
    <3>2. \A y \in Req \ {q} : NoGap(y)' <=> NoGap(y)
      BY <1>1, <2>1 DEF NoGap, CopyShape, Charged
    <3> QED
      BY <1>1, <2>1, <3>1, <3>2 DEF Charged, ReportsWithin
  <2> QED
    BY <1>1, <2>1, <2>2, <2>3 DEF Charged, CopyShape, RepliesSettled, RowsUnique
<1>6. CASE LogSseUpdate(q)
  <2>1. /\ reply[q].sse /\ UNCHANGED logBuffer
        /\ \/ current' = [current EXCEPT ![q] = NoUsage]
           \/ current' = [current EXCEPT ![q] = Accumulate(@, Head(channel[q]))]
        /\ \A x \in reports' \ reports : x = ReportOf(q, current[q], FALSE)
    BY <1>6 DEF LogSseUpdate
  <2>2. PICK u : /\ u = NoUsage \/ u = Accumulate(current[q], Head(channel[q]))
                 /\ current' = [x \in Req |-> IF x = q THEN u ELSE current[x]]
    BY <2>1 DEF Charged, CopyShape
  <2>3. IsUsage(u) /\ UsageWithin(u, reply[q])
    <3>1. IsUsage(NoUsage) /\ UsageWithin(NoUsage, reply[q])
      <4>1. reply[q].in \in Nat /\ reply[q].out \in Nat
        BY <1>2, ReplyKnown, Zenon
      <4>2. NoUsage.in = 0 /\ NoUsage.out = 0
        BY DEF NoUsage
      <4>3. IsUsage(NoUsage)
        BY DEF IsUsage, NoUsage
      <4> QED
        BY <4>1, <4>2, <4>3 DEF UsageWithin
    <3> QED
      BY <1>2, <1>3, <2>1, <2>2, <3>1, AccumulateWithin
  <2>4. CopyShape'
    BY <1>1, <2>1, <2>2, <2>3 DEF Charged, CopyShape
  <2>5. CopiesWithin'
    BY <1>1, <1>2, <1>3, <1>4, <2>2, <2>3 DEF Charged, CopiesWithin
  <2>6. ReportsWithin'
    <3>1. \A x \in reports' \ reports : x.req = q /\ x.usage = current[q]
      BY <2>1 DEF ReportOf
    <3> QED
      BY <1>1, <1>2, <2>1, <3>1 DEF Charged, ReportsWithin, NoGap
  <2> QED
    BY <1>1, <2>4, <2>5, <2>6 DEF Charged, RepliesSettled, RowsUnique
<1> QED
  BY <1>5, <1>6

\* What is read from a body without a gap is its bill.
LEMMA BodyWithin ==
    ASSUME TypeOK, NEW q \in Req, reply[q] # None, NoGap(q),
           NEW u \in BodyReadings(q), u # None
    PROVE  UsageWithin(u, reply[q])
<1>1. u = ExtractUsage(Host(q), reply[q])
  BY DEF BodyReadings, Readings, NoGap
<1>2. u.in = reply[q].in /\ u.out = reply[q].out
  BY <1>1 DEF ExtractUsage
<1>3. reply[q].in \in Nat /\ reply[q].out \in Nat
  BY ReplyKnown
<1> QED
  BY <1>2, <1>3 DEF UsageWithin

LEMMA EndsCharged ==
    ASSUME TypeInv, Charged, NEW q \in Req, LoggerEnds(q)
    PROVE  Charged'
<1> USE DEF TypeInv, proxyVars, nodeVars, linkVars, reqVars, copyVars, taskVars
<1>1. /\ UNCHANGED <<reply, stage, pos, unsent, channel, current, logBuffer, db>>
      /\ stage[q] = "ended" /\ logger' = [logger EXCEPT ![q] = "done"]
  BY DEF LoggerEnds, Drained
<1>2. PICK u \in BodyReadings(q) :
          reports' = IF u = None THEN reports ELSE reports \cup {ReportOf(q, u, TRUE)}
  BY DEF LoggerEnds
<1>3. reply[q] # None
  BY <1>1 DEF Charged, RepliesSettled
<1>4. logger'[q] = "done" /\ \A x \in Req : logger[x] = "done" => logger'[x] = "done"
  BY <1>1 DEF TypeOK
<1>5. \A x \in reports' \ reports : x.req = q /\ x.usage = u /\ u # None
  BY <1>2 DEF ReportOf
<1>6. NoGap(q) /\ u # None => UsageWithin(u, reply[q])
  BY <1>3, BodyWithin
<1>7. \A x : NoGap(x)' <=> NoGap(x)
  BY <1>1 DEF NoGap
<1>8. ReportsWithin'
  BY <1>1, <1>3, <1>4, <1>5, <1>6, <1>7 DEF Charged, ReportsWithin, TypeOK
<1> QED
  BY <1>1, <1>8 DEF Charged, CopyShape, CopiesWithin, RepliesSettled, RowsUnique

\* The task dies: nothing is reported, and what it has not read goes.
LEMMA QuoteCharged ==
    ASSUME TypeInv, Charged, NEW q \in Req, QuoteFails(q)
    PROVE  Charged'
<1> USE DEF TypeInv, proxyVars, nodeVars, linkVars, reqVars, copyVars, taskVars
<1>1. /\ UNCHANGED <<reply, stage, pos, unsent, current, logBuffer, reports, db>>
      /\ logger' = [logger EXCEPT ![q] = "done"]
      /\ channel' = [channel EXCEPT ![q] = <<>>]
  BY DEF QuoteFails
<1>2. channel' = [x \in Req |-> IF x = q THEN <<>> ELSE channel[x]]
  BY <1>1 DEF ChannelsOK
<1>3. \A x \in Req : logger[x] = "done" => logger'[x] = "done"
  BY <1>1 DEF TypeOK
<1>4. CopiesWithin'
  BY <1>1, <1>2, EmptySeq DEF Charged, CopiesWithin, CopyWithin
<1>5. ReportsWithin'
  BY <1>1, <1>3 DEF Charged, ReportsWithin, NoGap, TypeOK
<1> QED
  BY <1>1, <1>4, <1>5 DEF Charged, CopyShape, RepliesSettled, RowsUnique

\* A second report for a request is not stored.
LEMMA StoreCharged ==
    ASSUME TypeInv, Charged, NEW rep \in reports, ReportUsage(rep) \/ ReportLost(rep)
    PROVE  Charged'
<1> USE DEF TypeInv, proxyVars, nodeVars, linkVars, reqVars, copyVars, taskVars
<1> DEFINE row == [req |-> rep.req, usage |-> rep.usage, reverie |-> rep.reverie,
                   spender |-> rep.spender, linked |-> rep.linked]
<1>1. /\ UNCHANGED <<reply, stage, pos, unsent, channel, current, logger, logBuffer>>
      /\ reports' \subseteq reports
      /\ \/ db' = db
         \/ db' = db \cup {row} /\ \A x \in db : x.req # rep.req
  BY DEF ReportUsage, ReportLost, StoreUsagePayload
<1>2. row.req = rep.req /\ row.usage = rep.usage
  OBVIOUS
<1> HIDE DEF row
<1>3. ReportsWithin'
  BY <1>1, <1>2 DEF Charged, ReportsWithin, NoGap
<1>4. RowsUnique'
  BY <1>1, <1>2 DEF Charged, RowsUnique
<1> QED
  BY <1>1, <1>3, <1>4 DEF Charged, CopyShape, CopiesWithin, RepliesSettled

LEMMA StepCharged == TypeInv /\ Charged /\ [Next]_vars => Charged'
<1> SUFFICES ASSUME TypeInv, Charged, [Next]_vars
             PROVE  Charged'
  OBVIOUS
<1> USE DEF proxyVars, nodeVars, linkVars, reqVars, copyVars, taskVars
<1>1. ASSUME NEW kept \in BOOLEAN, RestartProxy(kept)
      PROVE  Charged'
  BY <1>1, RestartCharged
<1>2. CASE RestartNode \/ \E b \in 1..boot : \/ RegisterLlmProxyPubkey(b) \/ StoreCaCert(b)
                                             \/ RegistrationLost(b)
  BY <1>2, QuietCharged
  DEF RestartNode, RegisterLlmProxyPubkey, StoreCaCert, RegistrationLost, chargeVars
<1>3. CASE \/ \E c : Call(c)
           \/ \E c \in calls : ServeCall(c) \/ CallLost(c)
  BY <1>3, QuietCharged DEF Call, ServeCall, CallLost, chargeVars
<1>4. ASSUME NEW q \in Req, HandleRequest(q) \/ HandleResponse(q) \/ EndBody(q)
      PROVE  Charged'
  BY <1>4, RequestCharged
<1>5. ASSUME NEW q \in Req, PollFrame(q)
      PROVE  Charged'
  BY <1>5, PollCharged
<1>6. ASSUME NEW q \in Req, TrySend(q)
      PROVE  Charged'
  BY <1>6, SendCharged
<1>7. ASSUME NEW q \in Req, LogSseUpdate(q) \/ LogChunk(q)
      PROVE  Charged'
  BY <1>7, LogCharged
<1>8. ASSUME NEW q \in Req, LoggerEnds(q) \/ QuoteFails(q)
      PROVE  Charged'
  BY <1>8, EndsCharged, QuoteCharged
<1>9. ASSUME NEW rep \in reports, ReportUsage(rep) \/ ReportLost(rep)
      PROVE  Charged'
  BY <1>9, StoreCharged
<1>10. CASE UNCHANGED vars
  BY <1>10, QuietCharged DEF vars, chargeVars
<1> QED
  BY <1>1, <1>2, <1>3, <1>4, <1>5, <1>6, <1>7, <1>8, <1>9, <1>10
  DEF Next, AddProxyApiKey, RemoveProxyApiKey

\* The tokens of a bill are finitely many.
LEMMA BilledFinite ==
    ASSUME TypeOK, NEW r
    PROVE  IsFiniteSet(TokensBilled(r))
<1> DEFINE Q == {x \in Req : reply[x] # None /\ injected[x] # None
                             /\ injected[x].reverie = r}
           bill == [q \in Q |-> {q} \X (1..(reply[q].in + reply[q].out))]
           bills == {{q} \X (1..(reply[q].in + reply[q].out)) : q \in Q}
<1>1. IsFiniteSet(Q)
  <2>1. Q \in SUBSET Req
    OBVIOUS
  <2> HIDE DEF Q
  <2> QED
    BY <2>1, FiniteAssumption, FS_Subset
<1>2. bill \in Surjection(Q, bills)
  <2>1. bill \in [Q -> bills] /\ \A t \in bills : \E q \in Q : bill[q] = t
    OBVIOUS
  <2> HIDE DEF Q, bill, bills
  <2> QED
    BY <2>1, Fun_IsSurj
<1>3. IsFiniteSet(bills)
  <2> HIDE DEF Q, bill, bills
  <2> QED
    BY <1>1, <1>2, FS_Surjection
<1>4. \A q \in Q : IsFiniteSet({q} \X (1..(reply[q].in + reply[q].out)))
  <2> SUFFICES ASSUME NEW q \in Q
               PROVE  IsFiniteSet({q} \X (1..(reply[q].in + reply[q].out)))
    OBVIOUS
  <2>1. reply[q].in + reply[q].out \in Nat
    BY ReplyKnown
  <2>2. IsFiniteSet(1..(reply[q].in + reply[q].out))
    BY <2>1, FS_Interval
  <2>3. IsFiniteSet({q})
    BY FS_Singleton
  <2> QED
    BY <2>2, <2>3, FS_Product
<1>5. \A t \in bills : IsFiniteSet(t)
  BY <1>4
<1>6. TokensBilled(r) = UNION bills
  BY DEF TokensBilled
<1> HIDE DEF Q, bill, bills
<1> QED
  BY <1>3, <1>5, <1>6, FS_UNION

\* Each token booked to r is one of the bill of the request it was booked for,
\* and no two are the same one.
LEMMA TokensInjected ==
    ASSUME TypeOK, Booked, Charged, NEW r \in Reverie
    PROVE  TotalTokens({row \in UsageOf(r) : NoGap(row.req)}) <= Cardinality(TokensBilled(r))
<1> DEFINE rows == {row \in UsageOf(r) : NoGap(row.req)}
           of == [p \in TokensBooked(rows) |-> <<p[1].req, p[2]>>]
<1>1. ASSUME NEW p \in TokensBooked(rows)
      PROVE  \E row \in db, i \in Nat :
                /\ p = <<row, i>> /\ row.reverie = r /\ NoGap(row.req)
                /\ i \in 1..(row.usage.in + row.usage.out)
  BY DEF TokensBooked, UsageOf
<1>2. \A p \in TokensBooked(rows) : of[p] \in TokensBilled(r)
  <2> SUFFICES ASSUME NEW p \in TokensBooked(rows)
               PROVE  <<p[1].req, p[2]>> \in TokensBilled(r)
    OBVIOUS
  <2>1. PICK row \in db, i \in Nat :
            /\ p = <<row, i>> /\ row.reverie = r /\ NoGap(row.req)
            /\ i \in 1..(row.usage.in + row.usage.out)
    BY <1>1
  <2> DEFINE q == row.req
  <2>2. q \in Req /\ reply[q] # None /\ UsageWithin(row.usage, reply[q])
    BY <2>1 DEF TypeOK, Charged, ReportsWithin
  <2>3. injected[q] # None /\ injected[q].reverie = r
    BY <2>1, OptionAssumption DEF Booked, NamesPayer, InjectedReverie
  <2>4. reply[q].in \in Nat /\ reply[q].out \in Nat
    BY <2>2, ReplyKnown
  <2>5. i \in 1..(reply[q].in + reply[q].out)
    BY <2>1, <2>2, <2>4 DEF UsageWithin
  <2> QED
    BY <2>1, <2>2, <2>3, <2>5 DEF TokensBilled
<1>3. \A p1, p2 \in TokensBooked(rows) : of[p1] = of[p2] => p1 = p2
  <2> SUFFICES ASSUME NEW p1 \in TokensBooked(rows), NEW p2 \in TokensBooked(rows),
                      p1[1].req = p2[1].req, p1[2] = p2[2]
               PROVE  p1 = p2
    OBVIOUS
  <2>1. PICK w1 \in db, i1 \in Nat : p1 = <<w1, i1>>
    BY <1>1
  <2>2. PICK w2 \in db, i2 \in Nat : p2 = <<w2, i2>>
    BY <1>1
  <2> QED
    BY <2>1, <2>2 DEF Charged, RowsUnique
<1>4. of \in [TokensBooked(rows) -> TokensBilled(r)]
  BY <1>2
<1> HIDE DEF of, rows
<1>5. of \in Injection(TokensBooked(rows), TokensBilled(r))
  BY <1>3, <1>4, Fun_IsInj
<1> QED
  BY <1>5, BilledFinite, FS_Injection DEF TotalTokens, rows

\* What is booked to a reverie from responses that were copied without a gap is
\* never more than what the providers billed for the requests that used its
\* key, for any streams and bodies, whatever updates of a stream were dropped
\* and wherever a response was cut (log_sse_response_task,
\* process_and_log_regular_body, store_usage_payload).
THEOREM ReveriesNotOvercharged == Spec => []NoReverieOvercharged
<1>1. Init => Charged
  <2> SUFFICES ASSUME Init PROVE Charged
    OBVIOUS
  <2>1. IsSeq(<<>>) /\ IsUsage(NoUsage)
    BY EmptySeq DEF IsSeq, IsUsage, NoUsage
  <2> QED
    BY <2>1 DEF Init, Charged, CopyShape, CopiesWithin, RepliesSettled, ReportsWithin,
                RowsUnique
<1>2. Spec => [](TypeInv /\ Charged)
  BY <1>1, InitTypes, StepTypes, StepCharged, PTL DEF Spec
<1>3. TypeInv /\ Booked /\ Charged => NoReverieOvercharged
  BY TokensInjected DEF TypeInv, NoReverieOvercharged
<1>4. Spec => []Booked
  BY InitBooked, StepBooked, TypeCorrect, PTL DEF Spec
<1> QED
  BY <1>2, <1>3, <1>4, PTL
=============================================================================
