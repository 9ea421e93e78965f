-------------------------- MODULE HeartbeatProofs --------------------------
(***************************************************************************)
(* The heartbeat behaviour, for any connections, buffers and limits: a     *)
(* handler has the one request for a payload under way that it waits for,  *)
(* the payload it gets after its idle time is attested after it, and a     *)
(* node whose streams open shuts down only when more sends failed than it  *)
(* tolerates.                                                              *)
(***************************************************************************)
EXTENDS Heartbeat, FiniteSetTheorems, FunctionTheorems, SequenceTheorems, TLAPS

-----------------------------------------------------------------------------
(* Counting in queues.                                                     *)

\* The places of s that hold a member of S.
Places(s, S) == {i \in DOMAIN s : s[i] \in S}

\* Events and pending actions are finite sequences: their places are counted.
LEMMA PlacesFinite ==
    ASSUME NEW T, NEW s \in Seq(T), NEW S
    PROVE  IsFiniteSet(Places(s, S)) /\ Cardinality(Places(s, S)) \in Nat
<1>1. Places(s, S) \in SUBSET (1..Len(s)) /\ Len(s) \in Nat
  BY LenProperties DEF Places
<1>2. IsFiniteSet(1..Len(s))
  BY <1>1, FS_Interval
<1> QED
  BY <1>1, <1>2, FS_Subset, FS_CardinalityType

\* Reporting an event or queueing an action adds the one place it takes.
LEMMA PlacesAppend ==
    ASSUME NEW T, NEW s \in Seq(T), NEW e \in T, NEW S
    PROVE  Cardinality(Places(Append(s, e), S)) =
              Cardinality(Places(s, S)) + (IF e \in S THEN 1 ELSE 0)
<1>1. /\ Len(s) \in Nat /\ DOMAIN s = 1..Len(s)
      /\ DOMAIN Append(s, e) = 1..(Len(s) + 1)
      /\ \A i \in 1..(Len(s) + 1) :
            Append(s, e)[i] = IF i = Len(s) + 1 THEN e ELSE s[i]
  BY LenProperties, AppendProperties
<1>2. IsFiniteSet(Places(s, S)) /\ Cardinality(Places(s, S)) \in Nat
  BY PlacesFinite
<1>3. CASE e \in S
  <2>1. Places(Append(s, e), S) = Places(s, S) \cup {Len(s) + 1}
    BY <1>1, <1>3 DEF Places
  <2>2. Len(s) + 1 \notin Places(s, S)
    BY <1>1 DEF Places
  <2> QED
    BY <1>2, <1>3, <2>1, <2>2, FS_AddElement
<1>4. CASE e \notin S
  <2>1. Places(Append(s, e), S) = Places(s, S)
    BY <1>1, <1>4 DEF Places
  <2> QED
    BY <1>2, <1>4, <2>1
<1> QED
  BY <1>3, <1>4

\* Taking the first of a queue gives up its one place; the others move up.
LEMMA PlacesTail ==
    ASSUME NEW T, NEW s \in Seq(T), s # <<>>, NEW S
    PROVE  Cardinality(Places(Tail(s), S)) =
              Cardinality(Places(s, S)) - (IF Head(s) \in S THEN 1 ELSE 0)
<1>1. /\ Len(s) \in Nat \ {0} /\ DOMAIN s = 1..Len(s) /\ Head(s) = s[1]
      /\ DOMAIN Tail(s) = 1..(Len(s) - 1)
      /\ \A i \in 1..(Len(s) - 1) : Tail(s)[i] = s[i + 1]
  BY LenProperties, HeadTailProperties, EmptySeq
<1> DEFINE rest == Places(s, S) \ {1}
           up == [i \in rest |-> i - 1]
<1>2. IsFiniteSet(Places(s, S)) /\ Cardinality(Places(s, S)) \in Nat
  BY PlacesFinite
<1>3. /\ IsFiniteSet(rest)
      /\ Cardinality(rest) =
            Cardinality(Places(s, S)) - (IF Head(s) \in S THEN 1 ELSE 0)
  <2>1. 1 \in Places(s, S) <=> Head(s) \in S
    BY <1>1 DEF Places
  <2> QED
    BY <1>2, <2>1, FS_RemoveElement
<1>4. rest \subseteq 2..Len(s)
  BY <1>1 DEF Places
<1>5. up \in Bijection(rest, Places(Tail(s), S))
  <2>1. \A i \in rest : up[i] \in Places(Tail(s), S)
    BY <1>1, <1>4 DEF Places
  <2>2. \A i, j \in rest : up[i] = up[j] => i = j
    BY <1>1, <1>4
  <2>3. \A k \in Places(Tail(s), S) : k + 1 \in rest /\ up[k + 1] = k
    BY <1>1 DEF Places
  <2>4. up \in [rest -> Places(Tail(s), S)]
    BY <2>1
  <2> HIDE DEF rest, up
  <2> QED
    BY <2>2, <2>3, <2>4, Fun_IsBij
<1> HIDE DEF rest, up
<1> QED
  BY <1>3, <1>5, FS_Bijection DEF ExistsBijection

-----------------------------------------------------------------------------
(* Types.                                                                  *)

\* The steps of a handler, and what they report.
HandlerStep(c) == PollInbound(c) \/ PollRest(c) \/ Negotiated(c)

\* What one step of a handler does: it may report one event, moves its own
\* outbound state and leaves the behaviour's state alone.
LEMMA HandlerSteps ==
    ASSUME TypeOK, NEW c \in Conn, HandlerStep(c)
    PROVE  /\ Open(c) /\ Observe(c)
           /\ UNCHANGED <<link, payload, pending, yielded, failCount, signals,
                          loop, upsets>>
           /\ \/ /\ outbound' = outbound /\ dialFailed' = dialFailed
                 /\ Report(c, "HeartbeatPayload")
              \/ /\ outbound' = outbound /\ dialFailed' = dialFailed /\ dialFailed[c]
                 /\ Report(c, "IncrementFailureCount")
              \/ /\ outbound[c] = "none" /\ Outbound(c, "negotiating")
                 /\ dialFailed' = dialFailed /\ events' = events
              \/ /\ outbound[c] = "requesting" /\ Outbound(c, "requested")
                 /\ dialFailed' = dialFailed
                 /\ Report(c, "RequestLocalHeartbeatPayloadToSend")
              \/ /\ outbound[c] = "sending" /\ Outbound(c, "idle")
                 /\ dialFailed' = dialFailed /\ Report(c, "ResetFailureCount")
              \/ /\ outbound[c] = "sending" /\ Outbound(c, "none")
                 /\ dialFailed' = dialFailed /\ Report(c, "IncrementFailureCount")
              \/ /\ outbound[c] = "idle" /\ Outbound(c, "requesting")
                 /\ dialFailed' = dialFailed
                 /\ Report(c, "RefreshLocalTeeAttestation")
              \/ /\ outbound[c] = "negotiating" /\ Outbound(c, "requesting")
                 /\ dialFailed' = dialFailed /\ events' = events
              \/ /\ outbound[c] = "negotiating" /\ Outbound(c, "none")
                 /\ dialFailed' = [dialFailed EXCEPT ![c] = TRUE]
                 /\ events' = events
  BY DEF HandlerStep, PollInbound, PollRest, Negotiated, ReceivePayload, CanReport,
         ReportDialFailure, OpenStream, RequestPayload, SendSucceeds, SendFails,
         IdleExpires, FullyNegotiatedOutbound, DialUpgradeError, PollOutbound,
         Open, handlerVars

LEMMA HandlerTypes ==
    ASSUME TypeOK, NEW c \in Conn, HandlerStep(c)
    PROVE  TypeOK'
<1>1. \A e \in OutEvent : Report(c, e) => events' \in [Conn -> Seq(OutEvent)]
  BY AppendProperties DEF TypeOK, Report
<1>2. \A s \in OutboundState : Outbound(c, s) => outbound' \in [Conn -> OutboundState]
  BY DEF TypeOK, Outbound
<1>3. outbound' \in [Conn -> OutboundState]
  BY <1>2, HandlerSteps DEF TypeOK, OutboundState
<1>4. events' \in [Conn -> Seq(OutEvent)]
  BY <1>1, HandlerSteps DEF TypeOK, OutEvent
<1>5. dialFailed' \in [Conn -> BOOLEAN]
  BY HandlerSteps DEF TypeOK
<1>6. Observe(c)
  BY HandlerSteps
<1>7. outdated' \in SUBSET Conn /\ causes' \in SUBSET {"simulated", "dial"}
  BY <1>6 DEF TypeOK, Observe
<1>8. failures' \in 0..(MaxFailures + 1)
  BY <1>6, CountsAssumption DEF TypeOK, Observe
<1> QED
  BY <1>3, <1>4, <1>5, <1>7, <1>8, HandlerSteps DEF TypeOK

\* The actions that are queued are of their type.
LEMMA QueueTypes ==
    ASSUME TypeOK, NEW a \in HeartbeatAction, Queue(a)
    PROVE  pending' \in Seq(HeartbeatAction)
  BY AppendProperties DEF TypeOK, Queue

LEMMA EventTypes ==
    ASSUME TypeOK, NEW c \in Conn, TakeEvent(c)
    PROVE  TypeOK'
<1>1. events' \in [Conn -> Seq(OutEvent)]
  BY HeadTailProperties DEF TypeOK, TakeEvent, OnConnectionHandlerEvent
<1>2. pending' \in Seq(HeartbeatAction)
  <2>1. /\ [kind |-> "HeartbeatEvent", conn |-> c] \in HeartbeatAction
        /\ [kind |-> "HeartbeatRequest", conn |-> c,
            payload |-> IF c \in outdated THEN "outdated" ELSE "fresh"] \in HeartbeatAction
        /\ [kind |-> "ShutdownIfMaxFailuresExceeded"] \in HeartbeatAction
    BY DEF HeartbeatAction
  <2> QED
    BY <2>1, QueueTypes DEF TypeOK, TakeEvent, OnConnectionHandlerEvent
<1>3. failCount' \in 0..CountMax
  BY CountsAssumption DEF TypeOK, TakeEvent, OnConnectionHandlerEvent, SaturatingAdd
<1>4. outdated' \in SUBSET Conn /\ yielded' \in BOOLEAN
  BY DEF TypeOK, TakeEvent, OnConnectionHandlerEvent
<1> QED
  BY <1>1, <1>2, <1>3, <1>4 DEF TypeOK, TakeEvent

\* The kinds of action, with their fields.
LEMMA ActionFields ==
    ASSUME NEW a \in HeartbeatAction
    PROVE  \/ a.kind = "HeartbeatEvent" /\ a.conn \in Conn
           \/ /\ a.kind = "HeartbeatRequest" /\ a.conn \in Conn
              /\ a.payload \in {"fresh", "outdated"}
           \/ a.kind = "ShutdownIfMaxFailuresExceeded"
  BY DEF HeartbeatAction

LEMMA PollTypes ==
    ASSUME TypeOK, PollBehaviour
    PROVE  TypeOK'
<1> USE DEF PollBehaviour, Poll
<1>1. Head(pending) \in HeartbeatAction /\ pending' \in Seq(HeartbeatAction)
  BY HeadTailProperties DEF TypeOK
<1>2. payload' \in [Conn -> Payload]
  BY <1>1, ActionFields DEF TypeOK, Payload
<1>3. signals' \in 0..SignalBuf
  BY BuffersAssumption DEF TypeOK
<1>4. yielded' \in BOOLEAN
  <2>1. yielded' = FALSE \/ yielded' = (Len(pending) > 1)
    BY Zenon
  <2>2. (Len(pending) > 1) \in BOOLEAN
    OBVIOUS
  <2> QED
    BY <2>1, <2>2, Zenon
<1> QED
  BY <1>1, <1>2, <1>3, <1>4 DEF TypeOK

LEMMA LoopTypes ==
    ASSUME TypeOK,
           \/ \E c \in Conn : \/ TakePayload(c) \/ ConnectionEstablished(c)
                              \/ ConnectionClosed(c) \/ LinkDown(c) \/ LinkUp(c)
           \/ SimulateHeartbeatFailure \/ InternalHeartbeatFailure
           \/ TriggerRestart \/ Restart
    PROVE  TypeOK'
<1>1. ASSUME NEW c \in Conn, TakePayload(c)
      PROVE  TypeOK'
  BY <1>1 DEF TypeOK, TakePayload, OnBehaviourEvent, OutboundState, Payload
<1>2. ASSUME NEW c \in Conn, ConnectionEstablished(c)
      PROVE  TypeOK'
  BY <1>2 DEF TypeOK, ConnectionEstablished, Outbound, OutboundState
<1>3. ASSUME NEW c \in Conn, ConnectionClosed(c)
      PROVE  TypeOK'
  BY <1>3, UpsetsAssumption DEF TypeOK, ConnectionClosed, CloseAll, OutboundState, Payload
<1>4. ASSUME NEW c \in Conn, LinkDown(c) \/ LinkUp(c)
      PROVE  TypeOK'
  <2>1. upsets' \in 0..MaxUpsets
    BY <1>4, UpsetsAssumption DEF TypeOK, LinkDown, LinkUp
  <2> QED
    BY <1>4, <2>1 DEF TypeOK, LinkDown, LinkUp
<1>5. CASE SimulateHeartbeatFailure
  <2>1. pending' \in Seq(HeartbeatAction)
    BY <1>5, QueueTypes
    DEF SimulateHeartbeatFailure, TriggerHeartbeatFailure, HeartbeatAction
  <2> QED
    BY <1>5, <2>1, UpsetsAssumption, CountsAssumption
    DEF TypeOK, SimulateHeartbeatFailure, TriggerHeartbeatFailure
<1>6. CASE InternalHeartbeatFailure
  BY <1>6, BuffersAssumption
  DEF TypeOK, InternalHeartbeatFailure, CloseAll, OutboundState, Payload
<1>7. CASE TriggerRestart
  BY <1>7 DEF TypeOK, TriggerRestart
<1>8. CASE Restart
  <2>1. /\ failCount' \in 0..CountMax /\ signals' \in 0..SignalBuf
        /\ failures' \in 0..(MaxFailures + 1)
    BY <1>8, BuffersAssumption, CountsAssumption DEF Restart
  <2>2. events' \in [Conn -> Seq(OutEvent)] /\ pending' \in Seq(HeartbeatAction)
    BY <1>8, EmptySeq DEF Restart
  <2> QED
    BY <1>8, <2>1, <2>2 DEF TypeOK, Restart, CloseAll, OutboundState, Payload
<1> QED
  BY <1>1, <1>2, <1>3, <1>4, <1>5, <1>6, <1>7, <1>8

LEMMA InitTypes == Init => TypeOK
<1> SUFFICES ASSUME Init PROVE TypeOK
  OBVIOUS
<1>1. /\ failCount \in 0..CountMax /\ signals \in 0..SignalBuf
      /\ failures \in 0..(MaxFailures + 1) /\ upsets \in 0..MaxUpsets
  BY BuffersAssumption, CountsAssumption, UpsetsAssumption DEF Init
<1>2. events \in [Conn -> Seq(OutEvent)] /\ pending \in Seq(HeartbeatAction)
  BY EmptySeq DEF Init
<1> QED
  BY <1>1, <1>2 DEF Init, TypeOK, OutboundState, Payload

LEMMA StepTypes == TypeOK /\ [Next]_vars => TypeOK'
<1>1. TypeOK /\ UNCHANGED vars => TypeOK'
  BY DEF TypeOK, vars
<1> QED
  BY <1>1, HandlerTypes, EventTypes, PollTypes, LoopTypes DEF Next, HandlerStep

\* Every variable keeps its type: the failure count is a u32 after any number
\* of failures, the signals never outgrow their channel, and every queued
\* action has the fields poll reads.
THEOREM TypeCorrect == Spec => []TypeOK
  BY InitTypes, StepTypes, PTL DEF Spec

-----------------------------------------------------------------------------
(* Requests under way.                                                     *)

RequestEvents  == {"RequestLocalHeartbeatPayloadToSend"}
RequestsOf(c)  == {a \in HeartbeatAction : a.kind = "HeartbeatRequest" /\ a.conn = c}
Reported(c)    == Cardinality(Places(events[c], RequestEvents))
Queued(c)      == Cardinality(Places(pending, RequestsOf(c)))
Answered(c)    == IF payload[c] = "none" THEN 0 ELSE 1

RequestsAddUp ==
    \A c \in Conn :
        /\ UnderWay(c) = Reported(c) + Queued(c) + Answered(c)
        /\ Reported(c) \in Nat /\ Queued(c) \in Nat /\ Answered(c) \in Nat

\* The requests of a handler are those reported, queued and answered.
LEMMA UnderWayParts == TypeOK => RequestsAddUp
<1> SUFFICES ASSUME TypeOK, NEW c \in Conn
             PROVE  /\ UnderWay(c) = Reported(c) + Queued(c) + Answered(c)
                    /\ Reported(c) \in Nat /\ Queued(c) \in Nat /\ Answered(c) \in Nat
  BY DEF RequestsAddUp
<1>1. events[c] \in Seq(OutEvent) /\ pending \in Seq(HeartbeatAction)
  BY DEF TypeOK
<1>2. {i \in DOMAIN events[c] : events[c][i] = "RequestLocalHeartbeatPayloadToSend"}
      = Places(events[c], RequestEvents)
  BY DEF Places, RequestEvents
<1>3. {i \in DOMAIN pending :
          pending[i].kind = "HeartbeatRequest" /\ pending[i].conn = c}
      = Places(pending, RequestsOf(c))
  <2>1. \A i \in DOMAIN pending : pending[i] \in HeartbeatAction
    BY <1>1, ElementOfSeq, LenProperties
  <2> QED
    BY <2>1 DEF Places, RequestsOf
<1>4. Reported(c) \in Nat /\ Queued(c) \in Nat /\ Answered(c) \in Nat
  BY <1>1, PlacesFinite DEF Reported, Queued, Answered
<1>5. UnderWay(c) = Reported(c) + Queued(c) + Answered(c)
  BY <1>2, <1>3 DEF UnderWay, Reported, Queued, Answered
<1> QED
  BY <1>4, <1>5

LEMMA UnderWayPartsNext == TypeOK' => RequestsAddUp'
  BY UnderWayParts, PTL

\* A report counts as a request of its own handler when it is one.
LEMMA ReportCounts ==
    ASSUME TypeOK, NEW c \in Conn, NEW d \in Conn, NEW e \in OutEvent, Report(c, e)
    PROVE  Reported(d)' = Reported(d) + (IF d = c /\ e \in RequestEvents THEN 1 ELSE 0)
<1>1. events[c] \in Seq(OutEvent) /\ events[d] \in Seq(OutEvent)
  BY DEF TypeOK
<1>2. Reported(d) \in Nat
  BY UnderWayParts DEF RequestsAddUp
<1>3. CASE d = c
  <2>1. events'[d] = Append(events[d], e)
    BY <1>3 DEF TypeOK, Report
  <2> QED
    BY <1>1, <1>3, <2>1, PlacesAppend DEF Reported
<1>4. CASE d # c
  <2>1. events'[d] = events[d]
    BY <1>4 DEF TypeOK, Report
  <2> QED
    BY <1>2, <1>4, <2>1 DEF Reported
<1> QED
  BY <1>3, <1>4

\* A handler that starts to wait makes one request, and no other step of a
\* handler makes one.
LEMMA HandlerKeepsRequests ==
    ASSUME TypeOK, OneRequestPerCycle, NEW c \in Conn, HandlerStep(c)
    PROVE  OneRequestPerCycle'
<1>1. TypeOK'
  BY HandlerTypes
<1> SUFFICES ASSUME NEW d \in Conn, Open(d)'
             PROVE  UnderWay(d)' = IF outbound'[d] = "requested" THEN 1 ELSE 0
  BY DEF OneRequestPerCycle
<1>2. Queued(d)' = Queued(d) /\ Answered(d)' = Answered(d)
  BY HandlerSteps DEF Queued, Answered
<1>3. /\ UnderWay(d)' = Reported(d)' + Queued(d)' + Answered(d)'
      /\ UnderWay(d) = Reported(d) + Queued(d) + Answered(d)
      /\ Reported(d) \in Nat /\ Queued(d) \in Nat /\ Answered(d) \in Nat
  BY <1>1, UnderWayParts, UnderWayPartsNext DEF RequestsAddUp
<1>4. outbound' = outbound \/ \E s \in OutboundState : Outbound(c, s)
  BY HandlerSteps DEF OutboundState
<1>5. d # c => outbound'[d] = outbound[d]
  BY <1>4 DEF TypeOK, Outbound
<1>6. Open(d)
  BY <1>5, HandlerSteps DEF Open
<1>7. UnderWay(d) = IF outbound[d] = "requested" THEN 1 ELSE 0
  BY <1>6 DEF OneRequestPerCycle
<1>8. Reported(d)' = Reported(d) + (IF outbound'[d] = "requested" THEN 1 ELSE 0)
                     - (IF outbound[d] = "requested" THEN 1 ELSE 0)
  <2>1. \A e \in OutEvent \ RequestEvents : Report(c, e) => Reported(d)' = Reported(d)
    BY ReportCounts, <1>3
  <2>2. events' = events => Reported(d)' = Reported(d)
    BY DEF Reported
  <2>3. CASE d # c
    <3>1. \A e \in OutEvent : Report(c, e) => Reported(d)' = Reported(d)
      BY ReportCounts, <1>3, <2>3
    <3>2. Reported(d)' = Reported(d)
      BY <3>1, <2>2, HandlerSteps DEF OutEvent
    <3> QED
      BY <3>2, <2>3, <1>5, <1>3
  <2>4. CASE d = c
    <3>1. \A s \in OutboundState : Outbound(c, s) => outbound'[c] = s
      BY DEF TypeOK, Outbound
    <3>2. CASE /\ outbound[c] = "requesting" /\ Outbound(c, "requested")
               /\ Report(c, "RequestLocalHeartbeatPayloadToSend")
      <4>1. outbound'[c] = "requested"
        BY <3>1, <3>2 DEF OutboundState
      <4>2. Reported(d)' = Reported(d) + 1
        BY <2>4, <3>2, ReportCounts DEF RequestEvents, OutEvent
      <4> QED
        BY <2>4, <3>2, <4>1, <4>2, <1>3
    <3>3. CASE ~ /\ outbound[c] = "requesting" /\ Outbound(c, "requested")
                 /\ Report(c, "RequestLocalHeartbeatPayloadToSend")
      <4>1. Reported(d)' = Reported(d)
        BY <2>1, <2>2, <3>3, HandlerSteps DEF OutEvent, RequestEvents
      <4>2. outbound'[c] = "requested" <=> outbound[c] = "requested"
        BY <3>1, <3>3, HandlerSteps DEF OutboundState
      <4> QED
        BY <2>4, <4>1, <4>2, <1>3
    <3> QED
      BY <3>2, <3>3
  <2> QED
    BY <2>3, <2>4
<1> QED
  BY <1>2, <1>3, <1>7, <1>8

\* A request that is taken from a handler's events is queued.
LEMMA EventKeepsRequests ==
    ASSUME TypeOK, OneRequestPerCycle, NEW c \in Conn, TakeEvent(c)
    PROVE  OneRequestPerCycle'
<1>1. TypeOK'
  BY EventTypes
<1> SUFFICES ASSUME NEW d \in Conn, Open(d)'
             PROVE  UnderWay(d)' = IF outbound'[d] = "requested" THEN 1 ELSE 0
  BY DEF OneRequestPerCycle
<1>2. outbound' = outbound /\ Answered(d)' = Answered(d)
  BY DEF TakeEvent, Answered
<1>3. /\ UnderWay(d)' = Reported(d)' + Queued(d)' + Answered(d)'
      /\ UnderWay(d) = Reported(d) + Queued(d) + Answered(d)
      /\ Reported(d) \in Nat /\ Queued(d) \in Nat /\ Answered(d) \in Nat
  BY <1>1, UnderWayParts, UnderWayPartsNext DEF RequestsAddUp
<1>4. /\ events[c] \in Seq(OutEvent) /\ pending \in Seq(HeartbeatAction)
      /\ events[c] # <<>>
  BY DEF TypeOK, TakeEvent, OnConnectionHandlerEvent
<1> DEFINE one == IF d = c /\ Head(events[c]) \in RequestEvents THEN 1 ELSE 0
<1>5. Reported(d)' = Reported(d) - one
  <2>1. events' = [events EXCEPT ![c] = Tail(@)]
    BY DEF TakeEvent, OnConnectionHandlerEvent
  <2>2. CASE d = c
    <3>1. events'[d] = Tail(events[c])
      BY <2>1, <2>2 DEF TypeOK
    <3> QED
      BY <3>1, <2>2, <1>4, PlacesTail DEF Reported
  <2>3. CASE d # c
    <3>1. events'[d] = events[d]
      BY <2>1, <2>3 DEF TypeOK
    <3> QED
      BY <3>1, <2>3, <1>3 DEF Reported
  <2> QED
    BY <2>2, <2>3
<1>6. Queued(d)' = Queued(d) + one
  <2> DEFINE req == [kind |-> "HeartbeatRequest", conn |-> c,
                     payload |-> IF c \in outdated THEN "outdated" ELSE "fresh"]
  <2>1. \A a \in HeartbeatAction :
            Queue(a) => Queued(d)' = Queued(d) + (IF a \in RequestsOf(d) THEN 1 ELSE 0)
    BY <1>4, PlacesAppend DEF Queue, Queued
  <2>2. CASE Head(events[c]) = "RequestLocalHeartbeatPayloadToSend"
    <3>1. Queue(req)
      BY <2>2 DEF TakeEvent, OnConnectionHandlerEvent
    <3>2. req \in HeartbeatAction /\ (req \in RequestsOf(d) <=> d = c)
      BY DEF HeartbeatAction, RequestsOf
    <3> QED
      BY <2>1, <2>2, <3>1, <3>2 DEF RequestEvents
  <2>3. CASE Head(events[c]) # "RequestLocalHeartbeatPayloadToSend"
    <3>1. one = 0
      BY <2>3 DEF RequestEvents
    <3>2. \/ pending' = pending
          \/ Queue([kind |-> "HeartbeatEvent", conn |-> c])
          \/ Queue([kind |-> "ShutdownIfMaxFailuresExceeded"])
      BY <2>3 DEF TakeEvent, OnConnectionHandlerEvent
    <3>3. /\ [kind |-> "HeartbeatEvent", conn |-> c] \in HeartbeatAction \ RequestsOf(d)
          /\ [kind |-> "ShutdownIfMaxFailuresExceeded"] \in HeartbeatAction \ RequestsOf(d)
      BY DEF HeartbeatAction, RequestsOf
    <3>4. pending' = pending => Queued(d)' = Queued(d)
      BY DEF Queued
    <3> QED
      BY <2>1, <3>1, <3>2, <3>3, <3>4, <1>3
  <2> QED
    BY <2>2, <2>3
<1>7. UnderWay(d) = IF outbound[d] = "requested" THEN 1 ELSE 0
  BY <1>2 DEF OneRequestPerCycle, Open
<1>8. one \in {0, 1}
  OBVIOUS
<1> HIDE DEF one
<1> QED
  BY <1>2, <1>3, <1>5, <1>6, <1>7, <1>8

\* A queued request of an open connection becomes its answer; it is the only
\* one, so there is no answer it would overwrite.
LEMMA PollKeepsRequests ==
    ASSUME TypeOK, OneRequestPerCycle, PollBehaviour
    PROVE  OneRequestPerCycle'
<1>1. TypeOK'
  BY PollTypes
<1> SUFFICES ASSUME NEW d \in Conn, Open(d)'
             PROVE  UnderWay(d)' = IF outbound'[d] = "requested" THEN 1 ELSE 0
  BY DEF OneRequestPerCycle
<1>2. outbound' = outbound /\ Reported(d)' = Reported(d) /\ Open(d)
  BY DEF PollBehaviour, Reported, Open
<1>3. /\ UnderWay(d)' = Reported(d)' + Queued(d)' + Answered(d)'
      /\ UnderWay(d) = Reported(d) + Queued(d) + Answered(d)
      /\ Reported(d) \in Nat /\ Queued(d) \in Nat /\ Answered(d) \in Nat
      /\ Queued(d)' \in Nat
  BY <1>1, UnderWayParts, UnderWayPartsNext DEF RequestsAddUp
<1>4. pending \in Seq(HeartbeatAction) /\ pending # <<>>
  BY DEF TypeOK, PollBehaviour, Poll
<1> DEFINE a == Head(pending)
           one == IF a \in RequestsOf(d) THEN 1 ELSE 0
<1>5. a \in HeartbeatAction
  BY <1>4, HeadTailProperties
<1>6. Queued(d)' = Queued(d) - one
  BY <1>4, PlacesTail DEF Queued, PollBehaviour, Poll
<1>7. UnderWay(d) = IF outbound[d] = "requested" THEN 1 ELSE 0
  BY <1>2 DEF OneRequestPerCycle
<1>8. Answered(d)' = Answered(d) + one
  <2>1. CASE a \in RequestsOf(d)
    <3>1. /\ a.kind = "HeartbeatRequest" /\ a.conn = d
          /\ a.payload \in {"fresh", "outdated"}
      BY <1>5, <2>1, ActionFields DEF RequestsOf
    <3>2. payload' = [payload EXCEPT ![d] = a.payload]
      BY <1>2, <3>1 DEF PollBehaviour, Poll
    <3>3. Answered(d)' = 1
      BY <3>1, <3>2 DEF TypeOK, Answered
    <3>4. Answered(d) = 0
      BY <2>1, <1>3, <1>6, <1>7 DEF Answered
    <3> QED
      BY <2>1, <3>3, <3>4
  <2>2. CASE a \notin RequestsOf(d)
    <3>1. a.kind # "HeartbeatRequest" \/ a.conn # d
      BY <1>5, <2>2 DEF RequestsOf
    <3>2. payload'[d] = payload[d]
      BY <3>1 DEF PollBehaviour, Poll, TypeOK
    <3> QED
      BY <1>3, <2>2, <3>2 DEF Answered
  <2> QED
    BY <2>1, <2>2
<1>9. one \in {0, 1}
  OBVIOUS
<1> HIDE DEF one
<1> QED
  BY <1>2, <1>3, <1>6, <1>7, <1>8, <1>9

\* A connection starts in a slot in which nothing is under way.
LEMMA EstablishedKeepsRequests ==
    ASSUME TypeOK, OneRequestPerCycle, NEW c \in Conn, ConnectionEstablished(c)
    PROVE  OneRequestPerCycle'
<1>1. TypeOK'
  BY LoopTypes
<1> SUFFICES ASSUME NEW d \in Conn, Open(d)'
             PROVE  UnderWay(d)' = IF outbound'[d] = "requested" THEN 1 ELSE 0
  BY DEF OneRequestPerCycle
<1>2. UnderWay(d)' = UnderWay(d)
  BY DEF ConnectionEstablished, UnderWay
<1>3. CASE d # c
  <2>1. outbound'[d] = outbound[d]
    BY <1>3 DEF TypeOK, ConnectionEstablished, Outbound
  <2> QED
    BY <1>2, <2>1 DEF OneRequestPerCycle, Open
<1>4. CASE d = c
  <2>1. outbound'[d] = "none"
    BY <1>4 DEF TypeOK, ConnectionEstablished, Outbound
  <2>2. Clear(d)
    BY <1>4 DEF ConnectionEstablished
  <2>3. Places(events[d], RequestEvents) = {}
    BY <2>2 DEF Clear, Places
  <2>4. Places(pending, RequestsOf(d)) = {}
    BY <2>2 DEF Clear, Places, RequestsOf
  <2>5. Reported(d) = 0 /\ Queued(d) = 0 /\ Answered(d) = 0
    BY <2>2, <2>3, <2>4, FS_EmptySet DEF Reported, Queued, Answered, Clear
  <2> QED
    BY <1>2, <2>1, <2>5, UnderWayParts DEF RequestsAddUp
<1> QED
  BY <1>3, <1>4

\* The answer is taken: the handler no longer waits.
LEMMA PayloadKeepsRequests ==
    ASSUME TypeOK, OneRequestPerCycle, NEW c \in Conn, TakePayload(c)
    PROVE  OneRequestPerCycle'
<1>1. TypeOK'
  BY LoopTypes
<1> SUFFICES ASSUME NEW d \in Conn, Open(d)'
             PROVE  UnderWay(d)' = IF outbound'[d] = "requested" THEN 1 ELSE 0
  BY DEF OneRequestPerCycle
<1>2. Reported(d)' = Reported(d) /\ Queued(d)' = Queued(d)
  BY DEF TakePayload, OnBehaviourEvent, Reported, Queued
<1>3. /\ UnderWay(d)' = Reported(d)' + Queued(d)' + Answered(d)'
      /\ UnderWay(d) = Reported(d) + Queued(d) + Answered(d)
      /\ Reported(d) \in Nat /\ Queued(d) \in Nat /\ Answered(d) \in Nat
  BY <1>1, UnderWayParts, UnderWayPartsNext DEF RequestsAddUp
<1>4. CASE d # c
  <2>1. outbound'[d] = outbound[d] /\ payload'[d] = payload[d]
    BY <1>4 DEF TypeOK, TakePayload, OnBehaviourEvent
  <2> QED
    BY <1>2, <1>3, <2>1 DEF OneRequestPerCycle, Open, Answered
<1>5. CASE d = c
  <2>1. payload[d] # "none" /\ payload'[d] = "none"
    BY <1>5 DEF TypeOK, TakePayload, OnBehaviourEvent
  <2>2. outbound[d] = "requested" => outbound'[d] = "sending"
    BY <1>5 DEF TypeOK, TakePayload, OnBehaviourEvent
  <2>3. outbound[d] # "requested" => outbound'[d] = outbound[d]
    BY <1>5 DEF TypeOK, TakePayload, OnBehaviourEvent
  <2>4. UnderWay(d) = IF outbound[d] = "requested" THEN 1 ELSE 0
    BY <2>2, <2>3 DEF OneRequestPerCycle, Open
  <2> QED
    BY <1>2, <1>3, <2>1, <2>2, <2>3, <2>4 DEF Answered
<1> QED
  BY <1>4, <1>5

\* A connection that closes is no longer counted.
LEMMA CloseKeepsRequests ==
    ASSUME TypeOK, OneRequestPerCycle, NEW S, CloseAll(S), UNCHANGED <<events, pending>>
    PROVE  OneRequestPerCycle'
<1> SUFFICES ASSUME NEW d \in Conn, Open(d)'
             PROVE  UnderWay(d)' = IF outbound'[d] = "requested" THEN 1 ELSE 0
  BY DEF OneRequestPerCycle
<1>1. outbound'[d] = outbound[d] /\ payload'[d] = payload[d]
  BY DEF CloseAll, Open
<1>2. UnderWay(d)' = UnderWay(d)
  BY <1>1 DEF UnderWay
<1> QED
  BY <1>1, <1>2 DEF OneRequestPerCycle, Open

LEMMA SimulationKeepsRequests ==
    ASSUME TypeOK, OneRequestPerCycle, SimulateHeartbeatFailure
    PROVE  OneRequestPerCycle'
<1> USE DEF SimulateHeartbeatFailure, TriggerHeartbeatFailure
<1>1. TypeOK'
  BY LoopTypes
<1> SUFFICES ASSUME NEW d \in Conn, Open(d)'
             PROVE  UnderWay(d)' = IF outbound'[d] = "requested" THEN 1 ELSE 0
  BY DEF OneRequestPerCycle
<1>2. Reported(d)' = Reported(d) /\ Answered(d)' = Answered(d) /\ outbound' = outbound
  BY DEF Reported, Answered
<1>3. [kind |-> "ShutdownIfMaxFailuresExceeded"] \in HeartbeatAction \ RequestsOf(d)
  BY DEF HeartbeatAction, RequestsOf
<1>4. Queued(d)' = Queued(d) + 0
  BY <1>3, PlacesAppend DEF TypeOK, Queued, Queue
<1>5. UnderWay(d)' = UnderWay(d)
  BY <1>1, <1>2, <1>4, UnderWayParts, UnderWayPartsNext DEF RequestsAddUp
<1> QED
  BY <1>2, <1>5 DEF OneRequestPerCycle, Open

LEMMA StepKeepsRequests == TypeOK /\ OneRequestPerCycle /\ [Next]_vars => OneRequestPerCycle'
<1> SUFFICES ASSUME TypeOK, OneRequestPerCycle, [Next]_vars
             PROVE  OneRequestPerCycle'
  OBVIOUS
<1>1. ASSUME NEW c \in Conn, HandlerStep(c)
      PROVE  OneRequestPerCycle'
  BY <1>1, HandlerKeepsRequests
<1>2. ASSUME NEW c \in Conn, TakePayload(c)
      PROVE  OneRequestPerCycle'
  BY <1>2, PayloadKeepsRequests
<1>3. ASSUME NEW c \in Conn, TakeEvent(c)
      PROVE  OneRequestPerCycle'
  BY <1>3, EventKeepsRequests
<1>4. ASSUME NEW c \in Conn, ConnectionEstablished(c)
      PROVE  OneRequestPerCycle'
  BY <1>4, EstablishedKeepsRequests
<1>5. ASSUME NEW c \in Conn, ConnectionClosed(c)
      PROVE  OneRequestPerCycle'
  BY <1>5, CloseKeepsRequests DEF ConnectionClosed
<1>6. ASSUME NEW c \in Conn, LinkDown(c) \/ LinkUp(c)
      PROVE  OneRequestPerCycle'
  BY <1>6 DEF LinkDown, LinkUp, OneRequestPerCycle, UnderWay, Open
<1>7. CASE PollBehaviour
  BY <1>7, PollKeepsRequests
<1>8. CASE SimulateHeartbeatFailure
  BY <1>8, SimulationKeepsRequests
<1>9. CASE InternalHeartbeatFailure
  BY <1>9, CloseKeepsRequests DEF InternalHeartbeatFailure
<1>10. CASE TriggerRestart
  BY <1>10 DEF TriggerRestart, OneRequestPerCycle, UnderWay, Open
<1>11. CASE Restart
  BY <1>11 DEF Restart, CloseAll, OneRequestPerCycle, Open
<1>12. CASE UNCHANGED vars
  BY <1>12 DEF vars, OneRequestPerCycle, UnderWay, Open
<1> QED
  BY <1>1, <1>2, <1>3, <1>4, <1>5, <1>6, <1>7, <1>8, <1>9, <1>10, <1>11, <1>12
  DEF Next, HandlerStep

\* An open connection has exactly one request for a payload under way when its
\* handler waits for one, and none when it does not: for any number of
\* connections that share the behaviour's queue, none is lost in it or made
\* twice (heartbeat_handler.rs, OutboundState::RequestingTeeHeartbeat).
THEOREM RequestsNeitherLostNorRepeated == Spec => []OneRequestPerCycle
<1>1. Init => OneRequestPerCycle
  BY DEF Init, OneRequestPerCycle, Open
<1> QED
  BY <1>1, TypeCorrect, StepKeepsRequests, PTL DEF Spec

-----------------------------------------------------------------------------
(* The age of the attestation.                                             *)

\* A handler for which the attestation is too old has a refresh waiting, and
\* no request before it.
RefreshAhead ==
    \A c \in outdated : \E j \in DOMAIN events[c] :
        /\ events[c][j] = "RefreshLocalTeeAttestation"
        /\ \A i \in 1..(j - 1) : events[c][i] # "RequestLocalHeartbeatPayloadToSend"

\* Every payload on its way is new enough for the handler that asked for it.
AnswersFresh ==
    /\ \A i \in DOMAIN pending :
          pending[i].kind = "HeartbeatRequest" => pending[i].payload = "fresh"
    /\ HeartbeatsFreshlyAttested

LEMMA HandlerKeepsRefresh ==
    ASSUME TypeOK, OneRequestPerCycle, RefreshAhead, AnswersFresh,
           NEW c \in Conn, HandlerStep(c)
    PROVE  RefreshAhead' /\ AnswersFresh'
<1>1. AnswersFresh'
  BY HandlerSteps DEF AnswersFresh, HeartbeatsFreshlyAttested
<1> SUFFICES ASSUME NEW d \in outdated'
             PROVE  \E j \in DOMAIN events'[d] :
                       /\ events'[d][j] = "RefreshLocalTeeAttestation"
                       /\ \A i \in 1..(j - 1) :
                             events'[d][i] # "RequestLocalHeartbeatPayloadToSend"
  BY <1>1 DEF RefreshAhead
<1>2. d \in Conn /\ events[d] \in Seq(OutEvent)
  BY HandlerTypes DEF TypeOK
<1>3. /\ Len(events[d]) \in Nat /\ DOMAIN events[d] = 1..Len(events[d])
      /\ \A e \in OutEvent :
            /\ DOMAIN Append(events[d], e) = 1..(Len(events[d]) + 1)
            /\ \A i \in 1..Len(events[d]) : Append(events[d], e)[i] = events[d][i]
            /\ Append(events[d], e)[Len(events[d]) + 1] = e
  BY <1>2, LenProperties, AppendProperties
<1>4. events'[d] = events[d] \/ \E e \in OutEvent : events'[d] = Append(events[d], e)
  <2>1. events' = events \/ \E e \in OutEvent : Report(c, e)
    BY HandlerSteps DEF OutEvent
  <2> QED
    BY <1>2, <2>1 DEF TypeOK, Report
<1>5. CASE d \in outdated
  <2>1. PICK j \in DOMAIN events[d] :
            /\ events[d][j] = "RefreshLocalTeeAttestation"
            /\ \A i \in 1..(j - 1) : events[d][i] # "RequestLocalHeartbeatPayloadToSend"
    BY <1>5 DEF RefreshAhead
  <2>2. j \in DOMAIN events'[d] /\ \A i \in 1..j : events'[d][i] = events[d][i]
    BY <1>3, <1>4
  <2> QED
    BY <1>3, <2>1, <2>2
<1>6. CASE d \notin outdated
  <2>1. d = c /\ outbound[c] = "idle" /\ outbound'[c] # "idle"
    BY <1>6, HandlerSteps DEF Observe
  <2>2. events' = [events EXCEPT ![c] = Append(@, "RefreshLocalTeeAttestation")]
    BY <2>1, HandlerSteps DEF Report, TypeOK
  <2>3. events'[d] = Append(events[d], "RefreshLocalTeeAttestation")
    BY <1>2, <2>1, <2>2 DEF TypeOK
  <2>4. \A i \in 1..Len(events[d]) : events[d][i] # "RequestLocalHeartbeatPayloadToSend"
    <3>1. UnderWay(d) = 0
      BY <2>1, HandlerSteps DEF OneRequestPerCycle
    <3>2. Reported(d) = 0
      BY <1>2, <3>1, UnderWayParts DEF RequestsAddUp
    <3>3. Places(events[d], RequestEvents) = {}
      BY <1>2, <3>2, PlacesFinite, FS_EmptySet DEF Reported
    <3> QED
      BY <1>3, <3>3 DEF Places, RequestEvents
  <2>5. "RefreshLocalTeeAttestation" \in OutEvent
    BY DEF OutEvent
  <2>6. Len(events[d]) + 1 \in DOMAIN events'[d]
    BY <1>3, <2>3, <2>5
  <2> WITNESS Len(events[d]) + 1 \in DOMAIN events'[d]
  <2> QED
    BY <1>3, <2>3, <2>4, <2>5
<1> QED
  BY <1>5, <1>6

\* A refresh makes the payload new enough for every handler; a request that is
\* taken has no refresh before it, so its handler does not need one.
LEMMA EventKeepsRefresh ==
    ASSUME TypeOK, RefreshAhead, AnswersFresh, NEW c \in Conn, TakeEvent(c)
    PROVE  RefreshAhead' /\ AnswersFresh'
<1> DEFINE e == Head(events[c])
<1>1. /\ events[c] \in Seq(OutEvent) /\ events[c] # <<>>
      /\ events' = [events EXCEPT ![c] = Tail(@)]
      /\ outdated' = IF e = "RefreshLocalTeeAttestation" THEN {} ELSE outdated
  BY DEF TypeOK, TakeEvent, OnConnectionHandlerEvent
<1>2. /\ Len(events[c]) \in Nat \ {0} /\ DOMAIN events[c] = 1..Len(events[c])
      /\ e = events[c][1]
      /\ DOMAIN Tail(events[c]) = 1..(Len(events[c]) - 1)
      /\ \A i \in 1..(Len(events[c]) - 1) : Tail(events[c])[i] = events[c][i + 1]
  BY <1>1, LenProperties, HeadTailProperties, EmptySeq
<1>3. RefreshAhead'
  <2> SUFFICES ASSUME NEW d \in outdated'
               PROVE  \E j \in DOMAIN events'[d] :
                         /\ events'[d][j] = "RefreshLocalTeeAttestation"
                         /\ \A i \in 1..(j - 1) :
                               events'[d][i] # "RequestLocalHeartbeatPayloadToSend"
    BY DEF RefreshAhead
  <2>1. d \in outdated /\ d \in Conn /\ e # "RefreshLocalTeeAttestation"
    BY <1>1 DEF TypeOK
  <2>2. PICK j \in DOMAIN events[d] :
            /\ events[d][j] = "RefreshLocalTeeAttestation"
            /\ \A i \in 1..(j - 1) : events[d][i] # "RequestLocalHeartbeatPayloadToSend"
    BY <2>1 DEF RefreshAhead
  <2>3. CASE d # c
    <3>1. events'[d] = events[d]
      BY <1>1, <2>1, <2>3 DEF TypeOK
    <3> QED
      BY <2>2, <3>1
  <2>4. CASE d = c
    <3>1. events'[d] = Tail(events[c])
      BY <1>1, <2>4 DEF TypeOK
    <3>2. j \in 2..Len(events[c])
      BY <1>2, <2>1, <2>2, <2>4
    <3>3. j - 1 \in DOMAIN events'[d]
      BY <1>2, <3>1, <3>2
    <3> WITNESS j - 1 \in DOMAIN events'[d]
    <3> QED
      BY <1>2, <2>2, <2>4, <3>1, <3>2
  <2> QED
    BY <2>3, <2>4
<1>4. e = "RequestLocalHeartbeatPayloadToSend" => c \notin outdated
  BY <1>2 DEF RefreshAhead
<1>5. AnswersFresh'
  <2>1. \A a \in HeartbeatAction :
           Queue(a) /\ (a.kind = "HeartbeatRequest" => a.payload = "fresh")
           => \A i \in DOMAIN pending' :
                 pending'[i].kind = "HeartbeatRequest" => pending'[i].payload = "fresh"
    BY LenProperties, AppendProperties DEF Queue, AnswersFresh, TypeOK
  <2>2. /\ [kind |-> "HeartbeatEvent", conn |-> c] \in HeartbeatAction
        /\ [kind |-> "HeartbeatRequest", conn |-> c, payload |-> "fresh"] \in HeartbeatAction
        /\ [kind |-> "ShutdownIfMaxFailuresExceeded"] \in HeartbeatAction
    BY DEF HeartbeatAction
  <2>3. \/ pending' = pending
        \/ Queue([kind |-> "HeartbeatEvent", conn |-> c])
        \/ Queue([kind |-> "HeartbeatRequest", conn |-> c, payload |-> "fresh"])
        \/ Queue([kind |-> "ShutdownIfMaxFailuresExceeded"])
    BY <1>4 DEF TakeEvent, OnConnectionHandlerEvent
  <2>4. \A i \in DOMAIN pending' :
           pending'[i].kind = "HeartbeatRequest" => pending'[i].payload = "fresh"
    BY <2>1, <2>2, <2>3 DEF AnswersFresh
  <2> QED
    BY <2>4 DEF AnswersFresh, HeartbeatsFreshlyAttested, TakeEvent
<1> QED
  BY <1>3, <1>5

LEMMA PollKeepsRefresh ==
    ASSUME TypeOK, RefreshAhead, AnswersFresh, PollBehaviour
    PROVE  RefreshAhead' /\ AnswersFresh'
<1> USE DEF PollBehaviour, Poll
<1>1. RefreshAhead'
  BY DEF RefreshAhead
<1>2. pending \in Seq(HeartbeatAction) /\ pending # <<>> /\ pending' = Tail(pending)
  BY DEF TypeOK
<1>3. /\ Len(pending) \in Nat \ {0} /\ DOMAIN pending = 1..Len(pending)
      /\ Head(pending) = pending[1]
      /\ DOMAIN Tail(pending) = 1..(Len(pending) - 1)
      /\ \A i \in 1..(Len(pending) - 1) : Tail(pending)[i] = pending[i + 1]
  BY <1>2, LenProperties, HeadTailProperties, EmptySeq
<1>4. \A i \in DOMAIN pending' :
         pending'[i].kind = "HeartbeatRequest" => pending'[i].payload = "fresh"
  BY <1>2, <1>3 DEF AnswersFresh
<1>5. Head(pending).kind = "HeartbeatRequest" => Head(pending).payload = "fresh"
  BY <1>3 DEF AnswersFresh
<1>6. HeartbeatsFreshlyAttested'
  BY <1>5 DEF AnswersFresh, HeartbeatsFreshlyAttested, TypeOK
<1> QED
  BY <1>1, <1>4, <1>6 DEF AnswersFresh

LEMMA LoopKeepsRefresh ==
    ASSUME TypeOK, RefreshAhead, AnswersFresh,
           \/ \E c \in Conn : \/ TakePayload(c) \/ ConnectionEstablished(c)
                              \/ ConnectionClosed(c) \/ LinkDown(c) \/ LinkUp(c)
           \/ SimulateHeartbeatFailure \/ InternalHeartbeatFailure
           \/ TriggerRestart \/ Restart
    PROVE  RefreshAhead' /\ AnswersFresh'
<1>1. ASSUME NEW c \in Conn, TakePayload(c)
      PROVE  RefreshAhead' /\ AnswersFresh'
  BY <1>1 DEF TakePayload, OnBehaviourEvent, RefreshAhead, AnswersFresh,
              HeartbeatsFreshlyAttested, TypeOK
<1>2. ASSUME NEW c \in Conn, ConnectionEstablished(c)
      PROVE  RefreshAhead' /\ AnswersFresh'
  BY <1>2 DEF ConnectionEstablished, RefreshAhead, AnswersFresh, HeartbeatsFreshlyAttested
<1>3. ASSUME NEW c \in Conn, ConnectionClosed(c)
      PROVE  RefreshAhead' /\ AnswersFresh'
  BY <1>3 DEF ConnectionClosed, CloseAll, RefreshAhead, AnswersFresh, HeartbeatsFreshlyAttested
<1>4. ASSUME NEW c \in Conn, LinkDown(c) \/ LinkUp(c)
      PROVE  RefreshAhead' /\ AnswersFresh'
  BY <1>4 DEF LinkDown, LinkUp, RefreshAhead, AnswersFresh, HeartbeatsFreshlyAttested
<1>5. CASE SimulateHeartbeatFailure
  <2> USE DEF SimulateHeartbeatFailure, TriggerHeartbeatFailure
  <2>1. pending' = Append(pending, [kind |-> "ShutdownIfMaxFailuresExceeded"])
    BY <1>5 DEF Queue
  <2>2. \A i \in DOMAIN pending' :
           pending'[i].kind = "HeartbeatRequest" => pending'[i].payload = "fresh"
    BY <2>1, LenProperties, AppendProperties DEF AnswersFresh, TypeOK, HeartbeatAction
  <2> QED
    BY <1>5, <2>2 DEF RefreshAhead, AnswersFresh, HeartbeatsFreshlyAttested
<1>6. CASE InternalHeartbeatFailure
  BY <1>6 DEF InternalHeartbeatFailure, CloseAll, RefreshAhead, AnswersFresh,
              HeartbeatsFreshlyAttested
<1>7. CASE TriggerRestart
  BY <1>7 DEF TriggerRestart, RefreshAhead, AnswersFresh, HeartbeatsFreshlyAttested
<1>8. CASE Restart
  BY <1>8 DEF Restart, CloseAll, RefreshAhead, AnswersFresh, HeartbeatsFreshlyAttested
<1> QED
  BY <1>1, <1>2, <1>3, <1>4, <1>5, <1>6, <1>7, <1>8

\* The payload a handler is given after its idle time carries an attestation
\* made after it, whichever handlers refresh, ask, fail or close in between
\* (heartbeat_handler.rs: "generate new TEE attestation").
THEOREM PayloadsFreshlyAttested == Spec => []HeartbeatsFreshlyAttested
<1> DEFINE I == RefreshAhead /\ AnswersFresh
<1>1. Init => I
  BY DEF Init, RefreshAhead, AnswersFresh, HeartbeatsFreshlyAttested
<1>2. TypeOK /\ OneRequestPerCycle /\ I /\ [Next]_vars => I'
  <2>1. I /\ UNCHANGED vars => I'
    BY DEF vars, RefreshAhead, AnswersFresh, HeartbeatsFreshlyAttested
  <2> QED
    BY <2>1, HandlerKeepsRefresh, EventKeepsRefresh, PollKeepsRefresh, LoopKeepsRefresh
    DEF Next, HandlerStep
<1>3. I => HeartbeatsFreshlyAttested
  BY DEF AnswersFresh
<1> QED
  BY <1>1, <1>2, <1>3, TypeCorrect, RequestsNeitherLostNorRepeated, PTL DEF Spec

-----------------------------------------------------------------------------
(* The count of failures.                                                  *)

\* The reports of a failure that no one has taken yet, of all handlers.
FailureReports ==
    UNION {{c} \X Places(events[c], {"IncrementFailureCount"}) : c \in Conn}

\* Until a stream fails to open or a failure is simulated, no handler repeats
\* a report, and what is counted and what is still to be counted are failures
\* that happened.
FailuresCounted ==
    causes = {} =>
        /\ \A c \in Conn : ~dialFailed[c]
        /\ \/ failures > MaxFailures
           \/ /\ ~ShuttingDown
              /\ IsFiniteSet(FailureReports)
              /\ failCount + Cardinality(FailureReports) <= failures

\* The reports, one by one.
LEMMA ReportPairs ==
    ASSUME NEW p
    PROVE  p \in FailureReports <=>
              \E c \in Conn : \E i \in DOMAIN events[c] :
                 p = <<c, i>> /\ events[c][i] = "IncrementFailureCount"
  BY DEF FailureReports, Places

\* A handler's report adds one, and only if it is of a failure.
LEMMA ReportAddsOne ==
    ASSUME TypeOK, NEW c \in Conn, NEW e \in OutEvent, Report(c, e),
           IsFiniteSet(FailureReports)
    PROVE  /\ IsFiniteSet(FailureReports')
           /\ Cardinality(FailureReports') = Cardinality(FailureReports)
                 + (IF e = "IncrementFailureCount" THEN 1 ELSE 0)
<1>1. /\ events[c] \in Seq(OutEvent)
      /\ events' = [d \in Conn |-> IF d = c THEN Append(events[c], e) ELSE events[d]]
  BY DEF TypeOK, Report
<1>2. /\ Len(events[c]) \in Nat /\ DOMAIN events[c] = 1..Len(events[c])
      /\ DOMAIN Append(events[c], e) = 1..(Len(events[c]) + 1)
      /\ \A i \in 1..(Len(events[c]) + 1) :
            Append(events[c], e)[i] = IF i = Len(events[c]) + 1 THEN e ELSE events[c][i]
  BY <1>1, LenProperties, AppendProperties
<1> DEFINE new == <<c, Len(events[c]) + 1>>
<1>3. new \notin FailureReports
  BY <1>2, ReportPairs
<1>4. Cardinality(FailureReports) \in Nat
  BY FS_CardinalityType
<1>5. FailureReports' = IF e = "IncrementFailureCount" THEN FailureReports \cup {new}
                                                       ELSE FailureReports
  <2>1. FailureReports' = UNION {{d} \X Places(events'[d], {"IncrementFailureCount"}) : d \in Conn}
    BY DEF FailureReports
  <2>2. \A p : p \in FailureReports' <=>
              \E d \in Conn : \E i \in DOMAIN events'[d] :
                 p = <<d, i>> /\ events'[d][i] = "IncrementFailureCount"
    BY <2>1 DEF Places
  <2>3. \A p : p \in FailureReports' <=>
              \/ p \in FailureReports
              \/ p = new /\ e = "IncrementFailureCount"
    BY <1>1, <1>2, <2>2, ReportPairs
  <2> QED
    BY <2>3
<1> HIDE DEF new
<1> QED
  BY <1>3, <1>4, <1>5, FS_AddElement

\* Taking an event gives up one report, and only if it is of a failure.
LEMMA EventTakesOne ==
    ASSUME TypeOK, NEW c \in Conn, events[c] # <<>>,
           events' = [events EXCEPT ![c] = Tail(@)], IsFiniteSet(FailureReports)
    PROVE  /\ IsFiniteSet(FailureReports')
           /\ Cardinality(FailureReports') = Cardinality(FailureReports)
                 - (IF Head(events[c]) = "IncrementFailureCount" THEN 1 ELSE 0)
<1>1. /\ events[c] \in Seq(OutEvent)
      /\ events' = [d \in Conn |-> IF d = c THEN Tail(events[c]) ELSE events[d]]
  BY DEF TypeOK
<1>2. /\ Len(events[c]) \in Nat \ {0} /\ DOMAIN events[c] = 1..Len(events[c])
      /\ Head(events[c]) = events[c][1]
      /\ DOMAIN Tail(events[c]) = 1..(Len(events[c]) - 1)
      /\ \A i \in 1..(Len(events[c]) - 1) : Tail(events[c])[i] = events[c][i + 1]
  BY <1>1, LenProperties, HeadTailProperties, EmptySeq
<1> DEFINE rest == FailureReports \ {<<c, 1>>}
           up == [p \in rest |-> IF p[1] = c THEN <<c, p[2] - 1>> ELSE p]
<1>3. /\ IsFiniteSet(rest)
      /\ Cardinality(rest) = Cardinality(FailureReports)
            - (IF Head(events[c]) = "IncrementFailureCount" THEN 1 ELSE 0)
  <2>1. <<c, 1>> \in FailureReports <=> Head(events[c]) = "IncrementFailureCount"
    BY <1>2, ReportPairs
  <2>2. Cardinality(FailureReports) \in Nat
    BY FS_CardinalityType
  <2> QED
    BY <2>1, <2>2, FS_RemoveElement
<1>4. \A p : p \in FailureReports' <=>
            \E d \in Conn : \E i \in DOMAIN events'[d] :
               p = <<d, i>> /\ events'[d][i] = "IncrementFailureCount"
  <2>1. FailureReports' = UNION {{d} \X Places(events'[d], {"IncrementFailureCount"}) : d \in Conn}
    BY DEF FailureReports
  <2> QED
    BY <2>1 DEF Places
<1>5. \A p \in rest : up[p] \in FailureReports'
  <2> SUFFICES ASSUME NEW p \in rest
               PROVE  up[p] \in FailureReports'
    OBVIOUS
  <2>1. PICK d \in Conn : \E i \in DOMAIN events[d] :
            p = <<d, i>> /\ events[d][i] = "IncrementFailureCount"
    BY ReportPairs
  <2>2. PICK i \in DOMAIN events[d] :
            p = <<d, i>> /\ events[d][i] = "IncrementFailureCount"
    BY <2>1
  <2>3. CASE d = c
    <3>1. i \in 2..Len(events[c])
      BY <1>2, <2>2, <2>3
    <3>2. up[p] = <<c, i - 1>>
      BY <2>2, <2>3
    <3>3. i - 1 \in DOMAIN events'[c] /\ events'[c][i - 1] = "IncrementFailureCount"
      BY <1>1, <1>2, <2>2, <2>3, <3>1
    <3> QED
      BY <1>4, <3>2, <3>3
  <2>4. CASE d # c
    <3>1. up[p] = p
      BY <2>2, <2>4
    <3>2. i \in DOMAIN events'[d] /\ events'[d][i] = "IncrementFailureCount"
      BY <1>1, <2>2, <2>4
    <3> QED
      BY <1>4, <2>2, <3>1, <3>2
  <2> QED
    BY <2>3, <2>4
<1>6. \A p, q \in rest : up[p] = up[q] => p = q
  <2> SUFFICES ASSUME NEW p \in rest, NEW q \in rest, up[p] = up[q]
               PROVE  p = q
    OBVIOUS
  <2>1. PICK d, i : d \in Conn /\ p = <<d, i>> /\ i \in DOMAIN events[d]
    BY ReportPairs
  <2>2. PICK g, k : g \in Conn /\ q = <<g, k>> /\ k \in DOMAIN events[g]
    BY ReportPairs
  <2>3. /\ up[p][1] = d /\ up[p][2] = IF d = c THEN i - 1 ELSE i
        /\ up[q][1] = g /\ up[q][2] = IF g = c THEN k - 1 ELSE k
    BY <2>1, <2>2
  <2> HIDE DEF up
  <2>4. d = g
    BY <2>3
  <2>5. i = k
    <3>1. i \in Nat /\ k \in Nat
      BY <2>1, <2>2, LenProperties DEF TypeOK
    <3> QED
      BY <3>1, <2>3, <2>4
  <2> QED
    BY <2>1, <2>2, <2>4, <2>5
<1>7. \A r \in FailureReports' : \E p \in rest : up[p] = r
  <2> SUFFICES ASSUME NEW r \in FailureReports'
               PROVE  \E p \in rest : up[p] = r
    OBVIOUS
  <2>1. PICK d, i :
            /\ d \in Conn /\ i \in DOMAIN events'[d]
            /\ r = <<d, i>> /\ events'[d][i] = "IncrementFailureCount"
    BY <1>4
  <2>2. CASE d = c
    <3>1. i \in 1..(Len(events[c]) - 1) /\ events[c][i + 1] = "IncrementFailureCount"
      BY <1>1, <1>2, <2>1, <2>2
    <3>2. <<c, i + 1>> \in rest
      BY <1>2, <3>1, ReportPairs
    <3>3. up[<<c, i + 1>>] = <<c, i>>
      BY <3>1, <3>2
    <3> QED
      BY <2>1, <2>2, <3>2, <3>3
  <2>3. CASE d # c
    <3>1. r \in rest
      BY <1>1, <2>1, <2>3, ReportPairs
    <3>2. up[r] = r
      BY <2>1, <2>3, <3>1
    <3> QED
      BY <3>1, <3>2
  <2> QED
    BY <2>2, <2>3
<1>8. up \in [rest -> FailureReports']
  BY <1>5
<1> HIDE DEF rest, up
<1>9. up \in Bijection(rest, FailureReports')
  BY <1>6, <1>7, <1>8, Fun_IsBij
<1> QED
  BY <1>3, <1>9, FS_Bijection DEF ExistsBijection

\* A failed send is one failure and one report.
LEMMA HandlerKeepsCount ==
    ASSUME TypeOK, FailuresCounted, NEW c \in Conn, HandlerStep(c)
    PROVE  FailuresCounted'
<1> SUFFICES ASSUME causes' = {}
             PROVE  /\ \A d \in Conn : ~dialFailed'[d]
                    /\ \/ failures' > MaxFailures
                       \/ /\ ~ShuttingDown'
                          /\ IsFiniteSet(FailureReports')
                          /\ failCount' + Cardinality(FailureReports') <= failures'
  BY DEF FailuresCounted
<1>1. Observe(c)
  BY HandlerSteps
<1>2. causes = {} /\ ~(outbound[c] = "negotiating" /\ outbound'[c] = "none")
  BY <1>1 DEF Observe
<1>3. \A s \in OutboundState : Outbound(c, s) => outbound'[c] = s
  BY DEF TypeOK, Outbound
<1>4. dialFailed' = dialFailed /\ \A d \in Conn : ~dialFailed[d]
  BY <1>2, <1>3, HandlerSteps DEF FailuresCounted, OutboundState
<1>5. failures \in Nat /\ MaxFailures \in Nat /\ failCount \in Nat
  BY CountsAssumption DEF TypeOK
<1>6. CASE failures > MaxFailures
  BY <1>1, <1>4, <1>5, <1>6 DEF Observe
<1>7. CASE failures <= MaxFailures
  <2>1. /\ ~ShuttingDown /\ IsFiniteSet(FailureReports)
        /\ failCount + Cardinality(FailureReports) <= failures
    BY <1>2, <1>5, <1>7 DEF FailuresCounted
  <2>2. ~ShuttingDown' /\ failCount' = failCount
    BY <2>1, HandlerSteps DEF ShuttingDown
  <2>3. Cardinality(FailureReports) \in Nat
    BY <2>1, FS_CardinalityType
  <2>4. CASE outbound[c] = "sending" /\ outbound'[c] = "none"
    <3>1. Report(c, "IncrementFailureCount")
      BY <2>4, <1>3, HandlerSteps DEF OutboundState
    <3>2. /\ IsFiniteSet(FailureReports')
          /\ Cardinality(FailureReports') = Cardinality(FailureReports) + 1
      BY <3>1, <2>1, ReportAddsOne DEF OutEvent
    <3>3. failures' = failures + 1
      BY <1>1, <1>7, <2>4 DEF Observe
    <3> QED
      BY <1>4, <1>5, <2>1, <2>2, <2>3, <3>2, <3>3
  <2>5. CASE ~(outbound[c] = "sending" /\ outbound'[c] = "none")
    <3>1. \/ FailureReports' = FailureReports
          \/ \E e \in OutEvent \ {"IncrementFailureCount"} : Report(c, e)
      BY <2>5, <1>3, <1>4, HandlerSteps DEF OutboundState, OutEvent, FailureReports
    <3>2. /\ IsFiniteSet(FailureReports')
          /\ Cardinality(FailureReports') = Cardinality(FailureReports)
      BY <3>1, <2>1, <2>3, ReportAddsOne
    <3>3. failures' = failures
      BY <1>1, <1>2, <2>5 DEF Observe
    <3> QED
      BY <1>4, <2>1, <2>2, <3>2, <3>3
  <2> QED
    BY <2>4, <2>5
<1> QED
  BY <1>5, <1>6, <1>7

LEMMA EventKeepsCount ==
    ASSUME TypeOK, FailuresCounted, NEW c \in Conn, TakeEvent(c)
    PROVE  FailuresCounted'
<1> SUFFICES ASSUME causes' = {}
             PROVE  /\ \A d \in Conn : ~dialFailed'[d]
                    /\ \/ failures' > MaxFailures
                       \/ /\ ~ShuttingDown'
                          /\ IsFiniteSet(FailureReports')
                          /\ failCount' + Cardinality(FailureReports') <= failures'
  BY DEF FailuresCounted
<1>1. /\ causes' = causes /\ dialFailed' = dialFailed /\ failures' = failures
      /\ ShuttingDown' = ShuttingDown
      /\ events[c] # <<>> /\ events' = [events EXCEPT ![c] = Tail(@)]
  BY DEF TakeEvent, OnConnectionHandlerEvent, ShuttingDown
<1>2. failures \in Nat /\ failCount \in Nat /\ CountMax \in Nat
  BY CountsAssumption DEF TypeOK
<1>3. CASE failures > MaxFailures
  BY <1>1, <1>3 DEF FailuresCounted
<1>4. CASE ~(failures > MaxFailures)
  <2>1. /\ ~ShuttingDown /\ IsFiniteSet(FailureReports)
        /\ failCount + Cardinality(FailureReports) <= failures
    BY <1>1, <1>4 DEF FailuresCounted
  <2>2. /\ IsFiniteSet(FailureReports')
        /\ Cardinality(FailureReports') = Cardinality(FailureReports)
              - (IF Head(events[c]) = "IncrementFailureCount" THEN 1 ELSE 0)
    BY <1>1, <2>1, EventTakesOne
  <2>3. Cardinality(FailureReports) \in Nat
    BY <2>1, FS_CardinalityType
  <2>4. failCount' + Cardinality(FailureReports') <= failCount + Cardinality(FailureReports)
    <3>1. CASE Head(events[c]) = "IncrementFailureCount"
      <4>1. failCount' <= failCount + 1 /\ failCount' \in Nat
        BY <3>1, <1>2 DEF TakeEvent, OnConnectionHandlerEvent, SaturatingAdd, TypeOK
      <4> QED
        BY <3>1, <4>1, <1>2, <2>2, <2>3
    <3>2. CASE Head(events[c]) # "IncrementFailureCount"
      <4>1. failCount' = failCount \/ failCount' = 0
        BY <3>2 DEF TakeEvent, OnConnectionHandlerEvent
      <4> QED
        BY <3>2, <4>1, <1>2, <2>2, <2>3
    <3> QED
      BY <3>1, <3>2
  <2>5. failCount' \in Nat /\ Cardinality(FailureReports') \in Nat
    BY <2>2, FS_CardinalityType, EventTypes DEF TypeOK
  <2> QED
    BY <1>1, <1>2, <2>1, <2>2, <2>3, <2>4, <2>5 DEF FailuresCounted
<1> QED
  BY <1>3, <1>4

\* The check signals only when the count, and so the failures, are too many.
LEMMA PollKeepsCount ==
    ASSUME TypeOK, FailuresCounted, PollBehaviour
    PROVE  FailuresCounted'
<1>1. /\ causes' = causes /\ dialFailed' = dialFailed /\ failures' = failures
      /\ failCount' = failCount /\ FailureReports' = FailureReports /\ loop' = loop
      /\ signals' = signals \/ failCount > MaxFailures
  BY DEF PollBehaviour, Poll, FailureReports
<1>2. failures \in Nat /\ failCount \in Nat /\ MaxFailures \in Nat
  BY CountsAssumption DEF TypeOK
<1>3. CASE failCount > MaxFailures /\ causes = {}
  <2>1. failures > MaxFailures
    BY <1>2, <1>3, FS_CardinalityType DEF FailuresCounted
  <2> QED
    BY <1>1, <1>3, <2>1 DEF FailuresCounted
<1>4. CASE ~(failCount > MaxFailures /\ causes = {})
  BY <1>1, <1>4 DEF FailuresCounted, ShuttingDown
<1> QED
  BY <1>3, <1>4

LEMMA LoopKeepsCount ==
    ASSUME TypeOK, FailuresCounted,
           \/ \E c \in Conn : \/ TakePayload(c) \/ ConnectionEstablished(c)
                              \/ ConnectionClosed(c) \/ LinkDown(c) \/ LinkUp(c)
           \/ SimulateHeartbeatFailure \/ InternalHeartbeatFailure
           \/ TriggerRestart \/ Restart
    PROVE  FailuresCounted'
<1>1. ASSUME NEW c \in Conn,
             \/ TakePayload(c) \/ ConnectionEstablished(c) \/ LinkDown(c) \/ LinkUp(c)
      PROVE  FailuresCounted'
  BY <1>1 DEF TakePayload, OnBehaviourEvent, ConnectionEstablished, LinkDown, LinkUp,
              FailuresCounted, ShuttingDown, FailureReports
<1>2. ASSUME NEW c \in Conn, ConnectionClosed(c)
      PROVE  FailuresCounted'
  BY <1>2 DEF ConnectionClosed, CloseAll, FailuresCounted, ShuttingDown, FailureReports
<1>3. CASE SimulateHeartbeatFailure
  BY <1>3 DEF SimulateHeartbeatFailure, TriggerHeartbeatFailure, FailuresCounted
<1>4. CASE InternalHeartbeatFailure
  <2>1. ShuttingDown
    BY <1>4 DEF InternalHeartbeatFailure, ShuttingDown
  <2> QED
    BY <1>4, <2>1 DEF InternalHeartbeatFailure, CloseAll, FailuresCounted
<1>5. CASE TriggerRestart
  <2>1. ShuttingDown
    BY <1>5 DEF TriggerRestart, ShuttingDown
  <2> QED
    BY <1>5, <2>1 DEF TriggerRestart, FailuresCounted
<1>6. CASE Restart
  <2>1. \A c \in Conn : events'[c] = <<>>
    BY <1>6 DEF Restart
  <2>2. FailureReports' = {}
    BY <2>1 DEF FailureReports, Places
  <2>3. ~ShuttingDown' /\ failCount' = 0 /\ failures' = 0
    BY <1>6 DEF Restart, ShuttingDown
  <2>4. \A c \in Conn : ~dialFailed'[c]
    BY <1>6 DEF Restart, CloseAll
  <2> QED
    BY <2>2, <2>3, <2>4, FS_EmptySet DEF FailuresCounted
<1> QED
  BY <1>1, <1>2, <1>3, <1>4, <1>5, <1>6

\* A node that no one told to fail and that could open its streams shuts down
\* only after more sends failed than max_failures, in whatever order the
\* reports of its handlers are taken and checked (on_connection_handler_event,
\* poll).
THEOREM ShutdownsHaveCause == Spec => []ShutdownHasCause
<1>1. Init => FailuresCounted
  <2> SUFFICES ASSUME Init PROVE FailuresCounted
    OBVIOUS
  <2>1. FailureReports = {}
    BY DEF Init, FailureReports, Places
  <2> QED
    BY <2>1, FS_EmptySet DEF Init, FailuresCounted, ShuttingDown
<1>2. TypeOK /\ FailuresCounted /\ [Next]_vars => FailuresCounted'
  <2>1. FailuresCounted /\ UNCHANGED vars => FailuresCounted'
    BY DEF vars, FailuresCounted, ShuttingDown, FailureReports
  <2> QED
    BY <2>1, HandlerKeepsCount, EventKeepsCount, PollKeepsCount, LoopKeepsCount
    DEF Next, HandlerStep
<1>3. FailuresCounted => ShutdownHasCause
  BY DEF FailuresCounted, ShutdownHasCause
<1> QED
  BY <1>1, <1>2, <1>3, TypeCorrect, PTL DEF Spec
=============================================================================
