------------------------- MODULE ApprovalFlowProofs -------------------------
(* Proofs about ApprovalFlow, for every number of calls, sessions and clients. *)
EXTENDS ApprovalFlow, SequenceTheorems, TLAPS

-----------------------------------------------------------------------------
(* The channel. *)

\* Sending puts exactly the new message into the channel.
LEMMA SendFacts ==
    ASSUME NEW m \in Message, queue \in Seq(Message), Send(m)
    PROVE  /\ queue' \in Seq(Message)
           /\ Len(queue') = Len(queue) + 1
           /\ \A n \in 1..Len(queue) : queue'[n] = queue[n]
           /\ queue'[Len(queue) + 1] = m
  BY DEF Send

\* Receiving takes the oldest message out and shifts the others.
LEMMA ReceiveFacts ==
    ASSUME NEW m, queue \in Seq(Message), Receive(m)
    PROVE  /\ m \in Message
           /\ Len(queue) \in Nat \ {0}
           /\ m = queue[1]
           /\ queue' \in Seq(Message)
           /\ Len(queue') = Len(queue) - 1
           /\ \A n \in 1..Len(queue') : queue'[n] = queue[n + 1]
  BY DEF Receive

LEMMA MessageTypes ==
    /\ \A c \in Call : PreToolUse(c) \in Message
    /\ \A ev \in Event, s \in Session : HookEvent(ev, s) \in Message
    /\ \A i \in Id, d \in Wire, k \in Client : Decision(i, d, k) \in Message
    /\ \A i \in Id : Always(i) \in Message /\ TimedOut(i) \in Message
  BY DEF Message

LEMMA QueuedAfterSend ==
    ASSUME NEW m \in Message, queue \in Seq(Message), Send(m), NEW x
    PROVE  Queued(x)' <=> (Queued(x) \/ x = m)
  BY SendFacts DEF Queued

LEMMA QueuedAfterReceive ==
    ASSUME NEW m, queue \in Seq(Message), Receive(m), NEW x
    PROVE  /\ Queued(m)
           /\ Queued(x)' => Queued(x)
           /\ Queued(x) => Queued(x)' \/ x = m
<1> USE ReceiveFacts DEF Queued
<1>1. Queued(m)
  OBVIOUS
<1>2. Queued(x)' => Queued(x)
  OBVIOUS
<1>3. ASSUME Queued(x), x # m
      PROVE  Queued(x)'
  <2>1. PICK n \in 1..Len(queue) : queue[n] = x
    BY <1>3
  <2>2. n # 1
    BY <1>3, <2>1
  <2>3. n - 1 \in 1..Len(queue') /\ queue'[n - 1] = x
    BY <2>1, <2>2
  <2>4. QED
    BY <2>3
<1>4. QED
  BY <1>1, <1>2, <1>3

-----------------------------------------------------------------------------
(* Type correctness. *)

\* A broadcast shows each session at most one id.
LEMMA BroadcastType ==
    ASSUME sessions' \in [Session -> SessionRecord], broadcast_heartbeat
    PROVE  shown' \in [Session -> Id \cup {NoId}]
  BY DEF broadcast_heartbeat, Prompts, SessionRecord

\* Resolving an approval keeps the types of all it changes.
LEMMA ResolveType ==
    ASSUME TypeOK, NEW i \in Id, NEW x \in RxValue, Resolve(i, x)
    PROVE  /\ pending' \in [Id -> Call \cup {NoCall}]
           /\ sessions' \in [Session -> SessionRecord]
           /\ shown' \in [Session -> Id \cup {NoId}]
           /\ rx' \in [Call -> RxValue]
<1>1. sessions' \in [Session -> SessionRecord]
  BY DEF TypeOK, Resolve, ClearedOf, clear_pending, SessionRecord
<1>2. QED
  BY <1>1, BroadcastType DEF TypeOK, Resolve

\* Every variable keeps its type.
THEOREM TypeCorrect == Spec => []TypeOK
<1> USE ConstantTypes, NullsAreFresh
<1>1. Init => TypeOK
  BY DEF Init, TypeOK, Absent, SessionRecord, Phase, RxValue, Outcome, Verb, Wire
<1>2. ASSUME TypeOK, [Next]_vars
      PROVE  TypeOK'
  <2>1. ASSUME NEW c \in Call, HookConnects(c)
        PROVE  TypeOK'
    <3>1. queue' \in Seq(Message)
      BY <1>2, <2>1, MessageTypes, SendFacts DEF TypeOK, HookConnects
    <3>2. QED
      BY <1>2, <2>1, <3>1 DEF TypeOK, HookConnects, aggregator, emitters, Phase, Outcome
  <2>2. ASSUME NEW c \in Call, HookGivesUp(c)
        PROVE  TypeOK'
    BY <1>2, <2>2 DEF TypeOK, HookGivesUp, aggregator, emitters, Outcome
  <2>3. ASSUME NEW c \in Call, Handle(c)
        PROVE  TypeOK'
    <3>1. ASSUME NEW a \in Outcome, Close(c, a)
          PROVE  TypeOK'
      BY <1>2, <3>1 DEF TypeOK, Close, aggregator, emitters, Phase, Outcome
    <3>2. CASE HandlerWritesImmediate(c)
      BY <3>1, <3>2 DEF HandlerWritesImmediate, wire_to_hook_decision, Outcome, Final
    <3>3. CASE HandlerWritesDecision(c)
      BY <3>1, <3>3 DEF HandlerWritesDecision, wire_to_hook_decision, Outcome, Final
    <3>4. CASE HandlerElapses(c)
      BY <1>2, <3>4 DEF TypeOK, HandlerElapses, aggregator, emitters, Phase
    <3>5. CASE HandlerReportsTimeout(c)
      <4>1. queue' \in Seq(Message)
        BY <1>2, <3>5, MessageTypes, SendFacts DEF TypeOK, HandlerReportsTimeout
      <4>2. QED
        BY <1>2, <3>5, <4>1 DEF TypeOK, HandlerReportsTimeout, aggregator, emitters, Phase
    <3>6. CASE HandlerWritesFallback(c)
      BY <3>1, <3>6 DEF HandlerWritesFallback, fallback_response, Outcome, Final
    <3>7. QED
      BY <2>3, <3>2, <3>3, <3>4, <3>5, <3>6 DEF Handle
  <2>4. ASSUME NEW ev \in Event, NEW s \in Session, SessionEvent(ev, s)
        PROVE  TypeOK'
    <3>1. queue' \in Seq(Message)
      BY <1>2, <2>4, MessageTypes, SendFacts DEF TypeOK, SessionEvent
    <3>2. QED
      BY <1>2, <2>4, <3>1 DEF TypeOK, SessionEvent, aggregator, handlers, emitters
  <2>5. ASSUME NEW k \in Client, NEW i \in Id, NEW d \in Wire, Decide(k, i, d)
        PROVE  TypeOK'
    <3>1. queue' \in Seq(Message)
      BY <1>2, <2>5, MessageTypes, SendFacts DEF TypeOK, Decide
    <3>2. QED
      BY <1>2, <2>5, <3>1 DEF TypeOK, Decide, aggregator, handlers, Verb
  <2>6. ASSUME NEW k \in Client, NEW i \in Id, ClickAlways(k, i)
        PROVE  TypeOK'
    <3>1. queue' \in Seq(Message)
      BY <1>2, <2>6, MessageTypes, SendFacts DEF TypeOK, ClickAlways
    <3>2. QED
      BY <1>2, <2>6, <3>1 DEF TypeOK, ClickAlways, aggregator, handlers, Verb
  <2>7. ASSUME Aggregate
        PROVE  TypeOK'
    <3>1. ASSUME NEW c \in Call, AutoAnswer(c)
          PROVE  TypeOK'
      <4>1. queue' \in Seq(Message)
        BY <1>2, <3>1, ReceiveFacts DEF TypeOK, AutoAnswer
      <4>2. sessions' \in [Session -> SessionRecord]
        BY <1>2, <3>1 DEF TypeOK, AutoAnswer, OrNew, NewSession, SessionRecord
      <4>3. rx' \in [Call -> RxValue] /\ phase' \in [Call -> Phase]
        <5>1. PICK a \in Wire : Reply(c, a)
          BY <3>1 DEF AutoAnswer, Wire
        <5>2. QED
          BY <1>2, <5>1 DEF TypeOK, Reply, RxValue, Phase
      <4>4. QED
        BY <1>2, <3>1, <4>1, <4>2, <4>3 DEF TypeOK, AutoAnswer, emitters
    <3>2. ASSUME NEW c \in Call, DuplicateId(c)
          PROVE  TypeOK'
      BY <1>2, <3>2, ReceiveFacts
         DEF TypeOK, DuplicateId, Reply, OrNew, NewSession, SessionRecord, emitters,
             Phase, RxValue, Wire
    <3>3. ASSUME NEW c \in Call, start_intercept(c)
          PROVE  TypeOK'
      <4>1. sessions' \in [Session -> SessionRecord]
        BY <1>2, <3>3 DEF TypeOK, start_intercept, SessionRecord
      <4>2. QED
        BY <1>2, <3>3, <4>1, ReceiveFacts, BroadcastType
           DEF TypeOK, start_intercept, emitters, Phase
    <3>4. ASSUME NEW i \in Id, NEW d \in Wire, NEW k \in Client,
                 handle_permission_decision(i, d, k)
          PROVE  TypeOK'
      <4>1. client' \in [Client -> [state : {"idle", "waiting", "applied", "unknown"},
                                    id : Id \cup {NoId}, decision : Wire]]
        <5>1. PICK result \in {"applied", "unknown"} : Acknowledge(k, result)
          BY <3>4 DEF handle_permission_decision
        <5>2. client[k].id \in Id \cup {NoId} /\ client[k].decision \in Wire
          BY <1>2 DEF TypeOK
        <5>3. QED
          BY <1>2, <5>1, <5>2 DEF TypeOK, Acknowledge
      <4>2. /\ pending' \in [Id -> Call \cup {NoCall}]
            /\ sessions' \in [Session -> SessionRecord]
            /\ shown' \in [Session -> Id \cup {NoId}]
            /\ rx' \in [Call -> RxValue]
        BY <1>2, <3>4, ResolveType DEF TypeOK, handle_permission_decision, RxValue
      <4>3. QED
        BY <1>2, <3>4, <4>1, <4>2, ReceiveFacts DEF TypeOK, handle_permission_decision
    <3>5. ASSUME NEW i \in Id, handle_allowlist_always(i)
          PROVE  TypeOK'
      <4>1. /\ pending' \in [Id -> Call \cup {NoCall}]
            /\ sessions' \in [Session -> SessionRecord]
            /\ shown' \in [Session -> Id \cup {NoId}]
            /\ rx' \in [Call -> RxValue]
        BY <1>2, <3>5, ResolveType DEF TypeOK, handle_allowlist_always, RxValue, Wire
      <4>2. learned' \subseteq Call
        BY <1>2, <3>5 DEF TypeOK, handle_allowlist_always
      <4>3. QED
        BY <1>2, <3>5, <4>1, <4>2, ReceiveFacts DEF TypeOK, handle_allowlist_always, emitters
    <3>6. ASSUME NEW i \in Id, ApprovalTimedOut(i)
          PROVE  TypeOK'
      <4>1. /\ pending' \in [Id -> Call \cup {NoCall}]
            /\ sessions' \in [Session -> SessionRecord]
            /\ shown' \in [Session -> Id \cup {NoId}]
            /\ rx' \in [Call -> RxValue]
        BY <1>2, <3>6, ResolveType DEF ApprovalTimedOut, RxValue
      <4>2. QED
        BY <1>2, <3>6, <4>1, ReceiveFacts DEF TypeOK, ApprovalTimedOut, emitters
    <3>7. ASSUME NEW ev \in Event, NEW s \in Session, handle_hook_event(ev, s)
          PROVE  TypeOK'
      <4>1. AfterEvent(ev, sessions[s]) \in SessionRecord
        BY <1>2 DEF TypeOK, AfterEvent, Event, OrNew, NewSession, Absent, clear_pending,
                    SessionRecord
      <4>2. sessions' \in [Session -> SessionRecord]
        BY <1>2, <3>7, <4>1 DEF TypeOK, handle_hook_event
      <4>3. QED
        BY <1>2, <3>7, <4>2, ReceiveFacts, BroadcastType
           DEF TypeOK, handle_hook_event, handlers, emitters
    <3>8. QED
      BY <2>7, <3>1, <3>2, <3>3, <3>4, <3>5, <3>6, <3>7 DEF Aggregate
  <2>8. CASE Tick
    BY <1>2, <2>8, BroadcastType DEF TypeOK, Tick, handlers, emitters
  <2>9. CASE UNCHANGED vars
    BY <1>2, <2>9 DEF TypeOK, vars, aggregator, handlers, emitters
  <2>10. QED
    BY <1>2, <2>1, <2>2, <2>3, <2>4, <2>5, <2>6, <2>7, <2>8, <2>9 DEF Next
<1>3. QED
  BY <1>1, <1>2, PTL DEF Spec

-----------------------------------------------------------------------------
(* No leaked approval, no stranded handler.                                *)
(*                                                                         *)
(* NoLeakedApproval and NoStrandedHandler are inductive together with two  *)
(* facts about calls on their way: a PreToolUse event is in the channel at *)
(* most once, and only while its handler waits for the outcome; and a      *)
(* oneshot is unused before the call is held and after its timer elapsed.  *)

SentOnce ==
    /\ \A c \in Call : Queued(PreToolUse(c)) => phase[c] = "sent"
    /\ \A c \in Call : \A m, n \in 1..Len(queue) :
          queue[m] = PreToolUse(c) /\ queue[n] = PreToolUse(c) => m = n

RxUnused == \A c \in Call : phase[c] \in {"idle", "sent", "lapsed", "fallback"} => rx[c] = "none"

FlowInv == SentOnce /\ RxUnused /\ NoLeakedApproval /\ NoStrandedHandler

\* Messages of different kinds differ, and a timeout report names one id.
LEMMA MessagesDiffer ==
    /\ \A c \in Call, i \in Id : PreToolUse(c) # TimedOut(i)
    /\ \A c \in Call, i \in Id : PreToolUse(c) # Always(i)
    /\ \A c \in Call, i \in Id, d \in Wire, k \in Client : PreToolUse(c) # Decision(i, d, k)
    /\ \A c \in Call, ev \in Event, s \in Session : PreToolUse(c) # HookEvent(ev, s)
    /\ \A i, j \in Id : TimedOut(i) # Always(j)
    /\ \A i, j \in Id, d \in Wire, k \in Client : TimedOut(i) # Decision(j, d, k)
    /\ \A i \in Id, ev \in Event, s \in Session : TimedOut(i) # HookEvent(ev, s)
    /\ \A i, j \in Id : TimedOut(i) = TimedOut(j) => i = j
    /\ \A c, e \in Call : PreToolUse(c) = PreToolUse(e) => c = e
<1> USE DEF PreToolUse, TimedOut, Always, Decision, HookEvent
<1>1. \A c \in Call, i \in Id : PreToolUse(c) # TimedOut(i) /\ PreToolUse(c) # Always(i)
  OBVIOUS
<1>2. \A c \in Call, i \in Id, d \in Wire, k \in Client : PreToolUse(c) # Decision(i, d, k)
  OBVIOUS
<1>3. \A c \in Call, ev \in Event, s \in Session : PreToolUse(c) # HookEvent(ev, s)
  OBVIOUS
<1>4. \A i, j \in Id : TimedOut(i) # Always(j)
  OBVIOUS
<1>5. \A i, j \in Id, d \in Wire, k \in Client : TimedOut(i) # Decision(j, d, k)
  OBVIOUS
<1>6. \A i \in Id, ev \in Event, s \in Session : TimedOut(i) # HookEvent(ev, s)
  OBVIOUS
<1>7. \A i, j \in Id : TimedOut(i) = TimedOut(j) => i = j
  OBVIOUS
<1>8. \A c, e \in Call : PreToolUse(c) = PreToolUse(e) => c = e
  OBVIOUS
<1>9. QED
  BY <1>1, <1>2, <1>3, <1>4, <1>5, <1>6, <1>7, <1>8

\* SentOnce survives sending anything but a second copy of a PreToolUse event.
LEMMA SentOnceSend ==
    ASSUME TypeOK, SentOnce, NEW m \in Message, Send(m),
           \A c \in Call : m = PreToolUse(c) => ~Queued(PreToolUse(c)) /\ phase'[c] = "sent",
           \A c \in Call : phase[c] = "sent" => phase'[c] = "sent"
    PROVE  SentOnce'
<1>0. queue \in Seq(Message)
  BY DEF TypeOK
<1>1. ASSUME NEW c \in Call, Queued(PreToolUse(c))'
      PROVE  phase'[c] = "sent"
  BY <1>0, <1>1, QueuedAfterSend DEF SentOnce
<1>2. ASSUME NEW c \in Call, NEW p \in 1..Len(queue'), NEW n \in 1..Len(queue'),
             queue'[p] = PreToolUse(c), queue'[n] = PreToolUse(c)
      PROVE  p = n
  <2>1. CASE m = PreToolUse(c)
    <3>1. p = Len(queue) + 1 /\ n = Len(queue) + 1
      BY <1>0, <1>2, <2>1, SendFacts DEF Queued
    <3>2. QED
      BY <3>1
  <2>2. CASE m # PreToolUse(c)
    <3>1. p \in 1..Len(queue) /\ n \in 1..Len(queue)
      BY <1>0, <1>2, <2>2, SendFacts
    <3>2. queue[p] = PreToolUse(c) /\ queue[n] = PreToolUse(c)
      BY <1>0, <1>2, <3>1, SendFacts
    <3>3. QED
      BY <3>1, <3>2 DEF SentOnce
  <2>3. QED
    BY <2>1, <2>2
<1>3. QED
  BY <1>1, <1>2 DEF SentOnce

\* Receiving keeps SentOnce; a received PreToolUse event leaves no copy behind.
LEMMA SentOnceReceive ==
    ASSUME TypeOK, SentOnce, NEW m, Receive(m),
           \A c \in Call : m # PreToolUse(c) => (phase[c] = "sent" => phase'[c] = "sent")
    PROVE  /\ SentOnce'
           /\ \A c \in Call : m = PreToolUse(c) => phase[c] = "sent" /\ ~Queued(m)'
<1>0. queue \in Seq(Message)
  BY DEF TypeOK
<1>1. ASSUME NEW c \in Call, m = PreToolUse(c)
      PROVE  phase[c] = "sent" /\ ~Queued(m)'
  <2>1. phase[c] = "sent"
    BY <1>0, <1>1, QueuedAfterReceive DEF SentOnce
  <2>2. ASSUME NEW n \in 1..Len(queue'), queue'[n] = m
        PROVE  FALSE
    <3>1. n + 1 \in 1..Len(queue) /\ 1 \in 1..Len(queue) /\ n + 1 # 1
      BY <1>0, ReceiveFacts
    <3>2. queue[n + 1] = m /\ queue[1] = m
      BY <1>0, <2>2, ReceiveFacts
    <3>3. QED
      BY <1>1, <3>1, <3>2 DEF SentOnce
  <2>3. QED
    BY <2>1, <2>2 DEF Queued
<1>2. ASSUME NEW c \in Call, Queued(PreToolUse(c))'
      PROVE  phase'[c] = "sent"
  BY <1>0, <1>1, <1>2, QueuedAfterReceive DEF SentOnce
<1>3. ASSUME NEW c \in Call, NEW p \in 1..Len(queue'), NEW n \in 1..Len(queue'),
             queue'[p] = PreToolUse(c), queue'[n] = PreToolUse(c)
      PROVE  p = n
  <2>1. /\ p + 1 \in 1..Len(queue) /\ n + 1 \in 1..Len(queue)
        /\ queue[p + 1] = PreToolUse(c) /\ queue[n + 1] = PreToolUse(c)
    BY <1>0, <1>3, ReceiveFacts
  <2>2. p + 1 = n + 1
    BY <2>1 DEF SentOnce
  <2>3. QED
    BY <2>2
<1>4. QED
  BY <1>1, <1>2, <1>3 DEF SentOnce

\* A message that is neither a PreToolUse event nor a timeout report.
Other(m) ==
    /\ \A c \in Call : m # PreToolUse(c)
    /\ \A i \in Id : m # TimedOut(i)

LEMMA OtherMessages ==
    /\ \A ev \in Event, s \in Session : Other(HookEvent(ev, s))
    /\ \A i \in Id, d \in Wire, k \in Client : Other(Decision(i, d, k))
    /\ \A i \in Id : Other(Always(i))
  BY MessagesDiffer DEF Other

\* NoLeakedApproval, said of the calls that pending holds.
HeldCall(j, e) == pending[j] = e => /\ IdOf[e] = j
                                    /\ rx[e] = "none"
                                    /\ phase[e] = "await" \/ ReportDue(e)

LEMMA HeldCalls ==
    ASSUME TypeOK
    PROVE  NoLeakedApproval <=> \A j \in Id, e \in Call : HeldCall(j, e)
  BY NullsAreFresh DEF NoLeakedApproval, HeldCall, TypeOK

LEMMA HeldCallsNext ==
    ASSUME TypeOK', \A j \in Id, e \in Call : HeldCall(j, e)'
    PROVE  NoLeakedApproval'
  BY NullsAreFresh DEF NoLeakedApproval, HeldCall, TypeOK

\* Sending or receiving another message disturbs nothing.
LEMMA FlowOther ==
    ASSUME TypeOK, TypeOK', FlowInv, NEW m \in Message, Other(m), Send(m) \/ Receive(m),
           UNCHANGED <<pending, phase, rx>>
    PROVE  FlowInv'
<1> USE ConstantTypes
<1>0. queue \in Seq(Message)
  BY DEF TypeOK
<1>1. SentOnce'
  BY SentOnceSend, SentOnceReceive DEF FlowInv, Other
<1>2. \A i \in Id : Queued(TimedOut(i)) => Queued(TimedOut(i))'
  BY <1>0, QueuedAfterSend, QueuedAfterReceive DEF Other
<1>3. \A c \in Call : ReportDue(c) => ReportDue(c)'
  BY <1>2 DEF ReportDue, TypeOK
<1>4. NoLeakedApproval'
  BY <1>3, HeldCalls, HeldCallsNext DEF FlowInv, HeldCall
<1>5. QED
  BY <1>1, <1>4 DEF FlowInv, RxUnused, NoStrandedHandler

\* Resolving an approval, on a decision or on a timeout report, leaks and strands
\* nobody: the entry goes and, in the same step, its oneshot is used.
LEMMA FlowResolve ==
    ASSUME TypeOK, TypeOK', FlowInv, NEW m, Receive(m), \A c \in Call : m # PreToolUse(c),
           NEW i \in Id, \A j \in Id \ {i} : m # TimedOut(j),
           NEW x \in {"once", "deny", "dropped"}, Resolve(i, x), phase' = phase
    PROVE  FlowInv'
<1> USE ConstantTypes, NullsAreFresh
<1>0. queue \in Seq(Message)
  BY DEF TypeOK
<1>1. SentOnce'
  BY SentOnceReceive DEF FlowInv
<1>2. RxUnused'
  BY DEF FlowInv, RxUnused, Resolve, TypeOK
<1>3. ASSUME NEW j \in Id, NEW e \in Call, pending'[j] = e
      PROVE  IdOf[e] = j /\ rx'[e] = "none" /\ (phase'[e] = "await" \/ ReportDue(e)')
  <2>1. j # i /\ pending[j] = e
    BY <1>3 DEF Resolve, TypeOK
  <2>2. IdOf[e] = j /\ rx[e] = "none" /\ (phase[e] = "await" \/ ReportDue(e))
    BY <2>1, HeldCalls DEF FlowInv, HeldCall
  <2>3. pending[i] # e
    BY <2>1, <2>2, HeldCalls DEF FlowInv, HeldCall
  <2>4. rx'[e] = "none"
    BY <2>2, <2>3 DEF Resolve, TypeOK
  <2>5. Queued(TimedOut(j)) => Queued(TimedOut(j))'
    BY <1>0, <2>1, QueuedAfterReceive
  <2>6. ReportDue(e) => ReportDue(e)'
    BY <2>2, <2>5 DEF ReportDue
  <2>7. QED
    BY <2>2, <2>4, <2>6
<1>4. ASSUME NEW c \in Call, phase'[c] = "await", rx'[c] = "none"
      PROVE  pending'[IdOf[c]] = c
  <2>1. rx[c] = "none"
    BY <1>4 DEF Resolve, TypeOK
  <2>2. pending[IdOf[c]] = c
    BY <1>4, <2>1 DEF FlowInv, NoStrandedHandler
  <2>3. IdOf[c] # i
    BY <1>4, <2>2 DEF Resolve, TypeOK
  <2>4. QED
    BY <2>2, <2>3 DEF Resolve, TypeOK
<1>5. QED
  BY <1>1, <1>2, <1>3, <1>4, HeldCallsNext DEF FlowInv, HeldCall, NoStrandedHandler

\* A handler that closes was answered at once, has read its oneshot or has
\* reported its timeout: no approval depended on it.
LEMMA FlowClose ==
    ASSUME TypeOK, TypeOK', FlowInv, NEW c \in Call, NEW a, Close(c, a),
           phase[c] \in {"reply", "fallback"} \/ (phase[c] = "await" /\ rx[c] # "none")
    PROVE  FlowInv'
<1> USE ConstantTypes, NullsAreFresh
<1>1. /\ UNCHANGED <<queue, pending, rx>>
      /\ phase' = [phase EXCEPT ![c] = "done"]
  BY DEF Close, aggregator
<1>2. SentOnce'
  BY <1>1 DEF FlowInv, SentOnce, Queued, TypeOK
<1>3. RxUnused'
  BY <1>1 DEF FlowInv, RxUnused, TypeOK
<1>4. ASSUME NEW j \in Id, NEW e \in Call, pending[j] = e
      PROVE  IdOf[e] = j /\ rx[e] = "none" /\ (phase'[e] = "await" \/ ReportDue(e)')
  <2>1. IdOf[e] = j /\ rx[e] = "none" /\ (phase[e] = "await" \/ ReportDue(e))
    BY <1>4, HeldCalls DEF FlowInv, HeldCall
  <2>2. CASE e # c
    BY <1>1, <2>1, <2>2 DEF ReportDue, Queued, TypeOK
  <2>3. CASE e = c
    BY <1>1, <2>1, <2>3 DEF ReportDue, Queued, TypeOK
  <2>4. QED
    BY <2>1, <2>2, <2>3
<1>5. NoStrandedHandler'
  BY <1>1 DEF FlowInv, NoStrandedHandler, TypeOK
<1>6. QED
  BY <1>1, <1>2, <1>3, <1>4, <1>5, HeldCallsNext DEF FlowInv, HeldCall

\* Taking a PreToolUse event leaves the reports in the channel where they are.
LEMMA ReportsStay ==
    ASSUME TypeOK, NEW c \in Call, Receive(PreToolUse(c)), NEW i \in Id
    PROVE  Queued(TimedOut(i)) => Queued(TimedOut(i))'
  BY QueuedAfterReceive, MessagesDiffer DEF TypeOK

\* A PreToolUse event that is answered at once.
LEMMA FlowReply ==
    ASSUME TypeOK, TypeOK', FlowInv, NEW c \in Call, NEW a, Receive(PreToolUse(c)), Reply(c, a),
           UNCHANGED pending
    PROVE  FlowInv'
<1> USE ConstantTypes, NullsAreFresh
<1>1. phase[c] = "sent" /\ rx[c] = "none"
  BY SentOnceReceive, MessagesDiffer DEF FlowInv, RxUnused, Reply, TypeOK
<1>2. SentOnce'
  BY SentOnceReceive, MessagesDiffer DEF FlowInv, Reply, TypeOK
<1>3. RxUnused'
  BY DEF FlowInv, RxUnused, Reply, TypeOK
<1>4. ASSUME NEW j \in Id, NEW e \in Call, pending[j] = e
      PROVE  IdOf[e] = j /\ rx'[e] = "none" /\ (phase'[e] = "await" \/ ReportDue(e)')
  <2>1. IdOf[e] = j /\ rx[e] = "none" /\ (phase[e] = "await" \/ ReportDue(e))
    BY <1>4, HeldCalls DEF FlowInv, HeldCall
  <2>2. e # c
    BY <1>1, <2>1 DEF ReportDue
  <2>3. QED
    BY <2>1, <2>2, ReportsStay DEF ReportDue, Reply, TypeOK
<1>5. NoStrandedHandler'
  BY DEF FlowInv, NoStrandedHandler, Reply, TypeOK
<1>6. QED
  BY <1>2, <1>3, <1>4, <1>5, HeldCallsNext DEF FlowInv, HeldCall

\* A call that is held for approval.
LEMMA FlowIntercept ==
    ASSUME TypeOK, TypeOK', FlowInv, NEW c \in Call, start_intercept(c)
    PROVE  FlowInv'
<1> USE ConstantTypes, NullsAreFresh
<1>1. /\ Receive(PreToolUse(c))
      /\ pending' = [pending EXCEPT ![IdOf[c]] = c]
      /\ pending[IdOf[c]] = NoCall
      /\ phase' = [phase EXCEPT ![c] = "await"]
      /\ rx' = rx
  BY DEF start_intercept
<1>2. phase[c] = "sent" /\ rx[c] = "none" /\ SentOnce'
  BY <1>1, SentOnceReceive, MessagesDiffer DEF FlowInv, RxUnused, TypeOK
<1>3. RxUnused'
  BY <1>1 DEF FlowInv, RxUnused, TypeOK
<1>4. ASSUME NEW j \in Id, NEW e \in Call, pending'[j] = e
      PROVE  IdOf[e] = j /\ rx'[e] = "none" /\ (phase'[e] = "await" \/ ReportDue(e)')
  <2>1. CASE j = IdOf[c]
    BY <1>1, <1>2, <1>4, <2>1 DEF TypeOK
  <2>2. CASE j # IdOf[c]
    <3>1. pending[j] = e /\ IdOf[e] = j /\ rx[e] = "none" /\ (phase[e] = "await" \/ ReportDue(e))
      BY <1>1, <1>4, <2>2, HeldCalls DEF FlowInv, HeldCall, TypeOK
    <3>2. e # c
      BY <2>2, <3>1
    <3>3. QED
      BY <1>1, <3>1, <3>2, ReportsStay DEF ReportDue, TypeOK
  <2>3. QED
    BY <2>1, <2>2
<1>5. ASSUME NEW e \in Call, phase'[e] = "await", rx'[e] = "none"
      PROVE  pending'[IdOf[e]] = e
  <2>1. CASE e = c
    BY <1>1, <2>1 DEF TypeOK
  <2>2. CASE e # c
    BY <1>1, <1>5, <2>2 DEF FlowInv, NoStrandedHandler, TypeOK
  <2>3. QED
    BY <2>1, <2>2
<1>6. QED
  BY <1>2, <1>3, <1>4, <1>5, HeldCallsNext DEF FlowInv, HeldCall, NoStrandedHandler

LEMMA FlowInvHolds == Spec => []FlowInv
<1>1. Init => FlowInv
  <2>1. Init => /\ queue = <<>> /\ \A c \in Call : phase[c] = "idle" /\ rx[c] = "none"
                /\ \A i \in Id : pending[i] = NoCall
    BY DEF Init
  <2>2. QED
    BY <2>1 DEF FlowInv, SentOnce, RxUnused, NoLeakedApproval, NoStrandedHandler, Queued
<1>2. ASSUME TypeOK, TypeOK', FlowInv, [Next]_vars
      PROVE  FlowInv'
  <2> USE <1>2, ConstantTypes
  <2>1. ASSUME NEW c \in Call, HookConnects(c)
        PROVE  FlowInv'
    <3>1. /\ Send(PreToolUse(c))
          /\ phase[c] = "idle" /\ phase' = [phase EXCEPT ![c] = "sent"]
          /\ pending' = pending /\ rx' = rx
      BY <2>1 DEF HookConnects, aggregator
    <3>2. SentOnce'
      BY <3>1, SentOnceSend, MessageTypes, MessagesDiffer DEF FlowInv, SentOnce, TypeOK
    <3>3. \A i \in Id : Queued(TimedOut(i)) => Queued(TimedOut(i))'
      BY <3>1, QueuedAfterSend, MessageTypes DEF TypeOK
    <3>4. NoLeakedApproval'
      BY <3>1, <3>3, HeldCalls, HeldCallsNext DEF FlowInv, HeldCall, ReportDue, TypeOK
    <3>5. QED
      BY <3>1, <3>2, <3>4 DEF FlowInv, RxUnused, NoStrandedHandler, TypeOK
  <2>2. ASSUME NEW c \in Call, HookGivesUp(c)
        PROVE  FlowInv'
    BY <2>2 DEF HookGivesUp, aggregator, FlowInv, SentOnce, RxUnused, NoLeakedApproval,
                NoStrandedHandler, ReportDue, Queued
  <2>3. ASSUME NEW c \in Call, Handle(c)
        PROVE  FlowInv'
    <3>1. CASE HandlerWritesImmediate(c)
      BY <3>1, FlowClose DEF HandlerWritesImmediate
    <3>2. CASE HandlerWritesDecision(c)
      BY <3>2, FlowClose DEF HandlerWritesDecision
    <3>3. CASE HandlerElapses(c)
      <4>1. /\ UNCHANGED <<queue, pending, rx>>
            /\ rx[c] = "none" /\ phase[c] = "await"
            /\ phase' = [phase EXCEPT ![c] = "lapsed"]
        BY <3>3 DEF HandlerElapses, aggregator
      <4>2. SentOnce' /\ RxUnused' /\ NoStrandedHandler'
        BY <4>1 DEF FlowInv, SentOnce, RxUnused, NoStrandedHandler, Queued, TypeOK
      <4>3. NoLeakedApproval'
        BY <4>1, HeldCalls, HeldCallsNext DEF FlowInv, HeldCall, ReportDue, Queued, TypeOK
      <4>4. QED
        BY <4>2, <4>3 DEF FlowInv
    <3>4. CASE HandlerReportsTimeout(c)
      <4>1. /\ Send(TimedOut(IdOf[c])) /\ TimedOut(IdOf[c]) \in Message
            /\ UNCHANGED <<pending, rx>>
            /\ phase[c] = "lapsed"
            /\ phase' = [phase EXCEPT ![c] = "fallback"]
        BY <3>4, MessageTypes DEF HandlerReportsTimeout, aggregator
      <4>2. SentOnce'
        BY <4>1, SentOnceSend, MessagesDiffer DEF FlowInv, TypeOK
      <4>3. RxUnused' /\ NoStrandedHandler'
        BY <4>1 DEF FlowInv, RxUnused, NoStrandedHandler, TypeOK
      <4>4. /\ Queued(TimedOut(IdOf[c]))'
            /\ \A i \in Id : Queued(TimedOut(i)) => Queued(TimedOut(i))'
        BY <4>1, QueuedAfterSend DEF TypeOK
      <4>5. NoLeakedApproval'
        BY <4>1, <4>4, HeldCalls, HeldCallsNext DEF FlowInv, HeldCall, ReportDue, TypeOK
      <4>6. QED
        BY <4>2, <4>3, <4>5 DEF FlowInv
    <3>5. CASE HandlerWritesFallback(c)
      BY <3>5, FlowClose DEF HandlerWritesFallback
    <3>6. QED
      BY <2>3, <3>1, <3>2, <3>3, <3>4, <3>5 DEF Handle
  <2>4. ASSUME NEW ev \in Event, NEW s \in Session, SessionEvent(ev, s)
        PROVE  FlowInv'
    BY <2>4, FlowOther, OtherMessages, MessageTypes DEF SessionEvent, aggregator, handlers
  <2>5. ASSUME NEW k \in Client, NEW i \in Id, NEW d \in Wire, Decide(k, i, d)
        PROVE  FlowInv'
    BY <2>5, FlowOther, OtherMessages, MessageTypes DEF Decide, aggregator, handlers
  <2>6. ASSUME NEW k \in Client, NEW i \in Id, ClickAlways(k, i)
        PROVE  FlowInv'
    BY <2>6, FlowOther, OtherMessages, MessageTypes DEF ClickAlways, aggregator, handlers
  <2>7. ASSUME NEW c \in Call, AutoAnswer(c)
        PROVE  FlowInv'
    BY <2>7, FlowReply DEF AutoAnswer
  <2>8. ASSUME NEW c \in Call, DuplicateId(c)
        PROVE  FlowInv'
    BY <2>8, FlowReply DEF DuplicateId
  <2>9. ASSUME NEW c \in Call, start_intercept(c)
        PROVE  FlowInv'
    BY <2>9, FlowIntercept
  <2>10. ASSUME NEW i \in Id, NEW d \in Wire, NEW k \in Client,
                handle_permission_decision(i, d, k)
         PROVE  FlowInv'
    <3>1. Receive(Decision(i, d, k)) /\ phase' = phase
      BY <2>10 DEF handle_permission_decision
    <3>2. CASE Resolve(i, d)
      BY <3>1, <3>2, FlowResolve, OtherMessages DEF Other, Wire
    <3>3. CASE UNCHANGED <<pending, sessions, shown, rx>>
      BY <3>1, <3>3, FlowOther, OtherMessages, MessageTypes
    <3>4. QED
      BY <2>10, <3>2, <3>3 DEF handle_permission_decision
  <2>11. ASSUME NEW i \in Id, handle_allowlist_always(i)
         PROVE  FlowInv'
    <3>1. Receive(Always(i)) /\ phase' = phase
      BY <2>11 DEF handle_allowlist_always
    <3>2. ASSUME NEW d \in {"once", "deny"}, Resolve(i, d)
          PROVE  FlowInv'
      BY <3>1, <3>2, FlowResolve, OtherMessages DEF Other
    <3>3. CASE UNCHANGED <<pending, sessions, shown, rx, learned>>
      BY <3>1, <3>3, FlowOther, OtherMessages, MessageTypes
    <3>4. QED
      BY <2>11, <3>2, <3>3 DEF handle_allowlist_always
  <2>12. ASSUME NEW i \in Id, ApprovalTimedOut(i)
         PROVE  FlowInv'
    BY <2>12, FlowResolve, MessagesDiffer DEF ApprovalTimedOut
  <2>13. ASSUME NEW ev \in Event, NEW s \in Session, handle_hook_event(ev, s)
         PROVE  FlowInv'
    BY <2>13, FlowOther, OtherMessages, MessageTypes DEF handle_hook_event, handlers
  <2>14. CASE Tick \/ UNCHANGED vars
    BY <2>14 DEF Tick, vars, aggregator, handlers, FlowInv, SentOnce, RxUnused,
                 NoLeakedApproval, NoStrandedHandler, ReportDue, Queued
  <2>15. QED
    BY <2>1, <2>2, <2>3, <2>4, <2>5, <2>6, <2>7, <2>8, <2>9, <2>10, <2>11, <2>12, <2>13,
       <2>14 DEF Next, Aggregate
<1>3. QED
  BY <1>1, <1>2, TypeCorrect, PTL DEF Spec

\* No approval leaks: an entry of the pending map belongs to a call that waits, or whose
\* timeout report will remove it, whatever the number of calls, sessions and clients and
\* whether or not ids are shared.
THEOREM NoApprovalLeaks == Spec => []NoLeakedApproval
<1>1. FlowInv => NoLeakedApproval
  BY DEF FlowInv
<1>2. QED
  BY <1>1, FlowInvHolds, PTL

\* No handler is stranded: one that waits on an unused oneshot is the entry of its id in
\* the pending map, so that a decision can still reach it.
THEOREM NoHandlerStranded == Spec => []NoStrandedHandler
<1>1. FlowInv => NoStrandedHandler
  BY DEF FlowInv
<1>2. QED
  BY <1>1, FlowInvHolds, PTL

\* Nothing is put into a oneshot that is in use: an entry of `pending` has an
\* unused one, and so has a call whose PreToolUse event is still in the channel.
LEMMA FirstWins ==
    ASSUME TypeOK, FlowInv, [Next]_vars, NEW c \in Call, rx[c] # "none"
    PROVE  rx'[c] = rx[c]
<1> USE ConstantTypes, NullsAreFresh
<1>1. ASSUME NEW i \in Id, NEW x, Resolve(i, x)
      PROVE  rx'[c] = rx[c]
  <2>1. pending[i] # c
    BY HeldCalls DEF FlowInv, HeldCall
  <2>2. QED
    BY <1>1, <2>1 DEF Resolve, TypeOK
<1>2. ASSUME NEW e \in Call, NEW x, Receive(PreToolUse(e)), Reply(e, x)
      PROVE  rx'[c] = rx[c]
  <2>1. rx[e] = "none"
    BY <1>2, SentOnceReceive, MessagesDiffer DEF FlowInv, RxUnused, Reply, TypeOK
  <2>2. QED
    BY <1>2, <2>1 DEF Reply, TypeOK
<1>3. CASE rx' = rx
  BY <1>3
<1>4. ASSUME NEW e \in Call, HookConnects(e) \/ HookGivesUp(e) \/ Handle(e)
      PROVE  rx' = rx
  BY <1>4 DEF HookConnects, HookGivesUp, Handle, HandlerWritesImmediate, HandlerWritesDecision,
              HandlerElapses, HandlerReportsTimeout, HandlerWritesFallback, Close
<1>5. ASSUME NEW ev \in Event, NEW s \in Session, SessionEvent(ev, s) \/ handle_hook_event(ev, s)
      PROVE  rx' = rx
  BY <1>5 DEF SessionEvent, handle_hook_event, handlers
<1>6. ASSUME NEW k \in Client, NEW i \in Id, (\E d \in Wire : Decide(k, i, d)) \/ ClickAlways(k, i)
      PROVE  rx' = rx
  BY <1>6 DEF Decide, ClickAlways, handlers
<1>7. ASSUME NEW e \in Call, AutoAnswer(e) \/ DuplicateId(e) \/ start_intercept(e)
      PROVE  rx'[c] = rx[c]
  BY <1>2, <1>7 DEF AutoAnswer, DuplicateId, start_intercept
<1>8. ASSUME NEW i \in Id, NEW d \in Wire, NEW k \in Client, handle_permission_decision(i, d, k)
      PROVE  rx'[c] = rx[c]
  BY <1>1, <1>8 DEF handle_permission_decision
<1>9. ASSUME NEW i \in Id, handle_allowlist_always(i) \/ ApprovalTimedOut(i)
      PROVE  rx'[c] = rx[c]
  BY <1>1, <1>9 DEF handle_allowlist_always, ApprovalTimedOut
<1>10. CASE Tick \/ UNCHANGED vars
  BY <1>10 DEF Tick, vars, handlers
<1>11. QED
  BY <1>3, <1>4, <1>5, <1>6, <1>7, <1>8, <1>9, <1>10 DEF Next, Aggregate

-----------------------------------------------------------------------------
(* Sessions and heartbeats.                                                *)

ClosedIsQuiet == \A s \in Session : ~sessions[s].open => ~sessions[s].waiting

SessionInv == ClosedIsQuiet /\ WaitingIsBacked /\ HeartbeatIsFresh

\* Resolving an approval clears every session that shows it.
LEMMA SessionResolve ==
    ASSUME TypeOK, SessionInv, NEW i \in Id, NEW x, Resolve(i, x)
    PROVE  SessionInv'
<1> USE ConstantTypes, NullsAreFresh
<1>1. /\ pending' = [pending EXCEPT ![i] = NoCall]
      /\ sessions' = ClearedOf(i)
      /\ HeartbeatIsFresh'
  BY DEF Resolve, broadcast_heartbeat, HeartbeatIsFresh
<1>2. ASSUME NEW s \in Session
      PROVE  \/ ~sessions'[s].waiting
             \/ sessions'[s] = sessions[s] /\ sessions[s].pending_tool_use_id # i
  BY <1>1 DEF ClearedOf, clear_pending
<1>3. ClosedIsQuiet'
  BY <1>2 DEF SessionInv, ClosedIsQuiet
<1>4. WaitingIsBacked'
  BY <1>1, <1>2 DEF SessionInv, WaitingIsBacked, TypeOK
<1>5. QED
  BY <1>1, <1>3, <1>4 DEF SessionInv

\* A call answered at once may open its session, and shows nothing new.
LEMMA SessionOpened ==
    ASSUME TypeOK, SessionInv, NEW s \in Session,
           sessions' = [sessions EXCEPT ![s] = OrNew(@)], UNCHANGED <<pending, shown>>
    PROVE  SessionInv'
<1>1. ASSUME NEW t \in Session
      PROVE  \/ sessions'[t] = sessions[t]
             \/ ~sessions[t].waiting /\ sessions'[t] = NewSession
  BY DEF TypeOK, OrNew, SessionInv, ClosedIsQuiet
<1>2. ClosedIsQuiet' /\ WaitingIsBacked'
  BY <1>1 DEF SessionInv, ClosedIsQuiet, WaitingIsBacked, NewSession
<1>3. Prompts' = Prompts
  BY <1>1 DEF Prompts, NewSession
<1>4. QED
  BY <1>2, <1>3 DEF SessionInv, HeartbeatIsFresh

LEMMA SessionInvHolds == Spec => []SessionInv
<1> USE ConstantTypes, NullsAreFresh
<1>1. Init => SessionInv
  BY DEF Init, SessionInv, ClosedIsQuiet, WaitingIsBacked, HeartbeatIsFresh, Prompts, Absent
<1>2. ASSUME TypeOK, TypeOK', SessionInv, [Next]_vars
      PROVE  SessionInv'
  <2> USE <1>2
  <2>1. ASSUME UNCHANGED <<sessions, pending, shown>>
        PROVE  SessionInv'
    BY <2>1 DEF SessionInv, ClosedIsQuiet, WaitingIsBacked, HeartbeatIsFresh, Prompts
  <2>2. ASSUME NEW c \in Call, HookConnects(c) \/ HookGivesUp(c)
        PROVE  SessionInv'
    BY <2>1, <2>2 DEF HookConnects, HookGivesUp, aggregator
  <2>3. ASSUME NEW c \in Call, Handle(c)
        PROVE  SessionInv'
    BY <2>1, <2>3 DEF Handle, HandlerWritesImmediate, HandlerWritesDecision, HandlerElapses,
                      HandlerReportsTimeout, HandlerWritesFallback, Close, aggregator
  <2>4. ASSUME NEW ev \in Event, NEW s \in Session, SessionEvent(ev, s)
        PROVE  SessionInv'
    BY <2>1, <2>4 DEF SessionEvent, aggregator
  <2>5. ASSUME NEW k \in Client, NEW i \in Id, (\E d \in Wire : Decide(k, i, d)) \/ ClickAlways(k, i)
        PROVE  SessionInv'
    BY <2>1, <2>5 DEF Decide, ClickAlways, aggregator
  <2>6. ASSUME NEW c \in Call, AutoAnswer(c) \/ DuplicateId(c)
        PROVE  SessionInv'
    BY <2>6, SessionOpened DEF AutoAnswer, DuplicateId
  <2>7. ASSUME NEW c \in Call, start_intercept(c)
        PROVE  SessionInv'
    <3>1. /\ pending[IdOf[c]] = NoCall
          /\ pending' = [pending EXCEPT ![IdOf[c]] = c]
          /\ sessions' = [sessions EXCEPT ![SessionOf[c]] =
                [open |-> TRUE, waiting |-> TRUE, pending_tool_use_id |-> IdOf[c]]]
          /\ HeartbeatIsFresh'
      BY <2>7 DEF start_intercept, broadcast_heartbeat, HeartbeatIsFresh
    <3>2. ClosedIsQuiet'
      BY <3>1 DEF SessionInv, ClosedIsQuiet, TypeOK
    <3>3. ASSUME NEW s \in Session, sessions'[s].waiting
          PROVE  LET i == sessions'[s].pending_tool_use_id
                 IN  i \in Id /\ pending'[i] # NoCall /\ SessionOf[pending'[i]] = s
      <4>1. CASE s = SessionOf[c]
        BY <3>1, <4>1 DEF TypeOK
      <4>2. CASE s # SessionOf[c]
        BY <3>1, <3>3, <4>2 DEF SessionInv, WaitingIsBacked, TypeOK
      <4>3. QED
        BY <4>1, <4>2
    <3>4. QED
      BY <3>1, <3>2, <3>3 DEF SessionInv, WaitingIsBacked
  <2>8. ASSUME NEW i \in Id, NEW d \in Wire, NEW k \in Client,
               handle_permission_decision(i, d, k)
        PROVE  SessionInv'
    BY <2>1, <2>8, SessionResolve DEF handle_permission_decision
  <2>9. ASSUME NEW i \in Id, handle_allowlist_always(i)
        PROVE  SessionInv'
    BY <2>1, <2>9, SessionResolve DEF handle_allowlist_always
  <2>10. ASSUME NEW i \in Id, ApprovalTimedOut(i)
         PROVE  SessionInv'
    BY <2>10, SessionResolve DEF ApprovalTimedOut
  <2>11. ASSUME NEW ev \in Event, NEW s \in Session, handle_hook_event(ev, s)
         PROVE  SessionInv'
    <3>1. /\ sessions' = [sessions EXCEPT ![s] = AfterEvent(ev, @)]
          /\ pending' = pending
          /\ HeartbeatIsFresh'
      BY <2>11 DEF handle_hook_event, broadcast_heartbeat, HeartbeatIsFresh
    <3>2. \/ ~AfterEvent(ev, sessions[s]).waiting
          \/ AfterEvent(ev, sessions[s]) = sessions[s]
      BY DEF AfterEvent, OrNew, NewSession, Absent, clear_pending
    <3>3. \A t \in Session : ~sessions'[t].waiting \/ sessions'[t] = sessions[t]
      BY <3>1, <3>2 DEF TypeOK
    <3>4. QED
      BY <3>1, <3>3 DEF SessionInv, ClosedIsQuiet, WaitingIsBacked
  <2>12. CASE Tick \/ UNCHANGED vars
    <3>1. UNCHANGED <<sessions, pending>> /\ (shown' = shown \/ shown' = Prompts')
      BY <2>12 DEF Tick, vars, aggregator, broadcast_heartbeat
    <3>2. Prompts' = Prompts
      BY <3>1 DEF Prompts
    <3>3. QED
      BY <2>1, <3>1, <3>2 DEF SessionInv, HeartbeatIsFresh
  <2>13. QED
    BY <2>2, <2>3, <2>4, <2>5, <2>6, <2>7, <2>8, <2>9, <2>10, <2>11, <2>12 DEF Next, Aggregate
<1>3. QED
  BY <1>1, <1>2, TypeCorrect, PTL DEF Spec

\* Every session that counts as waiting shows a prompt that one of its own calls
\* registered and that can still be decided.
THEOREM WaitingBacked == Spec => []WaitingIsBacked
<1>1. SessionInv => WaitingIsBacked
  BY DEF SessionInv
<1>2. QED
  BY <1>1, SessionInvHolds, PTL

\* The last heartbeat shows the prompts of now: no handler of the aggregator changes the
\* sessions or the pending map without a broadcast.
THEOREM HeartbeatFresh == Spec => []HeartbeatIsFresh
<1>1. SessionInv => HeartbeatIsFresh
  BY DEF SessionInv
<1>2. QED
  BY <1>1, SessionInvHolds, PTL

-----------------------------------------------------------------------------
(* Every answer is authorised, and the flow implements ApprovalSpec.       *)

\* What a handler writes for what it finds in its oneshot.
AnswerFor(x) == IF x \in {"passthrough", "dropped"} THEN "silent" ELSE wire_to_hook_decision(x)

\* Decisions in the channel were sent by users, timeout reports by handlers.
QueueIsHonest ==
    /\ \A i \in Id, d \in Wire, k \in Client : Queued(Decision(i, d, k)) => d \in intents[i]
    /\ \A i \in Id : Queued(Always(i)) => "always" \in intents[i]
    /\ \A i \in Id : Queued(TimedOut(i)) =>
          \E e \in Call : IdOf[e] = i /\ phase[e] \in {"fallback", "done"}

\* What a handler is about to write is authorised.
RxIsAuthorised ==
    \A c \in Call : phase[c] \in {"reply", "await"} /\ rx[c] # "none" =>
        Authorised(c, AnswerFor(rx[c]))

HeldAreAsked ==
    /\ \A c \in Call : phase[c] \in {"await", "lapsed", "fallback"} => "ask" \in Verdicts[c]
    /\ \A c \in Call : phase[c] = "reply" => rx[c] \in Wire \cup {"passthrough"}
    /\ \A c \in Call : phase[c] = "await" => rx[c] # "passthrough"

OutcomeFollowsPhase ==
    \A c \in Call : /\ outcome[c] = "none" <=> phase[c] = "idle"
                    /\ outcome[c] = "open" => phase[c] # "done"
                    /\ outcome[c] \in Final => phase[c] = "done"

AuthInv == QueueIsHonest /\ RxIsAuthorised /\ HeldAreAsked /\ OutcomeFollowsPhase /\ AnswerIsAuthorised

\* More verbs never withdraw an authorisation.
LEMMA AuthorisedGrows ==
    ASSUME TypeOK, NEW c \in Call, NEW a, Authorised(c, a),
           \A i \in Id : intents[i] \subseteq intents'[i]
    PROVE  Authorised(c, a)'
  BY ConstantTypes DEF Authorised, Shared

LEMMA MoreDifferences ==
    /\ \A i, j \in Id, d, e \in Wire, k, l \in Client :
          Decision(i, d, k) = Decision(j, e, l) => i = j /\ d = e
    /\ \A i, j \in Id, d \in Wire, k \in Client : Decision(i, d, k) # Always(j)
    /\ \A i \in Id, d \in Wire, k \in Client, ev \in Event, s \in Session :
          Decision(i, d, k) # HookEvent(ev, s)
    /\ \A i, j \in Id : Always(i) = Always(j) => i = j
    /\ \A i \in Id, ev \in Event, s \in Session : Always(i) # HookEvent(ev, s)
<1> USE DEF Decision, Always, HookEvent
<1>1. \A i, j \in Id, d, e \in Wire, k, l \in Client :
         Decision(i, d, k) = Decision(j, e, l) => i = j /\ d = e
  OBVIOUS
<1>2. \A i, j \in Id, d \in Wire, k \in Client : Decision(i, d, k) # Always(j)
  OBVIOUS
<1>3. \A i \in Id, d \in Wire, k \in Client, ev \in Event, s \in Session :
         Decision(i, d, k) # HookEvent(ev, s)
  OBVIOUS
<1>4. \A i, j \in Id : Always(i) = Always(j) => i = j
  OBVIOUS
<1>5. \A i \in Id, ev \in Event, s \in Session : Always(i) # HookEvent(ev, s)
  OBVIOUS
<1>6. QED
  BY <1>1, <1>2, <1>3, <1>4, <1>5

\* Nobody withdraws a verb, and a handler that reported or closed stays so.
Onward ==
    /\ \A i \in Id : intents[i] \subseteq intents'[i]
    /\ \A c \in Call : phase[c] \in {"fallback", "done"} => phase'[c] \in {"fallback", "done"}

LEMMA HonestReceive ==
    ASSUME TypeOK, QueueIsHonest, NEW m, Receive(m) \/ queue' = queue, Onward
    PROVE  QueueIsHonest'
<1>1. \A x : Queued(x)' => Queued(x)
  BY QueuedAfterReceive DEF TypeOK, Queued
<1>2. QED
  BY <1>1 DEF QueueIsHonest, Onward

LEMMA HonestSend ==
    ASSUME TypeOK, QueueIsHonest, NEW m \in Message, Send(m), Onward,
           \A i \in Id, d \in Wire, k \in Client : m = Decision(i, d, k) => d \in intents'[i],
           \A i \in Id : m = Always(i) => "always" \in intents'[i],
           \A i \in Id : m = TimedOut(i) =>
               \E e \in Call : IdOf[e] = i /\ phase'[e] \in {"fallback", "done"}
    PROVE  QueueIsHonest'
<1>1. \A x : Queued(x)' <=> Queued(x) \/ x = m
  BY QueuedAfterSend DEF TypeOK
<1>2. QED
  BY <1>1 DEF QueueIsHonest, Onward

\* What Resolve may hand to the call that holds i.
LEMMA AuthResolve ==
    ASSUME TypeOK, TypeOK', FlowInv, AuthInv, NEW m, Receive(m), NEW i \in Id,
           NEW x \in {"once", "deny", "dropped"}, Resolve(i, x),
           UNCHANGED <<phase, outcome, intents>>,
           \A c \in Call : /\ pending[i] = c /\ IdOf[c] = i
                           /\ phase[c] = "await" /\ "ask" \in Verdicts[c]
                           => Authorised(c, AnswerFor(x))
    PROVE  AuthInv'
<1> USE ConstantTypes, NullsAreFresh
<1>1. QueueIsHonest'
  BY HonestReceive DEF AuthInv, Onward
<1>2. \A c \in Call : \A a : Authorised(c, a)' <=> Authorised(c, a)
  BY DEF Authorised, Shared
<1>3. ASSUME NEW c \in Call, phase[c] \in {"reply", "await"}, rx'[c] # "none"
      PROVE  Authorised(c, AnswerFor(rx'[c]))
  <2>1. CASE rx'[c] = rx[c]
    BY <1>3, <2>1 DEF AuthInv, RxIsAuthorised
  <2>2. CASE rx'[c] # rx[c]
    <3>1. pending[i] = c /\ phase[c] = "await" /\ rx'[c] = x
      BY <2>2 DEF Resolve, TypeOK
    <3>2. IdOf[c] = i /\ "ask" \in Verdicts[c]
      BY <3>1, HeldCalls DEF FlowInv, HeldCall, AuthInv, HeldAreAsked
    <3>3. QED
      BY <3>1, <3>2
  <2>3. QED
    BY <2>1, <2>2
<1>4. RxIsAuthorised'
  BY <1>2, <1>3 DEF RxIsAuthorised, AnswerFor, wire_to_hook_decision
<1>5. HeldAreAsked'
  BY DEF AuthInv, HeldAreAsked, Resolve, TypeOK
<1>6. OutcomeFollowsPhase' /\ AnswerIsAuthorised'
  BY <1>2 DEF AuthInv, OutcomeFollowsPhase, AnswerIsAuthorised
<1>7. QED
  BY <1>1, <1>4, <1>5, <1>6 DEF AuthInv

\* A handler that closes with an authorised answer.
LEMMA AuthClose ==
    ASSUME TypeOK, AuthInv, NEW c \in Call, NEW a \in Final, Close(c, a), Authorised(c, a),
           phase[c] \in {"reply", "await", "fallback"}
    PROVE  AuthInv'
<1> USE ConstantTypes
<1>1. /\ UNCHANGED <<queue, rx, intents>>
      /\ phase' = [phase EXCEPT ![c] = "done"]
      /\ outcome' = [outcome EXCEPT ![c] = IF @ = "open" THEN a ELSE @]
  BY DEF Close, emitters
<1>2. QueueIsHonest'
  BY <1>1, HonestReceive DEF AuthInv, Onward, TypeOK
<1>3. \A e \in Call : \A b : Authorised(e, b)' <=> Authorised(e, b)
  BY <1>1 DEF Authorised, Shared
<1>4. RxIsAuthorised' /\ HeldAreAsked'
  BY <1>1, <1>3 DEF AuthInv, RxIsAuthorised, HeldAreAsked, TypeOK, AnswerFor, wire_to_hook_decision
<1>5. OutcomeFollowsPhase'
  BY <1>1 DEF AuthInv, OutcomeFollowsPhase, TypeOK, Final
<1>6. AnswerIsAuthorised'
  BY <1>1, <1>3 DEF AuthInv, AnswerIsAuthorised, TypeOK
<1>7. QED
  BY <1>2, <1>4, <1>5, <1>6 DEF AuthInv

\* What a handler writes is authorised.
LEMMA WrittenIsAuthorised ==
    ASSUME TypeOK, AuthInv, NEW c \in Call,
           HandlerWritesImmediate(c) \/ HandlerWritesDecision(c) \/ HandlerWritesFallback(c)
    PROVE  \E a \in Final : /\ Close(c, a) /\ Authorised(c, a)
                            /\ phase[c] \in {"reply", "await", "fallback"}
<1> USE DEF Final
<1>1. ASSUME HandlerWritesImmediate(c) \/ HandlerWritesDecision(c)
      PROVE  /\ Close(c, AnswerFor(rx[c])) /\ AnswerFor(rx[c]) \in Final
             /\ Authorised(c, AnswerFor(rx[c])) /\ phase[c] \in {"reply", "await"}
  <2>1. phase[c] \in {"reply", "await"} /\ rx[c] # "none"
    BY <1>1 DEF HandlerWritesImmediate, HandlerWritesDecision, AuthInv, HeldAreAsked, Wire
  <2>2. Authorised(c, AnswerFor(rx[c]))
    BY <2>1 DEF AuthInv, RxIsAuthorised
  <2>3. AnswerFor(rx[c]) \in Final
    BY DEF AnswerFor, wire_to_hook_decision
  <2>4. CASE HandlerWritesImmediate(c)
    <3>1. phase[c] = "reply" /\ rx[c] # "dropped"
      BY <2>4 DEF HandlerWritesImmediate, AuthInv, HeldAreAsked, Wire
    <3>2. QED
      BY <2>1, <2>2, <2>3, <2>4, <3>1 DEF HandlerWritesImmediate, AnswerFor
  <2>5. CASE HandlerWritesDecision(c)
    <3>1. phase[c] = "await" /\ rx[c] # "passthrough"
      BY <2>5 DEF HandlerWritesDecision, AuthInv, HeldAreAsked
    <3>2. QED
      BY <2>1, <2>2, <2>3, <2>5, <3>1 DEF HandlerWritesDecision, AnswerFor
  <2>6. QED
    BY <1>1, <2>4, <2>5
<1>2. ASSUME HandlerWritesFallback(c)
      PROVE  /\ Close(c, fallback_response) /\ fallback_response \in Final
             /\ Authorised(c, fallback_response) /\ phase[c] = "fallback"
  BY <1>2, ConstantTypes
     DEF HandlerWritesFallback, fallback_response, Authorised, AuthInv, HeldAreAsked
<1>3. QED
  BY <1>1, <1>2

LEMMA AuthInvHolds == Spec => []AuthInv
<1> USE ConstantTypes, NullsAreFresh
<1>1. Init => AuthInv
  <2>1. Init => /\ queue = <<>>
                /\ \A c \in Call : phase[c] = "idle" /\ rx[c] = "none" /\ outcome[c] = "none"
    BY DEF Init
  <2>2. QED
    BY <2>1 DEF AuthInv, QueueIsHonest, RxIsAuthorised, HeldAreAsked, OutcomeFollowsPhase,
                AnswerIsAuthorised, Queued, Final
<1>2. ASSUME TypeOK, TypeOK', FlowInv, AuthInv, [Next]_vars
      PROVE  AuthInv'
  <2> USE <1>2
  \* Steps that change neither phases nor outcomes, oneshots nor verbs.
  <2>1. ASSUME NEW m \in Message, Receive(m) \/ queue' = queue,
               UNCHANGED <<phase, rx, outcome, intents>>
        PROVE  AuthInv'
    <3>1. QueueIsHonest'
      BY <2>1, HonestReceive DEF AuthInv, Onward
    <3>2. QED
      BY <2>1, <3>1 DEF AuthInv, RxIsAuthorised, HeldAreAsked, OutcomeFollowsPhase,
                        AnswerIsAuthorised, Authorised, Shared, AnswerFor
  <2>2. ASSUME NEW c \in Call, HookConnects(c)
        PROVE  AuthInv'
    <3>1. /\ Send(PreToolUse(c)) /\ PreToolUse(c) \in Message
          /\ phase[c] = "idle" /\ phase' = [phase EXCEPT ![c] = "sent"]
          /\ outcome' = [outcome EXCEPT ![c] = "open"]
          /\ UNCHANGED <<rx, intents>>
      BY <2>2, MessageTypes DEF HookConnects, emitters
    <3>2. Onward
      BY <3>1 DEF Onward, TypeOK
    <3>3. QueueIsHonest'
      BY <3>1, <3>2, HonestSend, MessagesDiffer DEF AuthInv
    <3>4. QED
      BY <3>1, <3>3 DEF AuthInv, RxIsAuthorised, HeldAreAsked, OutcomeFollowsPhase,
                        AnswerIsAuthorised, Authorised, Shared, AnswerFor, Final, TypeOK
  <2>3. ASSUME NEW c \in Call, HookGivesUp(c)
        PROVE  AuthInv'
    <3>1. /\ UNCHANGED <<queue, phase, rx, intents>>
          /\ outcome[c] = "open" /\ outcome' = [outcome EXCEPT ![c] = "gone"]
      BY <2>3 DEF HookGivesUp, emitters
    <3>2. QueueIsHonest'
      BY <3>1 DEF AuthInv, QueueIsHonest, Queued
    <3>3. QED
      BY <3>1, <3>2 DEF AuthInv, RxIsAuthorised, HeldAreAsked, OutcomeFollowsPhase,
                        AnswerIsAuthorised, Authorised, Shared, AnswerFor, Final, TypeOK
  <2>4. ASSUME NEW c \in Call, Handle(c)
        PROVE  AuthInv'
    <3>1. CASE HandlerWritesImmediate(c) \/ HandlerWritesDecision(c) \/ HandlerWritesFallback(c)
      BY <3>1, WrittenIsAuthorised, AuthClose
    <3>2. CASE HandlerElapses(c)
      <4>1. /\ UNCHANGED <<queue, rx, outcome, intents>>
            /\ phase[c] = "await" /\ phase' = [phase EXCEPT ![c] = "lapsed"]
        BY <3>2 DEF HandlerElapses, emitters
      <4>2. QueueIsHonest'
        BY <4>1, HonestReceive DEF AuthInv, Onward, TypeOK
      <4>3. QED
        BY <4>1, <4>2 DEF AuthInv, RxIsAuthorised, HeldAreAsked, OutcomeFollowsPhase,
                          AnswerIsAuthorised, Authorised, Shared, AnswerFor, TypeOK
    <3>3. CASE HandlerReportsTimeout(c)
      <4>1. /\ Send(TimedOut(IdOf[c])) /\ TimedOut(IdOf[c]) \in Message
            /\ UNCHANGED <<rx, outcome, intents>>
            /\ phase[c] = "lapsed" /\ phase' = [phase EXCEPT ![c] = "fallback"]
        BY <3>3, MessageTypes DEF HandlerReportsTimeout, emitters
      <4>2. Onward /\ phase'[c] = "fallback"
        BY <4>1 DEF Onward, TypeOK
      <4>3. QueueIsHonest'
        BY <4>1, <4>2, HonestSend, MessagesDiffer DEF AuthInv
      <4>4. QED
        BY <4>1, <4>3 DEF AuthInv, RxIsAuthorised, HeldAreAsked, OutcomeFollowsPhase,
                          AnswerIsAuthorised, Authorised, Shared, AnswerFor, TypeOK
    <3>4. QED
      BY <2>4, <3>1, <3>2, <3>3 DEF Handle
  <2>5. ASSUME NEW ev \in Event, NEW s \in Session, SessionEvent(ev, s)
        PROVE  AuthInv'
    <3>1. /\ Send(HookEvent(ev, s)) /\ HookEvent(ev, s) \in Message
          /\ UNCHANGED <<phase, rx, outcome, intents>>
      BY <2>5, MessageTypes DEF SessionEvent, handlers, emitters
    <3>2. QueueIsHonest'
      BY <3>1, HonestSend, MessagesDiffer, MoreDifferences DEF AuthInv, Onward
    <3>3. QED
      BY <3>1, <3>2 DEF AuthInv, RxIsAuthorised, HeldAreAsked, OutcomeFollowsPhase,
                        AnswerIsAuthorised, Authorised, Shared, AnswerFor
  \* A user's verb only adds authorisations.
  <2>6. ASSUME NEW i \in Id, NEW verb \in Verb, intents' = [intents EXCEPT ![i] = @ \cup {verb}],
               UNCHANGED <<phase, rx, outcome>>, QueueIsHonest'
        PROVE  AuthInv'
    <3>1. \A j \in Id : intents[j] \subseteq intents'[j]
      BY <2>6 DEF TypeOK
    <3>2. \A c \in Call : \A a : Authorised(c, a) => Authorised(c, a)'
      BY <3>1, AuthorisedGrows
    <3>3. QED
      BY <2>6, <3>2 DEF AuthInv, RxIsAuthorised, HeldAreAsked, OutcomeFollowsPhase,
                        AnswerIsAuthorised, AnswerFor, wire_to_hook_decision
  <2>7. ASSUME NEW k \in Client, NEW i \in Id, NEW d \in Wire, Decide(k, i, d)
        PROVE  AuthInv'
    <3>1. /\ Send(Decision(i, d, k)) /\ Decision(i, d, k) \in Message
          /\ intents' = [intents EXCEPT ![i] = @ \cup {d}]
          /\ UNCHANGED <<phase, rx, outcome>>
      BY <2>7, MessageTypes DEF Decide, handlers
    <3>2. Onward /\ d \in intents'[i]
      BY <3>1 DEF Onward, TypeOK
    <3>3. QueueIsHonest'
      BY <3>1, <3>2, HonestSend, MessagesDiffer, MoreDifferences DEF AuthInv
    <3>4. QED
      BY <2>6, <3>1, <3>3 DEF Verb
  <2>8. ASSUME NEW k \in Client, NEW i \in Id, ClickAlways(k, i)
        PROVE  AuthInv'
    <3>1. /\ Send(Always(i)) /\ Always(i) \in Message
          /\ intents' = [intents EXCEPT ![i] = @ \cup {"always"}]
          /\ UNCHANGED <<phase, rx, outcome>>
      BY <2>8, MessageTypes DEF ClickAlways, handlers
    <3>2. Onward /\ "always" \in intents'[i]
      BY <3>1 DEF Onward, TypeOK
    <3>3. QueueIsHonest'
      BY <3>1, <3>2, HonestSend, MessagesDiffer, MoreDifferences DEF AuthInv
    <3>4. QED
      BY <2>6, <3>1, <3>3 DEF Verb
  \* A PreToolUse event that is answered at once, with an authorised answer.
  <2>9. ASSUME NEW c \in Call, NEW a \in Wire \cup {"passthrough"}, Receive(PreToolUse(c)),
               Reply(c, a), UNCHANGED <<outcome, intents>>, Authorised(c, AnswerFor(a))
        PROVE  AuthInv'
    <3>1. phase[c] = "sent"
      BY <2>9, SentOnceReceive, MessagesDiffer DEF FlowInv, Reply, TypeOK
    <3>2. QueueIsHonest'
      BY <2>9, <3>1, HonestReceive DEF AuthInv, Onward, Reply, TypeOK
    <3>3. \A e \in Call : \A b : Authorised(e, b)' <=> Authorised(e, b)
      BY <2>9 DEF Authorised, Shared
    <3>4. RxIsAuthorised'
      <4>1. ASSUME NEW e \in Call, phase'[e] \in {"reply", "await"}, rx'[e] # "none"
            PROVE  Authorised(e, AnswerFor(rx'[e]))
        BY <2>9, <4>1 DEF Reply, AuthInv, RxIsAuthorised, TypeOK
      <4>2. QED
        BY <3>3, <4>1 DEF RxIsAuthorised, AnswerFor, wire_to_hook_decision
    <3>5. HeldAreAsked' /\ OutcomeFollowsPhase'
      BY <2>9, <3>1 DEF AuthInv, HeldAreAsked, OutcomeFollowsPhase, Reply, TypeOK
    <3>6. AnswerIsAuthorised'
      BY <2>9, <3>3 DEF AuthInv, AnswerIsAuthorised
    <3>7. QED
      BY <3>2, <3>4, <3>5, <3>6 DEF AuthInv
  <2>10. ASSUME NEW c \in Call, AutoAnswer(c)
         PROVE  AuthInv'
    <3>1. Receive(PreToolUse(c)) /\ UNCHANGED <<outcome, intents>>
      BY <2>10 DEF AutoAnswer, emitters
    <3>2. CASE "allow" \in Verdicts[c] /\ Reply(c, "once")
      BY <2>9, <3>1, <3>2 DEF Authorised, AnswerFor, wire_to_hook_decision, Wire
    <3>3. CASE "deny" \in Verdicts[c] /\ Reply(c, "deny")
      BY <2>9, <3>1, <3>3 DEF Authorised, AnswerFor, wire_to_hook_decision, Wire
    <3>4. QED
      BY <2>10, <3>2, <3>3 DEF AutoAnswer
  <2>11. ASSUME NEW c \in Call, DuplicateId(c)
         PROVE  AuthInv'
    <3>1. /\ Receive(PreToolUse(c)) /\ Reply(c, "passthrough") /\ "ask" \in Verdicts[c]
          /\ pending[IdOf[c]] # NoCall /\ UNCHANGED <<outcome, intents>>
      BY <2>11 DEF DuplicateId, emitters
    <3>2. phase[c] = "sent"
      BY <3>1, SentOnceReceive, MessagesDiffer DEF FlowInv, Reply, TypeOK
    <3>3. PICK e \in Call : pending[IdOf[c]] = e
      BY <3>1 DEF TypeOK
    <3>4. IdOf[e] = IdOf[c] /\ e # c
      BY <3>2, <3>3, HeldCalls DEF FlowInv, HeldCall, ReportDue
    <3>5. Authorised(c, AnswerFor("passthrough"))
      BY <3>1, <3>4 DEF Authorised, Shared, AnswerFor
    <3>6. QED
      BY <2>9, <3>1, <3>5
  <2>12. ASSUME NEW c \in Call, start_intercept(c)
         PROVE  AuthInv'
    <3>1. /\ Receive(PreToolUse(c)) /\ "ask" \in Verdicts[c]
          /\ phase' = [phase EXCEPT ![c] = "await"]
          /\ UNCHANGED <<rx, outcome, intents>>
      BY <2>12 DEF start_intercept, emitters
    <3>2. phase[c] = "sent" /\ rx[c] = "none"
      BY <3>1, SentOnceReceive, MessagesDiffer DEF FlowInv, RxUnused, TypeOK
    <3>3. QueueIsHonest'
      BY <3>1, <3>2, HonestReceive DEF AuthInv, Onward, TypeOK
    <3>4. QED
      BY <3>1, <3>2, <3>3 DEF AuthInv, RxIsAuthorised, HeldAreAsked, OutcomeFollowsPhase,
                              AnswerIsAuthorised, Authorised, Shared, AnswerFor, TypeOK
  <2>13. ASSUME NEW i \in Id, NEW d \in Wire, NEW k \in Client,
                handle_permission_decision(i, d, k)
         PROVE  AuthInv'
    <3>1. /\ Receive(Decision(i, d, k)) /\ Decision(i, d, k) \in Message
          /\ UNCHANGED <<phase, outcome, intents>>
      BY <2>13, MessageTypes DEF handle_permission_decision
    <3>2. d \in intents[i]
      BY <3>1, QueuedAfterReceive DEF AuthInv, QueueIsHonest, TypeOK
    <3>3. CASE Resolve(i, d)
      <4>1. \A c \in Call : IdOf[c] = i /\ "ask" \in Verdicts[c] => Authorised(c, AnswerFor(d))
        BY <3>2 DEF Authorised, AnswerFor, wire_to_hook_decision, Wire
      <4>2. QED
        BY <3>1, <3>3, <4>1, AuthResolve DEF Wire
    <3>4. CASE UNCHANGED <<pending, sessions, shown, rx>>
      BY <2>1, <3>1, <3>4
    <3>5. QED
      BY <2>13, <3>3, <3>4 DEF handle_permission_decision
  <2>14. ASSUME NEW i \in Id, handle_allowlist_always(i)
         PROVE  AuthInv'
    <3>1. /\ Receive(Always(i)) /\ Always(i) \in Message
          /\ UNCHANGED <<phase, outcome, intents>>
      BY <2>14, MessageTypes DEF handle_allowlist_always, emitters
    <3>2. "always" \in intents[i]
      BY <3>1, QueuedAfterReceive DEF AuthInv, QueueIsHonest, TypeOK
    <3>3. CASE pending[i] \in Derivable /\ Resolve(i, "once")
      <4>1. \A c \in Call : pending[i] = c /\ IdOf[c] = i /\ "ask" \in Verdicts[c]
                            => Authorised(c, AnswerFor("once"))
        BY <3>2, <3>3 DEF Authorised, AnswerFor, wire_to_hook_decision
      <4>2. QED
        BY <3>1, <3>3, <4>1, AuthResolve
    <3>4. CASE pending[i] \in Call \ Derivable /\ Resolve(i, "deny")
      <4>1. \A c \in Call : pending[i] = c /\ IdOf[c] = i /\ "ask" \in Verdicts[c]
                            => Authorised(c, AnswerFor("deny"))
        BY <3>2, <3>4 DEF Authorised, AnswerFor, wire_to_hook_decision
      <4>2. QED
        BY <3>1, <3>4, <4>1, AuthResolve
    <3>5. CASE UNCHANGED <<pending, sessions, shown, rx, learned>>
      BY <2>1, <3>1, <3>5
    <3>6. QED
      BY <2>14, <3>3, <3>4, <3>5 DEF handle_allowlist_always
  <2>15. ASSUME NEW i \in Id, ApprovalTimedOut(i)
         PROVE  AuthInv'
    <3>1. /\ Receive(TimedOut(i)) /\ Resolve(i, "dropped")
          /\ UNCHANGED <<phase, outcome, intents>>
      BY <2>15 DEF ApprovalTimedOut, emitters
    <3>2. PICK e \in Call : IdOf[e] = i /\ phase[e] \in {"fallback", "done"}
      BY <3>1, QueuedAfterReceive DEF AuthInv, QueueIsHonest, TypeOK
    <3>3. \A c \in Call : IdOf[c] = i /\ phase[c] = "await" /\ "ask" \in Verdicts[c]
                          => Authorised(c, AnswerFor("dropped"))
      BY <3>2 DEF Authorised, Shared, AnswerFor
    <3>4. QED
      BY <3>1, <3>3, AuthResolve
  <2>16. ASSUME NEW ev \in Event, NEW s \in Session, handle_hook_event(ev, s)
         PROVE  AuthInv'
    BY <2>1, <2>16, MessageTypes DEF handle_hook_event, handlers, emitters
  <2>17. CASE Tick \/ UNCHANGED vars
    <3>1. UNCHANGED <<queue, phase, rx, outcome, intents>>
      BY <2>17 DEF Tick, vars, handlers, emitters
    <3>2. QED
      BY <3>1 DEF AuthInv, QueueIsHonest, Queued, RxIsAuthorised, HeldAreAsked,
                  OutcomeFollowsPhase, AnswerIsAuthorised, Authorised, Shared, AnswerFor
  <2>18. QED
    BY <2>2, <2>3, <2>4, <2>5, <2>7, <2>8, <2>10, <2>11, <2>12, <2>13, <2>14, <2>15, <2>16,
       <2>17 DEF Next, Aggregate
<1>3. QED
  BY <1>1, <1>2, TypeCorrect, FlowInvHolds, PTL DEF Spec

\* Whatever Claude Code is told was authorised by the allowlist, a user or the
\* configured fallback; only calls that share an id are dropped silently.
THEOREM AnswersAuthorised == Spec => []AnswerIsAuthorised
<1>1. AuthInv => AnswerIsAuthorised
  BY DEF AuthInv
<1>2. QED
  BY <1>1, AuthInvHolds, PTL

-----------------------------------------------------------------------------
(* Round trips.                                                            *)
(*                                                                         *)
(* An answer reaches the client that asked, about what it asked: a client  *)
(* that waits has at most one decision in the channel, the one it noted.   *)

IsDecisionOf(m, k) == \E i \in Id, d \in Wire : m = Decision(i, d, k)

RequestsMatch ==
    \A k \in RoundTrip, i \in Id, d \in Wire : Queued(Decision(i, d, k)) =>
        /\ client[k].state = "waiting"
        /\ client[k].id = i
        /\ client[k].decision = d

OneRequest ==
    \A k \in RoundTrip : \A m, n \in 1..Len(queue) :
        IsDecisionOf(queue[m], k) /\ IsDecisionOf(queue[n], k) => m = n

Requests == RequestsMatch /\ OneRequest

\* A handler that elapsed on an empty oneshot.
Gone(c) == rx[c] = "none" /\ phase[c] \in {"lapsed", "fallback", "done"}

\* Some call of id i has received d, or has elapsed.
Settled(i, d) == \E c \in Call : IdOf[c] = i /\ (rx[c] = d \/ Gone(c))

LEMMA DecisionsDiffer ==
    /\ \A i, j \in Id, d, e \in Wire, k, l \in Client :
          Decision(i, d, k) = Decision(j, e, l) => i = j /\ d = e /\ k = l
    /\ \A k \in Client, c \in Call : ~IsDecisionOf(PreToolUse(c), k)
    /\ \A k \in Client, i \in Id : ~IsDecisionOf(Always(i), k) /\ ~IsDecisionOf(TimedOut(i), k)
    /\ \A k \in Client, ev \in Event, s \in Session : ~IsDecisionOf(HookEvent(ev, s), k)
<1>1. \A i, j \in Id, d, e \in Wire, k, l \in Client :
         Decision(i, d, k) = Decision(j, e, l) => i = j /\ d = e /\ k = l
  BY DEF Decision
<1>2. QED
  BY <1>1, MessagesDiffer, MoreDifferences DEF IsDecisionOf

\* Requests survive the sending of anything that is not a round trip.
LEMMA RequestsSend ==
    ASSUME TypeOK, Requests, NEW m \in Message, Send(m), client' = client,
           \A k \in RoundTrip : ~IsDecisionOf(m, k)
    PROVE  Requests'
<1>0. queue \in Seq(Message)
  BY DEF TypeOK
<1>1. RequestsMatch'
  BY <1>0, QueuedAfterSend DEF Requests, RequestsMatch, IsDecisionOf
<1>2. ASSUME NEW k \in RoundTrip, NEW p \in 1..Len(queue'), NEW n \in 1..Len(queue'),
             IsDecisionOf(queue'[p], k), IsDecisionOf(queue'[n], k)
      PROVE  p = n
  <2>1. p \in 1..Len(queue) /\ n \in 1..Len(queue)
    BY <1>0, <1>2, SendFacts
  <2>2. queue'[p] = queue[p] /\ queue'[n] = queue[n]
    BY <1>0, <2>1, SendFacts
  <2>3. QED
    BY <1>2, <2>1, <2>2 DEF Requests, OneRequest
<1>3. QED
  BY <1>1, <1>2 DEF Requests, OneRequest

\* A received decision was the only one of its client, which may change now.
LEMMA RequestsReceive ==
    ASSUME TypeOK, Requests, NEW m, Receive(m),
           \A k \in RoundTrip : ~IsDecisionOf(m, k) => client'[k] = client[k]
    PROVE  Requests'
<1>0. queue \in Seq(Message)
  BY DEF TypeOK
<1>1. ASSUME NEW k \in RoundTrip, NEW i \in Id, NEW d \in Wire, Queued(Decision(i, d, k))'
      PROVE  Queued(Decision(i, d, k)) /\ ~IsDecisionOf(m, k)
  <2>1. PICK n \in 1..Len(queue') : queue'[n] = Decision(i, d, k)
    BY <1>1 DEF Queued
  <2>2. /\ n + 1 \in 1..Len(queue) /\ 1 \in 1..Len(queue) /\ n + 1 # 1
        /\ queue[n + 1] = Decision(i, d, k) /\ queue[1] = m
    BY <1>0, <2>1, ReceiveFacts
  <2>3. IsDecisionOf(queue[n + 1], k)
    BY <2>2 DEF IsDecisionOf
  <2>4. ~IsDecisionOf(m, k)
    BY <2>2, <2>3 DEF Requests, OneRequest
  <2>5. QED
    BY <2>2, <2>4 DEF Queued
<1>2. RequestsMatch'
  BY <1>1 DEF Requests, RequestsMatch
<1>3. ASSUME NEW k \in RoundTrip, NEW p \in 1..Len(queue'), NEW n \in 1..Len(queue'),
             IsDecisionOf(queue'[p], k), IsDecisionOf(queue'[n], k)
      PROVE  p = n
  <2>1. /\ p + 1 \in 1..Len(queue) /\ n + 1 \in 1..Len(queue)
        /\ queue[p + 1] = queue'[p] /\ queue[n + 1] = queue'[n]
    BY <1>0, ReceiveFacts
  <2>2. p + 1 = n + 1
    BY <1>3, <2>1 DEF Requests, OneRequest
  <2>3. QED
    BY <2>2
<1>4. QED
  BY <1>2, <1>3 DEF Requests, OneRequest

\* A client that waits for nothing has nothing in the channel.
LEMMA RequestsDecide ==
    ASSUME TypeOK, Requests, NEW k \in Client, NEW i \in Id, NEW d \in Wire, Decide(k, i, d)
    PROVE  Requests'
<1> USE ConstantTypes
<1>0. queue \in Seq(Message) /\ Decision(i, d, k) \in Message /\ Send(Decision(i, d, k))
  BY MessageTypes DEF TypeOK, Decide
<1>1. CASE k \notin RoundTrip
  <2>1. client' = client
    BY <1>1 DEF Decide, TypeOK
  <2>2. \A l \in RoundTrip : ~IsDecisionOf(Decision(i, d, k), l)
    BY <1>1, DecisionsDiffer DEF IsDecisionOf
  <2>3. QED
    BY <1>0, <2>1, <2>2, RequestsSend
<1>2. CASE k \in RoundTrip
  <2>1. /\ client' = [client EXCEPT ![k] = [state |-> "waiting", id |-> i, decision |-> d]]
        /\ client[k].state # "waiting"
    BY <1>2 DEF Decide
  <2>2. /\ client'[k] = [state |-> "waiting", id |-> i, decision |-> d]
        /\ \A l \in Client \ {k} : client'[l] = client[l]
    BY <2>1 DEF TypeOK
  <2>3. \A n \in 1..Len(queue) : ~IsDecisionOf(queue[n], k)
    BY <1>2, <2>1 DEF Requests, RequestsMatch, IsDecisionOf, Queued
  <2>4. ASSUME NEW l \in RoundTrip, NEW j \in Id, NEW e \in Wire, Queued(Decision(j, e, l))'
        PROVE  client'[l].state = "waiting" /\ client'[l].id = j /\ client'[l].decision = e
    <3>1. Queued(Decision(j, e, l)) \/ Decision(j, e, l) = Decision(i, d, k)
      BY <1>0, <2>4, QueuedAfterSend
    <3>2. CASE l = k
      <4>1. ~Queued(Decision(j, e, l))
        BY <2>3, <3>2 DEF Queued, IsDecisionOf
      <4>2. j = i /\ e = d
        BY <3>1, <4>1, DecisionsDiffer
      <4>3. QED
        BY <2>2, <3>2, <4>2
    <3>3. CASE l # k
      <4>1. Queued(Decision(j, e, l))
        BY <3>1, <3>3, DecisionsDiffer
      <4>2. QED
        BY <2>2, <3>3, <4>1 DEF Requests, RequestsMatch
    <3>4. QED
      BY <3>2, <3>3
  <2>5. ASSUME NEW l \in RoundTrip, NEW p \in 1..Len(queue'), NEW n \in 1..Len(queue'),
               IsDecisionOf(queue'[p], l), IsDecisionOf(queue'[n], l)
        PROVE  p = n
    <3>1. CASE l = k
      <4>1. p = Len(queue) + 1 /\ n = Len(queue) + 1
        BY <1>0, <2>3, <2>5, <3>1, SendFacts
      <4>2. QED
        BY <4>1
    <3>2. CASE l # k
      <4>1. ~IsDecisionOf(Decision(i, d, k), l)
        BY <3>2, DecisionsDiffer DEF IsDecisionOf
      <4>2. p \in 1..Len(queue) /\ n \in 1..Len(queue)
        BY <1>0, <2>5, <4>1, SendFacts
      <4>3. queue'[p] = queue[p] /\ queue'[n] = queue[n]
        BY <1>0, <4>2, SendFacts
      <4>4. QED
        BY <2>5, <4>2, <4>3 DEF Requests, OneRequest
    <3>3. QED
      BY <3>1, <3>2
  <2>6. QED
    BY <2>4, <2>5 DEF Requests, RequestsMatch, OneRequest
<1>3. QED
  BY <1>1, <1>2

\* A handler that has elapsed is never handed anything and never waits again.
LEMMA GoneStays ==
    ASSUME TypeOK, FlowInv, [Next]_vars, NEW c \in Call, Gone(c)
    PROVE  Gone(c)'
<1> USE ConstantTypes, NullsAreFresh
<1>1. ASSUME NEW i \in Id, NEW x, Resolve(i, x), phase' = phase
      PROVE  Gone(c)'
  BY <1>1 DEF Resolve, Gone, TypeOK
<1>2. ASSUME NEW e \in Call, Receive(PreToolUse(e))
      PROVE  e # c
  BY <1>2, QueuedAfterReceive DEF FlowInv, SentOnce, Gone, TypeOK
<1>3. CASE UNCHANGED <<phase, rx>>
  BY <1>3 DEF Gone
<1>4. ASSUME NEW e \in Call, HookConnects(e) \/ HookGivesUp(e) \/ Handle(e)
      PROVE  Gone(c)'
  BY <1>4 DEF HookConnects, HookGivesUp, Handle, HandlerWritesImmediate, HandlerWritesDecision,
              HandlerElapses, HandlerReportsTimeout, HandlerWritesFallback, Close, Gone, TypeOK
<1>5. ASSUME NEW ev \in Event, NEW s \in Session, SessionEvent(ev, s) \/ handle_hook_event(ev, s)
      PROVE  UNCHANGED <<phase, rx>>
  BY <1>5 DEF SessionEvent, handle_hook_event, handlers
<1>6. ASSUME NEW k \in Client, NEW i \in Id, (\E d \in Wire : Decide(k, i, d)) \/ ClickAlways(k, i)
      PROVE  UNCHANGED <<phase, rx>>
  BY <1>6 DEF Decide, ClickAlways, handlers
<1>7. ASSUME NEW e \in Call, AutoAnswer(e) \/ DuplicateId(e) \/ start_intercept(e)
      PROVE  Gone(c)'
  BY <1>2, <1>7 DEF AutoAnswer, DuplicateId, start_intercept, Reply, Gone, TypeOK
<1>8. ASSUME NEW i \in Id, NEW d \in Wire, NEW k \in Client, handle_permission_decision(i, d, k)
      PROVE  Gone(c)'
  BY <1>1, <1>3, <1>8 DEF handle_permission_decision
<1>9. ASSUME NEW i \in Id, handle_allowlist_always(i) \/ ApprovalTimedOut(i)
      PROVE  Gone(c)'
  BY <1>1, <1>3, <1>9 DEF handle_allowlist_always, ApprovalTimedOut
<1>10. CASE Tick \/ UNCHANGED vars
  BY <1>3, <1>10 DEF Tick, vars, handlers
<1>11. QED
  BY <1>3, <1>4, <1>5, <1>6, <1>7, <1>8, <1>9, <1>10 DEF Next, Aggregate

\* What settled a decision stays.
LEMMA SettledStays ==
    ASSUME TypeOK, FlowInv, [Next]_vars, NEW i, NEW d \in Wire, Settled(i, d)
    PROVE  \E c \in Call : IdOf[c] = i /\ (rx'[c] = d \/ Gone(c)')
<1>1. PICK c \in Call : IdOf[c] = i /\ (rx[c] = d \/ Gone(c))
  BY DEF Settled
<1>2. rx[c] = d => rx'[c] = d
  BY FirstWins DEF Wire
<1>3. Gone(c) => Gone(c)'
  BY GoneStays
<1>4. QED
  BY <1>1, <1>2, <1>3

\* A decision that finds its approval pending settles it: the call that holds it
\* still waits and receives the decision, or has elapsed.
LEMMA ResolveSettles ==
    ASSUME TypeOK, FlowInv, NEW i \in Id, NEW d \in Wire, pending[i] # NoCall, Resolve(i, d),
           phase' = phase
    PROVE  \E c \in Call : IdOf[c] = i /\ (rx'[c] = d \/ Gone(c)')
<1> USE ConstantTypes, NullsAreFresh
<1>0. PICK c \in Call : pending[i] = c
  BY DEF TypeOK
<1>1. c \in Call /\ IdOf[c] = i /\ rx[c] = "none" /\ (phase[c] = "await" \/ ReportDue(c))
  BY <1>0 DEF FlowInv, NoLeakedApproval, TypeOK
<1>2. CASE phase[c] = "await"
  <2>1. rx'[c] = d
    BY <1>0, <1>1, <1>2 DEF Resolve, TypeOK
  <2>2. QED
    BY <1>1, <2>1
<1>3. CASE phase[c] # "await"
  <2>1. Gone(c)'
    BY <1>0, <1>1, <1>3 DEF Resolve, ReportDue, Gone
  <2>2. QED
    BY <1>1, <2>1
<1>4. QED
  BY <1>2, <1>3

\* AppliedIsDeliveredOrLapsed, said of one client.
AppliedSettled(k) ==
    client[k].state = "applied" => Settled(client[k].id, client[k].decision)

LEMMA AppliedAreSettled ==
    AppliedIsDeliveredOrLapsed <=> \A k \in Client : AppliedSettled(k)
  BY DEF AppliedIsDeliveredOrLapsed, AppliedSettled, Settled, Gone

LEMMA AppliedAreSettledNext ==
    ASSUME \A k \in Client : AppliedSettled(k)'
    PROVE  AppliedIsDeliveredOrLapsed'
  BY DEF AppliedIsDeliveredOrLapsed, AppliedSettled, Settled, Gone

\* What a client was told stays true while the client is told nothing new.
LEMMA AppliedStays ==
    ASSUME TypeOK, FlowInv, [Next]_vars, AppliedIsDeliveredOrLapsed,
           NEW k \in Client, client'[k] = client[k]
    PROVE  AppliedSettled(k)'
<1>1. SUFFICES ASSUME client[k].state = "applied"
               PROVE  \E c \in Call : /\ IdOf[c] = client[k].id
                                      /\ rx'[c] = client[k].decision \/ Gone(c)'
  BY DEF AppliedSettled, Settled
<1>2. client[k].decision \in Wire /\ Settled(client[k].id, client[k].decision)
  BY <1>1, AppliedAreSettled DEF TypeOK, AppliedSettled
<1>3. QED
  BY <1>2, SettledStays

\* The answer "ok" tells a client of its own decision, settled in this very step.
LEMMA AppliedAnswer ==
    ASSUME TypeOK, TypeOK', FlowInv, Requests, AppliedIsDeliveredOrLapsed, [Next]_vars,
           NEW i \in Id, NEW d \in Wire, NEW k \in Client, handle_permission_decision(i, d, k)
    PROVE  Requests' /\ AppliedIsDeliveredOrLapsed'
<1> USE ConstantTypes
<1>1. Receive(Decision(i, d, k)) /\ phase' = phase
  BY DEF handle_permission_decision
<1>2. \A l \in Client \ {k} : client'[l] = client[l]
  BY DEF handle_permission_decision, Acknowledge, TypeOK
<1>3. Requests'
  BY <1>1, <1>2, DecisionsDiffer, RequestsReceive DEF IsDecisionOf
<1>4. ASSUME NEW l \in Client \ {k}
      PROVE  AppliedSettled(l)'
  BY <1>2, AppliedStays
<1>5. AppliedSettled(k)'
  <2>1. CASE k \notin RoundTrip
    <3>1. client'[k] = client[k]
      BY <2>1 DEF handle_permission_decision, Acknowledge
    <3>2. QED
      BY <3>1, AppliedStays
  <2>2. CASE k \in RoundTrip /\ pending[i] = NoCall
    <3>1. client'[k].state = "unknown"
      BY <2>2 DEF handle_permission_decision, Acknowledge, TypeOK
    <3>2. QED
      BY <3>1 DEF AppliedSettled
  <2>3. CASE k \in RoundTrip /\ pending[i] # NoCall
    <3>1. client[k].id = i /\ client[k].decision = d
      BY <1>1, <2>3, QueuedAfterReceive DEF Requests, RequestsMatch, TypeOK
    <3>2. client'[k].id = i /\ client'[k].decision = d
      BY <2>3, <3>1 DEF handle_permission_decision, Acknowledge, TypeOK
    <3>3. Resolve(i, d)
      BY <2>3 DEF handle_permission_decision
    <3>4. \E c \in Call : IdOf[c] = i /\ (rx'[c] = d \/ Gone(c)')
      BY <1>1, <2>3, <3>3, ResolveSettles
    <3>5. QED
      BY <3>2, <3>4 DEF AppliedSettled, Settled
  <2>4. QED
    BY <2>1, <2>2, <2>3
<1>6. QED
  BY <1>3, <1>4, <1>5, AppliedAreSettledNext

\* What a client was told stays true in the steps that answer no client.
LEMMA AppliedQuiet ==
    ASSUME TypeOK, FlowInv, [Next]_vars, AppliedIsDeliveredOrLapsed, client' = client
    PROVE  AppliedIsDeliveredOrLapsed'
  BY AppliedStays, AppliedAreSettledNext

\* A client told "ok" decided a call that received this decision or had elapsed
\* unknown to the aggregator, for any number of clients, calls and shared ids.
THEOREM ClientsToldTruth == Spec => []AppliedIsDeliveredOrLapsed
<1> DEFINE ClientInv == Requests /\ AppliedIsDeliveredOrLapsed
<1>1. Init => ClientInv
  BY ConstantTypes DEF Init, Requests, RequestsMatch, OneRequest, Queued, AppliedIsDeliveredOrLapsed
<1>2. ASSUME TypeOK, TypeOK', FlowInv, ClientInv, [Next]_vars
      PROVE  ClientInv'
  <2> USE <1>2, ConstantTypes
  <2>1. ASSUME queue' = queue, client' = client
        PROVE  ClientInv'
    <3>1. Requests'
      BY <2>1 DEF Requests, RequestsMatch, OneRequest, Queued
    <3>2. QED
      BY <2>1, <3>1, AppliedQuiet
  <2>2. ASSUME NEW m \in Message, Send(m) \/ Receive(m), \A k \in RoundTrip : ~IsDecisionOf(m, k),
               client' = client
        PROVE  ClientInv'
    BY <2>2, RequestsSend, RequestsReceive, AppliedQuiet
  <2>3. ASSUME NEW c \in Call, HookConnects(c) \/ HookGivesUp(c) \/ Handle(c)
        PROVE  ClientInv'
    <3>1. client' = client
      BY <2>3 DEF HookConnects, HookGivesUp, Handle, HandlerWritesImmediate, HandlerWritesDecision,
                  HandlerElapses, HandlerReportsTimeout, HandlerWritesFallback, Close, emitters
    <3>2. CASE HookConnects(c) \/ HandlerReportsTimeout(c)
      BY <2>2, <3>1, <3>2, DecisionsDiffer, MessageTypes DEF HookConnects, HandlerReportsTimeout
    <3>3. CASE ~(HookConnects(c) \/ HandlerReportsTimeout(c))
      <4>1. queue' = queue
        BY <2>3, <3>3 DEF HookGivesUp, Handle, HandlerWritesImmediate, HandlerWritesDecision,
                          HandlerElapses, HandlerWritesFallback, Close
      <4>2. QED
        BY <2>1, <3>1, <4>1
    <3>4. QED
      BY <3>2, <3>3
  <2>4. ASSUME NEW ev \in Event, NEW s \in Session, SessionEvent(ev, s) \/ handle_hook_event(ev, s)
        PROVE  ClientInv'
    <3>1. client' = client /\ (Send(HookEvent(ev, s)) \/ Receive(HookEvent(ev, s)))
      BY <2>4 DEF SessionEvent, handle_hook_event, emitters
    <3>2. QED
      BY <2>2, <3>1, DecisionsDiffer, MessageTypes
  <2>5. ASSUME NEW k \in Client, NEW i \in Id, NEW d \in Wire, Decide(k, i, d)
        PROVE  ClientInv'
    <3>1. Requests'
      BY <2>5, RequestsDecide
    <3>2. ASSUME NEW l \in Client
          PROVE  AppliedSettled(l)'
      <4>1. client'[l] = client[l] \/ client'[l].state = "waiting"
        BY <2>5 DEF Decide, TypeOK
      <4>2. QED
        BY <4>1, AppliedStays DEF AppliedSettled
    <3>3. QED
      BY <3>1, <3>2, AppliedAreSettledNext
  <2>6. ASSUME NEW k \in Client, NEW i \in Id, ClickAlways(k, i)
        PROVE  ClientInv'
    <3>1. client' = client /\ Send(Always(i))
      BY <2>6 DEF ClickAlways
    <3>2. QED
      BY <2>2, <3>1, DecisionsDiffer, MessageTypes
  <2>7. ASSUME NEW c \in Call, AutoAnswer(c) \/ DuplicateId(c) \/ start_intercept(c)
        PROVE  ClientInv'
    <3>1. client' = client /\ Receive(PreToolUse(c))
      BY <2>7 DEF AutoAnswer, DuplicateId, start_intercept, emitters
    <3>2. QED
      BY <2>2, <3>1, DecisionsDiffer, MessageTypes
  <2>8. ASSUME NEW i \in Id, NEW d \in Wire, NEW k \in Client, handle_permission_decision(i, d, k)
        PROVE  ClientInv'
    BY <2>8, AppliedAnswer
  <2>9. ASSUME NEW i \in Id, handle_allowlist_always(i) \/ ApprovalTimedOut(i)
        PROVE  ClientInv'
    <3>1. client' = client /\ (Receive(Always(i)) \/ Receive(TimedOut(i)))
      BY <2>9 DEF handle_allowlist_always, ApprovalTimedOut, emitters
    <3>2. QED
      BY <2>2, <3>1, DecisionsDiffer, MessageTypes
  <2>10. CASE Tick \/ UNCHANGED vars
    BY <2>1, <2>10 DEF Tick, vars, emitters
  <2>11. QED
    BY <2>3, <2>4, <2>5, <2>6, <2>7, <2>8, <2>9, <2>10 DEF Next, Aggregate
<1>3. QED
  BY <1>1, <1>2, FlowInvHolds, TypeCorrect, PTL DEF Spec

-----------------------------------------------------------------------------
(* The flow implements ApprovalSpec.                                       *)

\* An authorised answer is one the abstract call may get.
LEMMA AuthorisedIsAnswer ==
    ASSUME NEW c \in Call, NEW a \in Final, Authorised(c, a)
    PROVE  a \in (Verdicts[c] \ {"ask"}) \cup Abstract!Held(c)
<1> USE DEF Abstract!Held, Abstract!ByUser, Abstract!FallbackAnswer, Abstract!Shared
<1>1. CASE a \in Verdicts[c] \ {"ask"}
  BY <1>1
<1>2. CASE "ask" \in Verdicts[c] /\ a \notin Verdicts[c] \ {"ask"}
  <2> USE <1>2
  <2>1. CASE a = "allow" /\ "once" \in intents[IdOf[c]]
    BY <2>1
  <2>2. CASE a = "allow" /\ "always" \in intents[IdOf[c]] /\ c \in Derivable
    BY <2>2
  <2>3. CASE a = "deny" /\ "deny" \in intents[IdOf[c]]
    BY <2>3
  <2>4. CASE a = "deny" /\ "always" \in intents[IdOf[c]] /\ c \notin Derivable
    BY <2>4
  <2>5. CASE a = fallback_response
    BY <2>5 DEF fallback_response
  <2>6. CASE a = "silent" /\ Shared(c)
    BY <2>6 DEF Shared
  <2>7. QED
    BY <2>1, <2>2, <2>3, <2>4, <2>5, <2>6 DEF Authorised
<1>3. QED
  BY <1>1, <1>2 DEF Authorised

\* Seen from Claude Code and the users, the aggregator, its queue and its timers
\* only ever ask, answer once with something authorised, or are abandoned.
THEOREM Refinement == Spec => ImplementsApprovalSpec
<1> USE ConstantTypes, NullsAreFresh
<1>1. Init => Abstract!Init
  BY DEF Init, Abstract!Init
<1>2. ASSUME TypeOK, AuthInv, [Next]_vars
      PROVE  [Abstract!Next]_Abstract!vars
  <2> USE <1>2
  <2>1. ASSUME UNCHANGED <<outcome, intents>>
        PROVE  UNCHANGED Abstract!vars
    BY <2>1 DEF Abstract!vars
  <2>2. ASSUME NEW c \in Call, HookConnects(c)
        PROVE  Abstract!Next
    <3>1. outcome[c] = "none"
      BY <2>2 DEF HookConnects, AuthInv, OutcomeFollowsPhase
    <3>2. Abstract!Ask(c)
      BY <2>2, <3>1 DEF HookConnects, Abstract!Ask, emitters
    <3>3. QED
      BY <3>2 DEF Abstract!Next
  <2>3. ASSUME NEW c \in Call, HookGivesUp(c)
        PROVE  Abstract!Next
    <3>1. Abstract!Abandon(c)
      BY <2>3 DEF HookGivesUp, Abstract!Abandon, emitters
    <3>2. QED
      BY <3>1 DEF Abstract!Next
  <2>4. ASSUME NEW c \in Call,
               HandlerWritesImmediate(c) \/ HandlerWritesDecision(c) \/ HandlerWritesFallback(c)
        PROVE  Abstract!Next \/ UNCHANGED Abstract!vars
    <3>1. PICK a \in Final : Close(c, a) /\ Authorised(c, a)
      BY <2>4, WrittenIsAuthorised
    <3>2. UNCHANGED intents
      BY <3>1 DEF Close, emitters
    <3>3. CASE outcome[c] = "open"
      <4>1. outcome' = [outcome EXCEPT ![c] = a]
        BY <3>1, <3>3 DEF Close, TypeOK
      <4>2. Abstract!Answer(c)
        BY <3>1, <3>2, <3>3, <4>1, AuthorisedIsAnswer DEF Abstract!Answer
      <4>3. QED
        BY <4>2 DEF Abstract!Next
    <3>4. CASE outcome[c] # "open"
      <4>1. outcome' = outcome
        BY <3>1, <3>4 DEF Close, TypeOK
      <4>2. QED
        BY <3>2, <4>1 DEF Abstract!vars
    <3>5. QED
      BY <3>3, <3>4
  <2>5. ASSUME NEW c \in Call, Handle(c)
        PROVE  Abstract!Next \/ UNCHANGED Abstract!vars
    BY <2>1, <2>4, <2>5 DEF Handle, HandlerElapses, HandlerReportsTimeout, emitters
  <2>6. ASSUME NEW k \in Client, NEW i \in Id,
               (\E d \in Wire : Decide(k, i, d)) \/ ClickAlways(k, i)
        PROVE  Abstract!Next
    <3>1. PICK verb \in {"once", "deny", "always"} : Abstract!Express(i, verb)
      BY <2>6 DEF Decide, ClickAlways, Abstract!Express, handlers, Wire
    <3>2. QED
      BY <3>1 DEF Abstract!Next
  <2>7. ASSUME (\E ev \in Event, s \in Session : SessionEvent(ev, s)) \/ Aggregate \/ Tick
        PROVE  UNCHANGED <<outcome, intents>>
    BY <2>7 DEF SessionEvent, Aggregate, Tick, AutoAnswer, DuplicateId, start_intercept,
                handle_permission_decision, handle_allowlist_always, ApprovalTimedOut,
                handle_hook_event, handlers, emitters
  <2>8. CASE UNCHANGED vars
    BY <2>1, <2>8 DEF vars, handlers, emitters
  <2>9. QED
    BY <2>1, <2>2, <2>3, <2>5, <2>6, <2>7, <2>8 DEF Next
<1>3. QED
  BY <1>1, <1>2, TypeCorrect, AuthInvHolds, PTL DEF Spec, ImplementsApprovalSpec, Abstract!Spec
=============================================================================
