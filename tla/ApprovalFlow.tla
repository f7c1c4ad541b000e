---------------------------- MODULE ApprovalFlow ----------------------------
(***************************************************************************)
(* The hold-and-wait approval protocol of ccbridged.                       *)
(*                                                                         *)
(* A PreToolUse call of Claude Code runs the hook binary, which opens a    *)
(* connection to the daemon; one task per connection (the "handler",       *)
(* ingest/hooks.rs) forwards the event to the single aggregator task       *)
(* (state/mod.rs) over one bounded FIFO channel and waits, up to the       *)
(* approval timeout, on a oneshot channel for a decision.  Emitters (the   *)
(* ctrl socket, BLE sessions, the notification daemon) send decisions over *)
(* the same FIFO.  The timeout, the decisions, other hook events and the   *)
(* hook binary's own exit race with each other.                            *)
(*                                                                         *)
(* One Call is one PreToolUse hook connection.  Its handler's progress is  *)
(* phase[c]; rx[c] is what its oneshot receiver will find; outcome[c] is   *)
(* what the hook binary tells Claude Code.                                 *)
(***************************************************************************)
EXTENDS Naturals, Sequences

CONSTANTS
    Call,           \* PreToolUse hook connections
    Id,             \* tool_use_id values
    Session,        \* session ids
    Client,         \* emitters that send decisions
    RoundTrip,      \* the clients that wait for the aggregator's answer (ctrl, BLE)
    NoCall, NoId,
    IdOf,           \* tool_use_id of each call
    SessionOf,      \* session of each call
    Verdicts,       \* verdicts permission::evaluate may return for each call
    Derivable,      \* calls for which derive_pattern yields a specific pattern
    Fallback,       \* [approvals] fallback: "passthrough", "deny" or "allow"
    QueueCap,       \* capacity of the aggregator's mpsc channel (256 in the code)
    MaxDecisions,   \* bound: decisions one client sends
    MaxEvents       \* bound: session events other than PreToolUse

Verdict == {"allow", "deny", "ask"}

ASSUME ConstantTypes ==
    /\ IdOf \in [Call -> Id]
    /\ SessionOf \in [Call -> Session]
    /\ Verdicts \in [Call -> SUBSET Verdict]
    /\ Derivable \subseteq Call
    /\ RoundTrip \subseteq Client
    /\ Fallback \in {"passthrough", "deny", "allow"}
    /\ QueueCap \in Nat \ {0}
    /\ MaxDecisions \in Nat
    /\ MaxEvents \in Nat

ASSUME NullsAreFresh == NoCall \notin Call /\ NoId \notin Id

VARIABLES
    queue,          \* the aggregator's mpsc channel
    pending,        \* Aggregator.pending: the call held under each tool_use_id
    sessions,       \* Aggregator.sessions
    shown,          \* the prompt of each session in the last broadcast heartbeat
    phase,          \* progress of each connection handler
    rx,             \* what the handler's oneshot receiver yields
    outcome,        \* what the hook binary has told Claude Code
    client,         \* each emitter's outstanding request or last answer
    learned,        \* calls whose allow pattern an Always click has written
    intents,        \* history: the verbs users have sent for each id
    decisionsLeft,  \* what remains of MaxDecisions, per client
    eventsLeft      \* what remains of MaxEvents

aggregator == <<pending, sessions, shown, learned>>
handlers   == <<phase, rx, outcome>>
emitters   == <<client, intents, decisionsLeft>>
vars       == <<queue, aggregator, handlers, emitters, eventsLeft>>

-----------------------------------------------------------------------------
(* Messages of the aggregator's channel (enum AggregatorMsg). *)

Wire == {"once", "deny"}
Verb == Wire \cup {"always"}
Event == {"SessionStart", "SessionEnd", "PostToolUse", "Stop",
          "UserPromptSubmit", "Notification"}

PreToolUse(c)          == [kind |-> "PreToolUse", call |-> c]
HookEvent(ev, s)       == [kind |-> "HookEvent", event |-> ev, session |-> s]
Decision(i, d, k)      == [kind |-> "PermissionDecision", id |-> i, decision |-> d, from |-> k]
Always(i)              == [kind |-> "AllowlistAlways", id |-> i]
TimedOut(i)            == [kind |-> "ApprovalTimedOut", id |-> i]

Message ==
    {PreToolUse(c) : c \in Call}
    \cup {HookEvent(ev, s) : ev \in Event, s \in Session}
    \cup {Decision(i, d, k) : i \in Id, d \in Wire, k \in Client}
    \cup {Always(i) : i \in Id}
    \cup {TimedOut(i) : i \in Id}

Queued(m) == \E n \in 1..Len(queue) : queue[n] = m

HasRoom    == Len(queue) < QueueCap
Send(m)    == HasRoom /\ queue' = Append(queue, m)
Receive(m) == queue # <<>> /\ m = Head(queue) /\ queue' = Tail(queue)

-----------------------------------------------------------------------------
(* Sessions and the heartbeat. *)

SessionRecord == [open : BOOLEAN, waiting : BOOLEAN, pending_tool_use_id : Id \cup {NoId}]
Absent     == [open |-> FALSE, waiting |-> FALSE, pending_tool_use_id |-> NoId]
NewSession == [open |-> TRUE,  waiting |-> FALSE, pending_tool_use_id |-> NoId]

\* entry(..).or_insert_with(Session::new)
OrNew(r) == IF r.open THEN r ELSE NewSession

clear_pending(r) == [open |-> r.open, waiting |-> FALSE, pending_tool_use_id |-> NoId]

\* Every session that points at the approval i forgets it.
ClearedOf(i) ==
    [s \in Session |-> IF sessions[s].pending_tool_use_id = i
                       THEN clear_pending(sessions[s])
                       ELSE sessions[s]]

\* snapshot(): one prompt per waiting session whose approval is still pending.
Prompts ==
    [s \in Session |->
        LET i == sessions[s].pending_tool_use_id
        IN  IF sessions[s].waiting /\ i # NoId /\ pending[i] # NoCall THEN i ELSE NoId]

broadcast_heartbeat == shown' = Prompts'

-----------------------------------------------------------------------------
(* Hook binary and connection handler (ingest/hooks.rs). *)

Final == {"allow", "deny", "ask", "silent"}

\* The hook binary connects and its handler forwards the event.
HookConnects(c) ==
    /\ phase[c] = "idle"
    /\ Send(PreToolUse(c))
    /\ phase' = [phase EXCEPT ![c] = "sent"]
    /\ outcome' = [outcome EXCEPT ![c] = "open"]
    /\ UNCHANGED <<aggregator, rx, emitters, eventsLeft>>

\* The hook binary exits on its own socket timeout; the handler does not notice.
HookGivesUp(c) ==
    /\ outcome[c] = "open"
    /\ outcome' = [outcome EXCEPT ![c] = "gone"]
    /\ UNCHANGED <<queue, aggregator, phase, rx, emitters, eventsLeft>>

\* The handler writes answer a (or, for "silent", nothing) and closes.
Close(c, a) ==
    /\ phase' = [phase EXCEPT ![c] = "done"]
    /\ outcome' = [outcome EXCEPT ![c] = IF @ = "open" THEN a ELSE @]
    /\ UNCHANGED <<queue, aggregator, rx, emitters, eventsLeft>>

wire_to_hook_decision(d) == IF d = "once" THEN "allow" ELSE "deny"

\* HookOutcome::Immediate: a decision of the allowlist, or a passthrough.
HandlerWritesImmediate(c) ==
    /\ phase[c] = "reply"
    /\ Close(c, IF rx[c] = "passthrough" THEN "silent" ELSE wire_to_hook_decision(rx[c]))

\* Mutant: a dropped sender is answered with "ask".
Bug_dropped_asks(c) ==
    /\ phase[c] = "await"
    /\ rx[c] # "none"
    /\ Close(c, IF rx[c] = "dropped" THEN "ask" ELSE wire_to_hook_decision(rx[c]))

\* The oneshot yields a decision, or its sender was dropped, before the timer.
HandlerWritesDecision(c) ==
    /\ phase[c] = "await"
    /\ rx[c] # "none"
    /\ Close(c, IF rx[c] = "dropped" THEN "silent" ELSE wire_to_hook_decision(rx[c]))

\* Mutant: the handler applies the fallback without telling the aggregator.
Bug_elapses_unreported(c) ==
    /\ phase[c] = "await"
    /\ rx[c] = "none"
    /\ phase' = [phase EXCEPT ![c] = "fallback"]
    /\ UNCHANGED <<queue, aggregator, rx, outcome, emitters, eventsLeft>>
\* Mutant: the timer runs only while the hook binary is connected.
Bug_elapses_if_connected(c) ==
    /\ phase[c] = "await"
    /\ rx[c] = "none"
    /\ outcome[c] = "open"
    /\ phase' = [phase EXCEPT ![c] = "lapsed"]
    /\ UNCHANGED <<queue, aggregator, rx, outcome, emitters, eventsLeft>>

\* The timer elapses on an empty oneshot: the receiver is dropped.
HandlerElapses(c) ==
    /\ phase[c] = "await"
    /\ rx[c] = "none"
    /\ phase' = [phase EXCEPT ![c] = "lapsed"]
    /\ UNCHANGED <<queue, aggregator, rx, outcome, emitters, eventsLeft>>

HandlerReportsTimeout(c) ==
    /\ phase[c] = "lapsed"
    /\ Send(TimedOut(IdOf[c]))
    /\ phase' = [phase EXCEPT ![c] = "fallback"]
    /\ UNCHANGED <<aggregator, rx, outcome, emitters, eventsLeft>>

fallback_response == IF Fallback = "passthrough" THEN "ask" ELSE Fallback

HandlerWritesFallback(c) ==
    /\ phase[c] = "fallback"
    /\ Close(c, fallback_response)

-----------------------------------------------------------------------------
(* Claude Code's other hook events, and the emitters. *)

SessionEvent(ev, s) ==
    /\ eventsLeft > 0
    /\ Send(HookEvent(ev, s))
    /\ eventsLeft' = eventsLeft - 1
    /\ UNCHANGED <<aggregator, handlers, emitters>>

\* A client decides about any id, shown or stale.  ctrl and BLE wait for the
\* aggregator's answer; the notification emitter does not.
Decide(k, i, d) ==
    /\ decisionsLeft[k] > 0
    /\ client[k].state # "waiting"
    /\ Send(Decision(i, d, k))
    /\ client' = [client EXCEPT ![k] =
                    IF k \in RoundTrip
                    THEN [state |-> "waiting", id |-> i, decision |-> d]
                    ELSE @]
    /\ intents' = [intents EXCEPT ![i] = @ \cup {d}]
    /\ decisionsLeft' = [decisionsLeft EXCEPT ![k] = @ - 1]
    /\ UNCHANGED <<aggregator, handlers, eventsLeft>>

\* The notification emitter's Always button.
ClickAlways(k, i) ==
    /\ k \notin RoundTrip
    /\ decisionsLeft[k] > 0
    /\ Send(Always(i))
    /\ intents' = [intents EXCEPT ![i] = @ \cup {"always"}]
    /\ decisionsLeft' = [decisionsLeft EXCEPT ![k] = @ - 1]
    /\ UNCHANGED <<aggregator, handlers, client, eventsLeft>>

-----------------------------------------------------------------------------
(* The aggregator's run loop (state/mod.rs), one message per step.  An unknown *)
(* hook event changes nothing and is answered at once; it has no action.       *)

Reply(c, a) ==
    /\ phase' = [phase EXCEPT ![c] = "reply"]
    /\ rx' = [rx EXCEPT ![c] = a]

\* permission::evaluate allows or denies without a prompt.
AutoAnswer(c) ==
    /\ Receive(PreToolUse(c))
    /\ \/ "allow" \in Verdicts[c] /\ Reply(c, "once")
       \/ "deny" \in Verdicts[c] /\ Reply(c, "deny")
    /\ sessions' = [sessions EXCEPT ![SessionOf[c]] = OrNew(@)]
    /\ UNCHANGED <<pending, shown, learned, outcome, emitters, eventsLeft>>

\* start_intercept finds its tool_use_id already pending: passthrough.
DuplicateId(c) ==
    /\ Receive(PreToolUse(c))
    /\ "ask" \in Verdicts[c]
    /\ pending[IdOf[c]] # NoCall
    /\ Reply(c, "passthrough")
    /\ sessions' = [sessions EXCEPT ![SessionOf[c]] = OrNew(@)]
    /\ UNCHANGED <<pending, shown, learned, outcome, emitters, eventsLeft>>

start_intercept(c) ==
    /\ Receive(PreToolUse(c))
    /\ "ask" \in Verdicts[c]
    /\ pending[IdOf[c]] = NoCall
    /\ pending' = [pending EXCEPT ![IdOf[c]] = c]
    /\ sessions' = [sessions EXCEPT ![SessionOf[c]] =
                       [open |-> TRUE, waiting |-> TRUE, pending_tool_use_id |-> IdOf[c]]]
    /\ broadcast_heartbeat
    /\ phase' = [phase EXCEPT ![c] = "await"]
    /\ UNCHANGED <<rx, learned, outcome, emitters, eventsLeft>>

\* Mutant: the entry goes, its sender is kept elsewhere and never used.
Bug_resolve_undelivered(i, x) ==
    /\ pending' = [pending EXCEPT ![i] = NoCall]
    /\ sessions' = ClearedOf(i)
    /\ broadcast_heartbeat
    /\ UNCHANGED rx
\* Mutant: the sessions keep pointing at the approval.
Bug_resolve_sessions_kept(i, x) ==
    LET c == pending[i]
    IN  /\ pending' = [pending EXCEPT ![i] = NoCall]
        /\ UNCHANGED sessions
        /\ broadcast_heartbeat
        /\ rx' = IF c \in Call /\ phase[c] = "await" THEN [rx EXCEPT ![c] = x] ELSE rx

\* Remove the pending approval i, clear the sessions that show it and hand x to
\* its receiver (which is gone once the handler has lapsed).
Resolve(i, x) ==
    LET c == pending[i]
    IN  /\ pending' = [pending EXCEPT ![i] = NoCall]
        /\ sessions' = ClearedOf(i)
        /\ broadcast_heartbeat
        /\ rx' = IF c \in Call /\ phase[c] = "await" THEN [rx EXCEPT ![c] = x] ELSE rx

\* The answer to a round-trip client (PermissionDecisionResult).
Acknowledge(k, result) ==
    client' = IF k \in RoundTrip
              THEN [client EXCEPT ![k] =
                      [state |-> result, id |-> @.id, decision |-> @.decision]]
              ELSE client

\* Mutant: a decision for an unknown id is acknowledged as applied.
Bug_decision_always_applied(i, d, k) ==
    /\ Receive(Decision(i, d, k))
    /\ \/ pending[i] # NoCall /\ Resolve(i, d)
       \/ pending[i] = NoCall /\ UNCHANGED <<pending, sessions, shown, rx>>
    /\ Acknowledge(k, "applied")
    /\ UNCHANGED <<phase, outcome, learned, intents, decisionsLeft, eventsLeft>>

handle_permission_decision(i, d, k) ==
    /\ Receive(Decision(i, d, k))
    /\ \/ /\ pending[i] # NoCall
          /\ Resolve(i, d)
          /\ Acknowledge(k, "applied")
       \/ /\ pending[i] = NoCall
          /\ Acknowledge(k, "unknown")
          /\ UNCHANGED <<pending, sessions, shown, rx>>
    /\ UNCHANGED <<phase, outcome, learned, intents, decisionsLeft, eventsLeft>>

\* The write of the pattern may fail; the call is approved all the same.  A tool
\* without a specific pattern is denied.
handle_allowlist_always(i) ==
    /\ Receive(Always(i))
    /\ \/ /\ pending[i] = NoCall
          /\ UNCHANGED <<pending, sessions, shown, rx, learned>>
       \/ /\ pending[i] \in Derivable
          /\ \E written \in BOOLEAN :
                learned' = IF written THEN learned \cup {pending[i]} ELSE learned
          /\ Resolve(i, "once")
       \/ /\ pending[i] \in Call \ Derivable
          /\ Resolve(i, "deny")
          /\ UNCHANGED learned
    /\ UNCHANGED <<phase, outcome, emitters, eventsLeft>>

\* ApprovalTimedOut: dropping the entry drops its oneshot sender.
ApprovalTimedOut(i) ==
    /\ Receive(TimedOut(i))
    /\ Resolve(i, "dropped")
    /\ UNCHANGED <<phase, outcome, learned, emitters, eventsLeft>>

\* What a hook event other than PreToolUse does to its session.
AfterEvent(ev, r) ==
    IF ev \in {"SessionStart", "UserPromptSubmit"}      THEN OrNew(r)
    ELSE IF ev = "SessionEnd"                           THEN Absent
    ELSE IF ev \in {"PostToolUse", "Stop"} /\ r.open     THEN clear_pending(r)
    ELSE r

\* Mutant: the event's handler does not broadcast.
Bug_event_unbroadcast(ev, s) ==
    /\ Receive(HookEvent(ev, s))
    /\ sessions' = [sessions EXCEPT ![s] = AfterEvent(ev, @)]
    /\ UNCHANGED <<pending, shown, learned, handlers, emitters, eventsLeft>>

handle_hook_event(ev, s) ==
    /\ Receive(HookEvent(ev, s))
    /\ sessions' = [sessions EXCEPT ![s] = AfterEvent(ev, @)]
    /\ UNCHANGED pending
    /\ broadcast_heartbeat
    /\ UNCHANGED <<learned, handlers, emitters, eventsLeft>>

\* The 10 s keepalive.
Tick ==
    /\ UNCHANGED <<queue, pending, sessions, learned, handlers, emitters, eventsLeft>>
    /\ broadcast_heartbeat

-----------------------------------------------------------------------------
Init ==
    /\ queue = <<>>
    /\ pending = [i \in Id |-> NoCall]
    /\ sessions = [s \in Session |-> Absent]
    /\ shown = [s \in Session |-> NoId]
    /\ phase = [c \in Call |-> "idle"]
    /\ rx = [c \in Call |-> "none"]
    /\ outcome = [c \in Call |-> "none"]
    /\ client = [k \in Client |-> [state |-> "idle", id |-> NoId, decision |-> "deny"]]
    /\ learned = {}
    /\ intents = [i \in Id |-> {}]
    /\ decisionsLeft = [k \in Client |-> MaxDecisions]
    /\ eventsLeft = MaxEvents

Aggregate ==
    \/ \E c \in Call : AutoAnswer(c) \/ DuplicateId(c) \/ start_intercept(c)
    \/ \E i \in Id, d \in Wire, k \in Client : handle_permission_decision(i, d, k)
    \/ \E i \in Id : handle_allowlist_always(i) \/ ApprovalTimedOut(i)
    \/ \E ev \in Event, s \in Session : handle_hook_event(ev, s)

Handle(c) ==
    \/ HandlerWritesImmediate(c)
    \/ HandlerWritesDecision(c)
    \/ HandlerElapses(c)
    \/ HandlerReportsTimeout(c)
    \/ HandlerWritesFallback(c)

Next ==
    \/ \E c \in Call : HookConnects(c) \/ HookGivesUp(c) \/ Handle(c)
    \/ \E ev \in Event, s \in Session : SessionEvent(ev, s)
    \/ \E k \in Client, i \in Id : (\E d \in Wire : Decide(k, i, d)) \/ ClickAlways(k, i)
    \/ Aggregate
    \/ Tick

Spec == Init /\ [][Next]_vars

\* The runtime keeps polling the aggregator and every handler, timers elapse,
\* and tokio's channel admits senders in turn.  Nothing is assumed of users,
\* of Claude Code or of the hook binary.
Fairness == WF_vars(Aggregate) /\ \A c \in Call : SF_vars(Handle(c))

FairSpec == Spec /\ Fairness

-----------------------------------------------------------------------------
(* Properties. *)

Phase   == {"idle", "sent", "await", "reply", "lapsed", "fallback", "done"}
Outcome == {"none", "open", "gone"} \cup Final
RxValue == {"none", "passthrough", "dropped"} \cup Wire

\* Every variable keeps its type.
TypeOK ==
    /\ queue \in Seq(Message)
    /\ pending \in [Id -> Call \cup {NoCall}]
    /\ sessions \in [Session -> SessionRecord]
    /\ shown \in [Session -> Id \cup {NoId}]
    /\ phase \in [Call -> Phase]
    /\ rx \in [Call -> RxValue]
    /\ outcome \in [Call -> Outcome]
    /\ client \in [Client -> [state : {"idle", "waiting", "applied", "unknown"},
                              id : Id \cup {NoId}, decision : Wire]]
    /\ learned \subseteq Call
    /\ intents \in [Id -> SUBSET Verb]
    /\ decisionsLeft \in [Client -> Nat]
    /\ eventsLeft \in Nat

\* A handler that has lapsed and whose timeout report the aggregator has yet to read.
ReportDue(c) ==
    \/ phase[c] = "lapsed"
    \/ phase[c] \in {"fallback", "done"} /\ Queued(TimedOut(IdOf[c]))

\* No approval leaks: an entry of `pending` belongs to the call registered under
\* that id, whose oneshot is still unused, and the call either still waits or its
\* timeout report is on the way to remove the entry.  Two handlers, the emitters
\* and the timer have to be ordered wrongly for a prompt to stay forever.
NoLeakedApproval ==
    \A i \in Id : pending[i] # NoCall =>
        LET c == pending[i]
        IN  /\ IdOf[c] = i
            /\ rx[c] = "none"
            /\ phase[c] = "await" \/ ReportDue(c)

\* No handler is stranded: one that waits on an empty oneshot is still the call
\* registered under its tool_use_id, so a decision for that id reaches it.
NoStrandedHandler ==
    \A c \in Call : phase[c] = "await" /\ rx[c] = "none" => pending[IdOf[c]] = c

\* A session that counts as waiting shows a prompt that can still be decided, and
\* that a call of this very session registered; so the heartbeat's `waiting` count
\* and its `prompts` list never disagree, and no session stays waiting forever.
WaitingIsBacked ==
    \A s \in Session : sessions[s].waiting =>
        LET i == sessions[s].pending_tool_use_id
        IN  /\ i \in Id
            /\ pending[i] # NoCall
            /\ SessionOf[pending[i]] = s

\* Emitters are never left with outdated prompts: whatever handler changed a
\* session or the pending map, the last broadcast shows the prompts of now.
HeartbeatIsFresh == shown = Prompts

\* Two calls carry the same tool_use_id.
Shared(c) == \E e \in Call \ {c} : IdOf[e] = IdOf[c]

\* What may make answer a legitimate for call c.
Authorised(c, a) ==
    LET verbs == intents[IdOf[c]]
    IN  \/ a \in Verdicts[c] \ {"ask"}
        \/ /\ "ask" \in Verdicts[c]
           /\ \/ a = "allow"  /\ ("once" \in verbs \/ ("always" \in verbs /\ c \in Derivable))
              \/ a = "deny"   /\ ("deny" \in verbs \/ ("always" \in verbs /\ c \notin Derivable))
              \/ a = fallback_response
              \/ a = "silent" /\ Shared(c)

\* Claude Code is told "allow" or "deny" only by the allowlist, by a user who said
\* so for this id (Always on a tool without specific pattern denies), or by the
\* configured fallback; an approval is silently dropped only if its id is shared.
AnswerIsAuthorised ==
    \A c \in Call : outcome[c] \in Final => Authorised(c, outcome[c])

\* A client told "ok" decided a call that received this very decision, or one whose
\* timer had elapsed before the aggregator could know.
AppliedIsDeliveredOrLapsed ==
    \A k \in Client : client[k].state = "applied" =>
        \E c \in Call :
            /\ IdOf[c] = client[k].id
            /\ \/ rx[c] = client[k].decision
               \/ rx[c] = "none" /\ phase[c] \in {"lapsed", "fallback", "done"}

\* The flow implements its abstract specification: seen from Claude Code and the
\* users there is no aggregator, queue or timer, only authorised answers given once.
Abstract == INSTANCE ApprovalSpec WITH
    Call <- Call, Id <- Id, IdOf <- IdOf, Verdicts <- Verdicts, Derivable <- Derivable,
    Fallback <- Fallback, outcome <- outcome, intents <- intents
ImplementsApprovalSpec == Abstract!Spec

\* Every hook that was forwarded is answered, or its binary has left.
EveryCallIsAnswered ==
    \A c \in Call : phase[c] = "sent" ~> phase[c] = "done" /\ outcome[c] # "open"

\* Every held approval is eventually decided or cleared, whatever emitters do.
EveryApprovalIsCleared ==
    \A i \in Id, c \in Call : pending[i] = c ~> pending[i] # c
=============================================================================
