--------------------------- MODULE NotifyEmitter ---------------------------
(***************************************************************************)
(* The desktop notification emitter (emit/notify.rs) between the           *)
(* aggregator, the notification server and the user.                       *)
(*                                                                         *)
(* Four inputs meet in one select!: heartbeats, turn-done events, and the  *)
(* server's signals ActionInvoked and NotificationClosed.  Each has its    *)
(* own queue and the emitter takes them in any order.  A handler runs to   *)
(* its end before the next input is taken; what the user does between two  *)
(* server calls of a handler concerns other notifications than these       *)
(* calls, or is seen through the signals only, so a handler is one step.   *)
(*                                                                         *)
(* The server is external: it answers Notify with replaces_id if one was   *)
(* given (as its specification says, or with a new id if that notification *)
(* is gone), else with an id nobody knows.  A click closes the            *)
(* notification and emits both signals.                                    *)
(***************************************************************************)
EXTENDS Naturals, Sequences, FiniteSets

CONSTANTS
    Session, Tool, Id,
    NoTool, NoId, NoNote, Done,
    Capacity,      \* BROADCAST_CAPACITY
    MaxDones,      \* bound: turn-done events
    MaxFaults,     \* bound: failed D-Bus calls
    MaxRestarts    \* bound: restarts of the daemon

ASSUME NullsAreFresh ==
    NoTool \notin Tool /\ Done \notin Tool /\ NoId \notin Id
    /\ NoNote \notin [session : Session, tool : Tool \cup {Done}]
ASSUME CapacityAssumption == Capacity \in Nat \ {0}
ASSUME SessionsAreFinite == IsFiniteSet(Session)
ASSUME BoundsAssumption == MaxDones \in Nat /\ MaxFaults \in Nat /\ MaxRestarts \in Nat

VARIABLES
    prompts,          \* aggregator: the prompt its heartbeats show for each session
    asked,            \* tool_use_ids used so far
    feed, dones,      \* the two broadcast receivers of the emitter
    orders,           \* decisions on their way to the aggregator
    screen,           \* server: visible notifications
    clicks, closes,   \* server: signals under way
    active, session_notif, dismissed, last_prompt_ids, first_stale_click_seen,
    donesLeft, faultsLeft, restartsLeft,
    answered          \* history: prompts of which the emitter saw a click or a close

aggregator == <<prompts, asked>>
inputs     == <<feed, dones>>
signals    == <<clicks, closes>>
emitter    == <<active, session_notif, dismissed, last_prompt_ids, first_stale_click_seen>>
bounds     == <<donesLeft, faultsLeft, restartsLeft>>
vars == <<aggregator, inputs, orders, screen, signals, emitter, bounds, answered>>

Note       == [session : Session, tool : Tool \cup {Done}]
MaybeNote  == Note \cup {NoNote}
MaybeId    == Id \cup {NoId}
MaybeTool  == Tool \cup {NoTool}
Prompts    == [Session -> MaybeTool]

IsApproval(n) == n # NoNote /\ n.tool # Done

-----------------------------------------------------------------------------
(* The aggregator. *)

\* A receiver that is Capacity behind loses its oldest heartbeat.
Enqueue(hb) == IF Len(feed) < Capacity THEN Append(feed, hb) ELSE Append(Tail(feed), hb)

ShowPrompts(ps) ==
    /\ prompts' = ps
    /\ feed' = Enqueue(ps)

\* A call needs permission; its prompt takes the session's slot.
NewPrompt(s, t) ==
    /\ t \notin asked
    /\ asked' = asked \cup {t}
    /\ ShowPrompts([prompts EXCEPT ![s] = t])
    /\ UNCHANGED <<dones, orders, screen, signals, emitter, bounds, answered>>

\* Decided by another emitter, timed out, or the session went on.
ClearPrompt(s) ==
    /\ prompts[s] # NoTool
    /\ ShowPrompts([prompts EXCEPT ![s] = NoTool])
    /\ UNCHANGED <<asked, dones, orders, screen, signals, emitter, bounds, answered>>

\* The keepalive tick; bound: the next one comes when the emitter is up to date.
Keepalive ==
    /\ feed = <<>>
    /\ feed' = <<prompts>>
    /\ UNCHANGED <<aggregator, dones, orders, screen, signals, emitter, bounds, answered>>

\* The idle gate announces a session, whose prompt its Stop has cleared.
TurnDone(s) ==
    /\ donesLeft > 0 /\ prompts[s] = NoTool
    /\ donesLeft' = donesLeft - 1
    /\ dones' = Append(dones, s)
    /\ UNCHANGED <<aggregator, feed, orders, screen, signals, emitter, faultsLeft, restartsLeft, answered>>

\* A decision is applied to the call it names, if that is still shown.
TakeOrder ==
    /\ orders # <<>>
    /\ orders' = Tail(orders)
    /\ ShowPrompts([s \in Session |->
                        IF prompts[s] = Head(orders) THEN NoTool ELSE prompts[s]])
    /\ UNCHANGED <<asked, dones, screen, signals, emitter, bounds, answered>>

-----------------------------------------------------------------------------
(* The user and the server. *)

Take(i) ==
    /\ screen[i] # NoNote
    /\ screen' = [screen EXCEPT ![i] = NoNote]
    /\ closes' = [closes EXCEPT ![i] = @ + 1]

\* A button of an approval, or its body.
Click(i) ==
    /\ IsApproval(screen[i])
    /\ Take(i)
    /\ clicks' = clicks \cup {[id |-> i, seen |-> screen[i]]}
    /\ UNCHANGED <<aggregator, inputs, orders, emitter, bounds, answered>>

\* Closed by the user, or expired (turn-done notifications only).
Dismiss(i) ==
    /\ Take(i)
    /\ UNCHANGED <<aggregator, inputs, orders, clicks, emitter, bounds, answered>>

\* An id without a trace is as good as one the server never used.
Fresh == {i \in Id : /\ screen[i] = NoNote /\ active[i] = NoNote
                     /\ closes[i] = 0 /\ i \notin {c.id : c \in clicks}}

\* Mutant: the slot of any session is replaced.
Bug_Reply_shared(s) ==
    IF \E r \in Session : session_notif[r] # NoId
    THEN {session_notif[r] : r \in Session} \ {NoId} ELSE Fresh

\* What Notify may return for session s.
Reply(s) ==
    LET old == session_notif[s]
    IN  IF old = NoId THEN Fresh
        ELSE {old} \cup (IF screen[old] = NoNote THEN Fresh ELSE {})

-----------------------------------------------------------------------------
(* handle_heartbeat. *)

\* Mutant: the check that the session still waits is missing.
Bug_Stale_waiting(hb) ==
    {s \in Session : session_notif[s] # NoId /\ IsApproval(active[session_notif[s]])}

\* Mutant: turn-done notices are closed and approvals stay.
Bug_Stale_kinds(hb) ==
    {s \in Session : hb[s] = NoTool /\ session_notif[s] # NoId /\ ~IsApproval(active[session_notif[s]])}

\* Sessions whose approval is on record and that wait no more.
Stale(hb) ==
    {s \in Session : hb[s] = NoTool /\ session_notif[s] # NoId /\ IsApproval(active[session_notif[s]])}

\* What remains of the dismissals: prompts still shown, and not rotated.
StillDismissed(hb) == dismissed \cap {hb[s] : s \in Session}

\* Mutant: dismissed prompts are posted too.
Bug_ToPost_dismissed(hb) ==
    {s \in Session : hb[s] # NoTool /\ (last_prompt_ids[s] # hb[s] \/ session_notif[s] = NoId)}

\* Prompts to post: not dismissed, and not the one posted last and still on record.
ToPost(hb) ==
    {s \in Session : /\ hb[s] # NoTool
                     /\ hb[s] \notin StillDismissed(hb)
                     /\ last_prompt_ids[s] # hb[s] \/ session_notif[s] = NoId}

\* The slot records after posting for `posted` with `ids` and closing `closed`.
Record(posted, ids, tool, closed) ==
    LET freed == {session_notif[s] : s \in posted \cup closed}
        at(i) == CHOOSE s \in posted : ids[s] = i
    IN  /\ active' = [i \in Id |->
               IF \E s \in posted : ids[s] = i THEN [session |-> at(i), tool |-> tool[at(i)]]
               ELSE IF i \in freed THEN NoNote ELSE active[i]]
        /\ session_notif' = [s \in Session |->
               IF s \in posted THEN ids[s] ELSE IF s \in closed THEN NoId ELSE session_notif[s]]

\* The server's part of it.
Display(posted, ids, tool, gone) ==
    LET freed == {session_notif[s] : s \in gone}
        at(i) == CHOOSE s \in posted : ids[s] = i
    IN  /\ screen' = [i \in Id |->
               IF \E s \in posted : ids[s] = i THEN [session |-> at(i), tool |-> tool[at(i)]]
               ELSE IF i \in freed THEN NoNote ELSE screen[i]]
        /\ closes' = [i \in Id |-> IF i \in freed /\ screen[i] # NoNote THEN closes[i] + 1 ELSE closes[i]]

\* Calls to the server fail for the sessions in `failed`.
Fail(failed) ==
    /\ Cardinality(failed) <= faultsLeft
    /\ faultsLeft' = faultsLeft - Cardinality(failed)
    /\ UNCHANGED <<donesLeft, restartsLeft>>

\* Mutant: the prompt is recorded as posted although Notify failed.
Bug_Posted_recorded(hb, failed) ==
    last_prompt_ids' = [s \in Session |->
        IF s \in Stale(hb) THEN NoTool ELSE IF s \in ToPost(hb) THEN hb[s] ELSE last_prompt_ids[s]]

Posted(hb, failed) ==
    last_prompt_ids' = [s \in Session |->
        IF s \in Stale(hb) THEN NoTool
        ELSE IF s \in ToPost(hb) \ failed THEN hb[s] ELSE last_prompt_ids[s]]

handle_heartbeat ==
    /\ feed # <<>>
    /\ feed' = Tail(feed)
    /\ LET hb == Head(feed)
       IN  \E failed \in SUBSET (Stale(hb) \cup ToPost(hb)) :
           \E ids \in [ToPost(hb) \ failed -> Id] :
               /\ \A s \in DOMAIN ids : ids[s] \in Reply(s)
               /\ \A s, r \in DOMAIN ids : ids[s] = ids[r] => s = r
               /\ Fail(failed)
               /\ Record(DOMAIN ids, ids, hb, Stale(hb))
               /\ Display(DOMAIN ids, ids, hb, Stale(hb) \ failed)
               /\ Posted(hb, failed)
               /\ dismissed' = StillDismissed(hb)
    /\ UNCHANGED <<aggregator, dones, orders, clicks, first_stale_click_seen, answered>>

-----------------------------------------------------------------------------
(* The other handlers. *)

\* The notice takes the session's slot, whatever it holds.
handle_turn_done ==
    /\ dones # <<>>
    /\ dones' = Tail(dones)
    /\ LET s == Head(dones)
       IN  \/ /\ Fail({s})
              /\ UNCHANGED <<screen, closes, active, session_notif>>
           \/ \E ids \in [{s} -> Reply(s)] :
                 /\ Record({s}, ids, [r \in {s} |-> Done], {})
                 /\ Display({s}, ids, [r \in {s} |-> Done], {})
                 /\ UNCHANGED bounds
    /\ UNCHANGED <<aggregator, feed, orders, clicks, dismissed, last_prompt_ids,
                   first_stale_click_seen, answered>>

\* The session's slot, if it still is notification i, becomes free.
Release(i) ==
    /\ active' = [active EXCEPT ![i] = NoNote]
    /\ session_notif' = [session_notif EXCEPT ![active[i].session] = IF @ = i THEN NoId ELSE @]

\* A decision for the prompt that is on record now, not the one the user saw.
handle_action(c) ==
    /\ clicks' = clicks \ {c}
    /\ \/ /\ IsApproval(active[c.id])
          /\ Release(c.id)
          /\ orders' = Append(orders, active[c.id].tool)
          /\ dismissed' = dismissed \cup {active[c.id].tool}
          /\ answered' = answered \cup {active[c.id].tool}
          /\ UNCHANGED first_stale_click_seen
       \/ /\ active[c.id] = NoNote
          /\ first_stale_click_seen' = TRUE
          /\ UNCHANGED <<active, session_notif, orders, dismissed, answered>>
       \/ /\ active[c.id] # NoNote /\ active[c.id].tool = Done
          /\ UNCHANGED <<active, session_notif, orders, dismissed, answered, first_stale_click_seen>>
    /\ UNCHANGED <<aggregator, inputs, screen, closes, last_prompt_ids, bounds>>

\* Mutant: the session's slot is not released.
Bug_handle_closed_slot_kept(i) ==
    /\ closes[i] > 0
    /\ closes' = [closes EXCEPT ![i] = @ - 1]
    /\ active' = [active EXCEPT ![i] = NoNote]
    /\ UNCHANGED <<aggregator, inputs, orders, screen, clicks, session_notif, dismissed,
                   last_prompt_ids, first_stale_click_seen, bounds, answered>>

handle_closed(i) ==
    /\ closes[i] > 0
    /\ closes' = [closes EXCEPT ![i] = @ - 1]
    /\ IF active[i] = NoNote THEN UNCHANGED <<active, session_notif>> ELSE Release(i)
    /\ LET gone == {active[j].tool : j \in {k \in {i} : IsApproval(active[k])}}
       IN  dismissed' = dismissed \cup gone /\ answered' = answered \cup gone
    /\ UNCHANGED <<aggregator, inputs, orders, screen, clicks, last_prompt_ids,
                   first_stale_click_seen, bounds>>

-----------------------------------------------------------------------------
\* The daemon ends, with close_all or without, and starts anew; its connection to the
\* server goes, and with it the signals under way.
Restart ==
    /\ restartsLeft > 0
    /\ restartsLeft' = restartsLeft - 1
    /\ prompts' = [s \in Session |-> NoTool]
    /\ feed' = <<>> /\ dones' = <<>> /\ orders' = <<>>
    /\ clicks' = {} /\ closes' = [i \in Id |-> 0]
    /\ \/ screen' = [i \in Id |-> IF active[i] # NoNote THEN NoNote ELSE screen[i]]
       \/ UNCHANGED screen
    /\ active' = [i \in Id |-> NoNote]
    /\ session_notif' = [s \in Session |-> NoId]
    /\ dismissed' = {}
    /\ last_prompt_ids' = [s \in Session |-> NoTool]
    /\ first_stale_click_seen' = FALSE
    /\ UNCHANGED <<asked, donesLeft, faultsLeft, answered>>

Init ==
    /\ prompts = [s \in Session |-> NoTool] /\ asked = {}
    /\ feed = <<>> /\ dones = <<>> /\ orders = <<>>
    /\ screen = [i \in Id |-> NoNote]
    /\ clicks = {} /\ closes = [i \in Id |-> 0]
    /\ active = [i \in Id |-> NoNote]
    /\ session_notif = [s \in Session |-> NoId]
    /\ dismissed = {}
    /\ last_prompt_ids = [s \in Session |-> NoTool]
    /\ first_stale_click_seen = FALSE
    /\ donesLeft = MaxDones /\ faultsLeft = MaxFaults /\ restartsLeft = MaxRestarts
    /\ answered = {}

Emit ==
    \/ handle_heartbeat \/ handle_turn_done
    \/ \E c \in clicks : handle_action(c)
    \/ \E i \in Id : handle_closed(i)

Next ==
    \/ \E s \in Session : (\E t \in Tool : NewPrompt(s, t)) \/ ClearPrompt(s) \/ TurnDone(s)
    \/ Keepalive \/ TakeOrder
    \/ \E i \in Id : Click(i) \/ Dismiss(i)
    \/ Emit \/ Restart

Spec == Init /\ [][Next]_vars

\* The aggregator ticks and takes orders, and select! picks among ready branches at
\* random, so that each input is taken in the end.
FairSpec ==
    /\ Spec
    /\ WF_vars(Keepalive) /\ WF_vars(TakeOrder)
    /\ WF_vars(handle_heartbeat) /\ WF_vars(handle_turn_done)
    /\ WF_vars(\E c \in clicks : handle_action(c)) /\ WF_vars(\E i \in Id : handle_closed(i))

-----------------------------------------------------------------------------
(* Properties. *)

\* Every variable keeps its type.
TypeOK ==
    /\ prompts \in Prompts /\ asked \subseteq Tool
    /\ feed \in Seq(Prompts) /\ Len(feed) <= Capacity /\ dones \in Seq(Session)
    /\ orders \in Seq(Tool)
    /\ screen \in [Id -> MaybeNote]
    /\ clicks \subseteq [id : Id, seen : Note] /\ closes \in [Id -> Nat]
    /\ active \in [Id -> MaybeNote] /\ session_notif \in [Session -> MaybeId]
    /\ dismissed \subseteq Tool /\ last_prompt_ids \in [Session -> MaybeTool]
    /\ first_stale_click_seen \in BOOLEAN
    /\ donesLeft \in Nat /\ faultsLeft \in Nat /\ restartsLeft \in Nat
    /\ answered \subseteq Tool

\* The two maps of the emitter agree: each session has at most one notification on
\* record, and that is the one its slot names, whatever signals come late.
SlotsAgree ==
    /\ \A i \in Id : active[i] # NoNote => session_notif[active[i].session] = i
    /\ \A s \in Session :
          session_notif[s] # NoId => /\ active[session_notif[s]] # NoNote
                                     /\ active[session_notif[s]].session = s

\* A click is never taken for a prompt of another session than the user saw: an id
\* stays with its session even when the notification is replaced or closed.
ClicksStayInSession ==
    \A c \in clicks : active[c.id] # NoNote => active[c.id].session = c.seen.session

\* A prompt the user answered or closed, as far as the emitter has noticed, is not
\* put on the screen again, whatever heartbeats are still under way.
NoRepostAfterAnswer ==
    [][\A t \in answered : \A i \in Id :
          screen'[i] # NoNote /\ screen'[i].tool = t => screen[i] = screen'[i]]_vars

\* A heartbeat makes the emitter close or replace an approval only if its prompt is
\* gone from the aggregator, old as the heartbeat may be.
HeartbeatClosesOnlyResolved ==
    [][\A i \in Id :
          handle_heartbeat /\ IsApproval(active[i]) /\ active'[i] # active[i]
              => prompts[active[i].session] # active[i].tool]_vars

\* An approval on record whose prompt is gone does not stay on record.
ResolvedIsCleared ==
    \A i \in Id, s \in Session, t \in Tool :
        (active[i] = [session |-> s, tool |-> t] /\ prompts[s] # t)
            ~> active[i] # [session |-> s, tool |-> t]

\* A prompt that stays is put on record, also after failed calls, unless the user
\* closed it or a turn-done notice has taken the slot.
PromptIsOffered ==
    \A s \in Session, t \in Tool :
        prompts[s] = t ~> \/ prompts[s] # t
                          \/ t \in dismissed
                          \/ /\ session_notif[s] # NoId
                             /\ active[session_notif[s]].tool \in {t, Done}
=============================================================================
