------------------------------ MODULE TurnDone ------------------------------
(***************************************************************************)
(* The "Claude is done" gate of the aggregator (state/mod.rs).             *)
(*                                                                         *)
(* A Stop event starts a timer that carries the session's activity serial; *)
(* when the grace is over the timer's message CheckTurnDone is compared    *)
(* with the serial of that moment, and a turn-done event goes out when     *)
(* they agree.  Meanwhile other hook events bump the serial, end the       *)
(* session or start it anew, and the token counts of the turn arrive from  *)
(* the transcript watcher, each by a task of its own.                      *)
(*                                                                         *)
(* The aggregator handles one message at a time, so an event is one step;  *)
(* the grace may end at any time after its Stop.  The gate is enabled      *)
(* (a zero grace starts no timer).                                         *)
(***************************************************************************)
EXTENDS Naturals

CONSTANTS
    Session,
    MaxStops,   \* bound: Stop events
    MaxEvents,  \* bound: other hook events
    MaxLines    \* bound: transcript lines with output tokens, one token each

ASSUME BoundsAssumption == MaxStops \in Nat /\ MaxEvents \in Nat /\ MaxLines \in Nat

VARIABLES
    sessions,   \* Aggregator.sessions
    gates,      \* timers under way, with what they captured at their Stop
    notices,    \* the turn-done events broadcast so far
    unread,     \* per session: lines of its transcript the aggregator has not counted
    stops, eventsLeft, linesLeft,
    since,      \* history: what happened to its session since each Stop
    due         \* history: lines that were unread at the last prompt of their session,
                \* or that were written after it

bounds  == <<stops, eventsLeft, linesLeft>>
history == <<since, due>>
vars    == <<sessions, gates, notices, unread, bounds, history>>

SessionRecord == [open : BOOLEAN, serial : Nat, tokens : Nat]
Absent     == [open |-> FALSE, serial |-> 0, tokens |-> 0]
NewSession == [open |-> TRUE, serial |-> 0, tokens |-> 0]

OrNew(r) == IF r.open THEN r ELSE NewSession

\* The serial saturates at 2^64 - 1, which no run of the daemon reaches.
bump_activity(r) == [r EXCEPT !.serial = @ + 1]

\* The stops of session s whose timer still runs see the happening h.
Witnessed(s, h) ==
    [n \in 1..MaxStops |->
        IF \E g \in gates : g.stop = n /\ g.session = s THEN since[n] \cup {h} ELSE since[n]]

-----------------------------------------------------------------------------
(* Hook events other than Stop. *)

HookEvent(s, h) ==
    /\ eventsLeft > 0
    /\ eventsLeft' = eventsLeft - 1
    /\ since' = Witnessed(s, h)
    /\ UNCHANGED <<gates, notices, stops, linesLeft>>

\* SessionStart and PreToolUse treat the serial alike.
SessionStartOrPreToolUse(s) ==
    /\ HookEvent(s, "activity")
    /\ sessions' = [sessions EXCEPT ![s] = bump_activity(OrNew(@))]
    /\ UNCHANGED <<unread, due>>

\* Mutant: a finished tool does not count as activity.
Bug_PostToolUse_is_quiet(s) ==
    /\ HookEvent(s, "activity")
    /\ UNCHANGED <<sessions, unread, due>>

\* Of a session the daemon does not know nothing is recorded.
PostToolUse(s) ==
    /\ HookEvent(s, IF sessions[s].open THEN "activity" ELSE "unknown")
    /\ sessions' = [sessions EXCEPT ![s] = IF @.open THEN bump_activity(@) ELSE @]
    /\ UNCHANGED <<unread, due>>

\* Mutant: the tokens of the turn are counted from the first prompt on.
Bug_UserPromptSubmit(s) ==
    /\ HookEvent(s, "activity")
    /\ sessions' = [sessions EXCEPT ![s] = bump_activity(OrNew(@))]
    /\ due' = [due EXCEPT ![s] = unread[s]]
    /\ UNCHANGED unread

\* A new user task.
UserPromptSubmit(s) ==
    /\ HookEvent(s, "activity")
    /\ sessions' = [sessions EXCEPT ![s] = [bump_activity(OrNew(@)) EXCEPT !.tokens = 0]]
    /\ due' = [due EXCEPT ![s] = unread[s]]
    /\ UNCHANGED unread

SessionEnd(s) ==
    /\ HookEvent(s, "end")
    /\ sessions' = [sessions EXCEPT ![s] = Absent]
    /\ UNCHANGED <<unread, due>>

-----------------------------------------------------------------------------
(* Tokens. *)

\* Claude Code appends an assistant line to the session's transcript.
TranscriptGrows(s) ==
    /\ linesLeft > 0
    /\ linesLeft' = linesLeft - 1
    /\ unread' = [unread EXCEPT ![s] = @ + 1]
    /\ due' = [due EXCEPT ![s] = @ + 1]
    /\ UNCHANGED <<sessions, gates, notices, stops, eventsLeft, since>>

count_token(r) == [r EXCEPT !.tokens = @ + 1]

\* The watcher has read a line and its TokensUpdate arrives, whenever that is.
TokensUpdate(s) ==
    /\ unread[s] > 0
    /\ unread' = [unread EXCEPT ![s] = @ - 1]
    /\ sessions' = [sessions EXCEPT ![s] = IF @.open THEN count_token(@) ELSE @]
    /\ UNCHANGED <<gates, notices, bounds, history>>

-----------------------------------------------------------------------------
(* The gate. *)

\* Mutant: Stop itself counts as activity, after the capture.
Bug_Stop_bumps(s) ==
    /\ stops < MaxStops
    /\ stops' = stops + 1
    /\ gates' = gates \cup {[stop |-> stops + 1, session |-> s, serial |-> sessions[s].serial]}
    /\ sessions' = [sessions EXCEPT ![s] = IF @.open THEN bump_activity(@) ELSE @]
    /\ UNCHANGED <<notices, unread, eventsLeft, linesLeft, history>>

\* Stop captures the serial, 0 for an unknown session, and starts the timer.
spawn_turn_done_gate(s) ==
    /\ stops < MaxStops
    /\ stops' = stops + 1
    /\ gates' = gates \cup {[stop |-> stops + 1, session |-> s, serial |-> sessions[s].serial]}
    /\ UNCHANGED <<sessions, notices, unread, eventsLeft, linesLeft, history>>

Notice(g, tokens) ==
    [stop |-> g.stop, tokens |-> tokens, due |-> due[g.session]]

\* A session that is gone counts as idle; the tokens are read now, not at the Stop.
handle_check_turn_done(g) ==
    /\ gates' = gates \ {g}
    /\ LET r == sessions[g.session]
       IN  notices' = IF ~r.open \/ r.serial = g.serial
                      THEN notices \cup {Notice(g, r.tokens)} ELSE notices
    /\ UNCHANGED <<sessions, unread, bounds, history>>

-----------------------------------------------------------------------------
Init ==
    /\ sessions = [s \in Session |-> Absent]
    /\ gates = {}
    /\ notices = {}
    /\ unread = [s \in Session |-> 0]
    /\ stops = 0 /\ eventsLeft = MaxEvents /\ linesLeft = MaxLines
    /\ since = [n \in 1..MaxStops |-> {}]
    /\ due = [s \in Session |-> 0]

Check == \E g \in gates : handle_check_turn_done(g)

Next ==
    \/ \E s \in Session :
          \/ SessionStartOrPreToolUse(s) \/ PostToolUse(s) \/ UserPromptSubmit(s) \/ SessionEnd(s)
          \/ TranscriptGrows(s) \/ TokensUpdate(s)
          \/ spawn_turn_done_gate(s)
    \/ Check

Spec == Init /\ [][Next]_vars

\* Every timer elapses and the aggregator takes its message.  The gates are
\* distinct tasks, but a set that only shrinks is emptied by fairness of Check.
FairSpec == Spec /\ WF_vars(Check)

-----------------------------------------------------------------------------
(* Properties. *)

Happening == {"activity", "end", "unknown"}

\* Every variable keeps its type.
TypeOK ==
    /\ sessions \in [Session -> SessionRecord]
    /\ gates \subseteq [stop : 1..MaxStops, session : Session, serial : Nat]
    /\ notices \subseteq [stop : 1..MaxStops, tokens : Nat, due : Nat]
    /\ unread \in [Session -> Nat] /\ due \in [Session -> Nat]
    /\ stops \in 0..MaxStops /\ eventsLeft \in Nat /\ linesLeft \in Nat
    /\ since \in [1..MaxStops -> SUBSET Happening]

\* A turn-done notice says that Claude is idle: unless its session ended in the
\* meantime, no prompt, tool call or restart of it was handled between the Stop and
\* the end of the grace, however many Stops and timers of it overlap.
NoticeMeansIdle ==
    \A n \in notices : "activity" \in since[n.stop] => "end" \in since[n.stop]

\* A notice counts the lines of its turn, and those alone that were still unread when its
\* prompt came: none twice, and none that was counted before, though updates and prompts
\* overtake each other.
NoticeCountsItsLines == \A n \in notices : n.tokens <= n.due

\* A session that stays idle after its Stop is announced.
IdleIsAnnounced ==
    \A k \in 1..MaxStops :
        stops = k ~> (since[k] # {} \/ \E n \in notices : n.stop = k)
=============================================================================
