--------------------------- MODULE HeartbeatFeed ---------------------------
(***************************************************************************)
(* Heartbeats on their way to the clients: the aggregator's broadcast      *)
(* channel, and the select loops of ctrl connections (emit/ctrl.rs) and of *)
(* BLE sessions (emit/ble/session.rs), which stream heartbeats and answer  *)
(* commands that arrive in pieces.                                         *)
(*                                                                         *)
(* The aggregator's state is a number, and a heartbeat the state it shows. *)
(* A change is broadcast at once if its handler does so; changes of the    *)
(* prompts are (HeartbeatIsFresh of ApprovalFlow), a new session or entry  *)
(* of a call that is answered without a prompt waits for the next          *)
(* heartbeat.  A receiver is the position of the next heartbeat it will    *)
(* take; the channel keeps the last Capacity.                              *)
(*                                                                         *)
(* read_line keeps the bytes it has read in its future.  When another      *)
(* branch of the select! completes, the future is dropped and the bytes    *)
(* are gone; `partial` is what the present future holds.                   *)
(***************************************************************************)
EXTENDS Naturals, Sequences

CONSTANTS
    Client,       \* connections of the ctrl socket
    Device,       \* BLE devices
    Capacity,     \* BROADCAST_CAPACITY
    MaxChanges,   \* bound: changes of the state
    MaxHeartbeats, \* bound: heartbeats broadcast
    MaxCommands,  \* bound: commands of all peers
    MaxConnects   \* bound: connections of all peers

ASSUME CapacityAssumption == Capacity \in Nat \ {0}
ASSUME BoundsAssumption ==
    MaxChanges \in Nat /\ MaxHeartbeats \in Nat /\ MaxCommands \in Nat /\ MaxConnects \in Nat
ASSUME PeerAssumption == Client \cap Device = {}

Peer == Client \cup Device

VARIABLES
    state,      \* the aggregator's state
    log,        \* heartbeats broadcast so far
    phase,      \* what the connection's task is doing
    next,       \* its broadcast receiver
    snapshot,   \* the reply to its GetHeartbeat
    shown,      \* the last heartbeat written to the peer
    topics,     \* is Topic::Heartbeat among the connection's topics
    sent,       \* commands the peer began to send on this connection
    begun,      \* has it yet to send the rest of the last one
    inSocket,   \* pieces of lines that arrived and are not read
    partial,    \* pieces held by the future of read_line
    acked,      \* commands acknowledged
    connects, started,   \* connections and commands so far
    lost        \* history: commands of which a dropped future held a piece

aggregator == <<state, log>>
reading    == <<inSocket, partial>>
commands   == <<sent, begun, acked>>
used       == <<connects, started>>
vars == <<aggregator, phase, next, snapshot, shown, topics, reading, commands, used, lost>>

Phase   == {"closed", "asked", "answered", "loop"}
Kind    == {"subscribe", "unsubscribe", "status", "garbage"}
Piece   == [command : Nat, part : {"head", "tail"}]

-----------------------------------------------------------------------------
(* The aggregator. *)

broadcast_heartbeat == log' = Append(log, state')

\* The bound on heartbeats leaves the tick one that is later than every change.
change(heartbeats) ==
    /\ state < MaxChanges /\ Len(log) + heartbeats < MaxHeartbeats
    /\ state' = state + 1
    /\ UNCHANGED <<phase, next, snapshot, shown, topics, reading, commands, used, lost>>

\* A message whose handler broadcasts.
Change == change(1) /\ broadcast_heartbeat

\* A PreToolUse that is answered at once, as the lists allow or deny its call or its id is
\* taken: it may have made a session and an entry, and nothing is broadcast.
QuietChange == change(0) /\ UNCHANGED log

KeepaliveTick ==
    /\ Len(log) < MaxHeartbeats
    /\ UNCHANGED state
    /\ broadcast_heartbeat
    /\ UNCHANGED <<phase, next, snapshot, shown, topics, reading, commands, used, lost>>

GetHeartbeat(c) ==
    /\ phase[c] = "asked"
    /\ phase' = [phase EXCEPT ![c] = "answered"]
    /\ snapshot' = [snapshot EXCEPT ![c] = state]
    /\ UNCHANGED <<aggregator, next, shown, topics, reading, commands, used, lost>>

-----------------------------------------------------------------------------
(* The start of a connection. *)

resubscribe == Len(log) + 1

\* A client connects, or the session task of a device connects to it (anew); its
\* receiver is made, the hello is written and GetHeartbeat is sent.
Connect(c) ==
    /\ phase[c] = "closed" /\ connects < MaxConnects
    /\ connects' = connects + 1
    /\ phase' = [phase EXCEPT ![c] = "asked"]
    /\ next' = [next EXCEPT ![c] = resubscribe]
    /\ UNCHANGED <<aggregator, snapshot, shown, topics, reading, commands, started, lost>>

\* Mutant: the receiver is made when the loop begins.
Bug_WriteSnapshot_resubscribes(c) ==
    /\ phase[c] = "answered"
    /\ phase' = [phase EXCEPT ![c] = "loop"]
    /\ shown' = [shown EXCEPT ![c] = snapshot[c]]
    /\ next' = [next EXCEPT ![c] = resubscribe]
    /\ topics' = IF c \in Device THEN [topics EXCEPT ![c] = TRUE] ELSE topics
    /\ UNCHANGED <<aggregator, snapshot, reading, commands, used, lost>>

\* The snapshot is written and the loop begins; a BLE session streams from then on.
WriteSnapshot(c) ==
    /\ phase[c] = "answered"
    /\ phase' = [phase EXCEPT ![c] = "loop"]
    /\ shown' = [shown EXCEPT ![c] = snapshot[c]]
    /\ topics' = IF c \in Device THEN [topics EXCEPT ![c] = TRUE] ELSE topics
    /\ UNCHANGED <<aggregator, next, snapshot, reading, commands, used, lost>>

\* The peer leaves or a write to it fails: everything of the connection is dropped.
Close(c) ==
    /\ phase[c] # "closed"
    /\ phase' = [phase EXCEPT ![c] = "closed"]
    /\ topics' = [topics EXCEPT ![c] = FALSE]
    /\ inSocket' = [inSocket EXCEPT ![c] = <<>>] /\ partial' = [partial EXCEPT ![c] = <<>>]
    /\ sent' = [sent EXCEPT ![c] = <<>>] /\ begun' = [begun EXCEPT ![c] = FALSE]
    /\ acked' = [acked EXCEPT ![c] = {}]
    /\ lost' = [lost EXCEPT ![c] = {}]
    /\ UNCHANGED <<aggregator, next, snapshot, shown, used>>

-----------------------------------------------------------------------------
(* The heartbeat branch of the select!. *)

\* Another branch has completed: the future of read_line is dropped.
DropRead(c) ==
    /\ partial' = [partial EXCEPT ![c] = <<>>]
    /\ lost' = [lost EXCEPT ![c] = @ \cup {partial[c][i].command : i \in DOMAIN partial[c]}]

oldest    == IF Len(log) > Capacity THEN Len(log) - Capacity + 1 ELSE 1
Ready(c)  == phase[c] = "loop" /\ topics[c] /\ next[c] <= Len(log)

\* Mutant: a lagging receiver is moved to the end of the channel.
Bug_lag_to_end(c) ==
    /\ Ready(c) /\ next[c] < oldest
    /\ next' = [next EXCEPT ![c] = resubscribe]
    /\ DropRead(c)
    /\ UNCHANGED <<aggregator, phase, snapshot, shown, topics, inSocket, commands, used>>

Lagged(c) ==
    /\ Ready(c) /\ next[c] < oldest
    /\ next' = [next EXCEPT ![c] = oldest]
    /\ DropRead(c)
    /\ UNCHANGED <<aggregator, phase, snapshot, shown, topics, inSocket, commands, used>>

TakeHeartbeat(c) ==
    /\ Ready(c) /\ next[c] >= oldest
    /\ next' = [next EXCEPT ![c] = @ + 1]
    /\ shown' = [shown EXCEPT ![c] = log[next[c]]]
    /\ DropRead(c)
    /\ UNCHANGED <<aggregator, phase, snapshot, topics, inSocket, commands, used>>

\* A BLE session looks at its cancel flag every 500 ms.
CancelTick(c) ==
    /\ c \in Device /\ phase[c] = "loop"
    /\ partial[c] # <<>>
    /\ DropRead(c)
    /\ UNCHANGED <<aggregator, phase, next, snapshot, shown, topics, inSocket, commands, used>>

-----------------------------------------------------------------------------
(* Commands. *)

\* The peer writes the beginning of its next command, and later the rest of it.
SendCommand(c) ==
    /\ phase[c] = "loop" /\ ~begun[c] /\ started < MaxCommands
    /\ started' = started + 1
    /\ \E k \in Kind : sent' = [sent EXCEPT ![c] = Append(@, k)]
    /\ begun' = [begun EXCEPT ![c] = TRUE]
    /\ inSocket' = [inSocket EXCEPT ![c] = Append(@, [command |-> Len(sent[c]) + 1, part |-> "head"])]
    /\ UNCHANGED <<aggregator, phase, next, snapshot, shown, topics, partial, acked, connects, lost>>

SendRest(c) ==
    /\ phase[c] = "loop" /\ begun[c]
    /\ begun' = [begun EXCEPT ![c] = FALSE]
    /\ inSocket' = [inSocket EXCEPT ![c] = Append(@, [command |-> Len(sent[c]), part |-> "tail"])]
    /\ UNCHANGED <<aggregator, phase, next, snapshot, shown, topics, partial, sent, acked, used, lost>>

Pending(c) == partial[c] \o inSocket[c]

Newlines(c) == {i \in DOMAIN inSocket[c] : inSocket[c][i].part = "tail"}

\* The select! of a BLE session is biased towards heartbeats, that of ctrl is not.
MayRead(c) == phase[c] = "loop" /\ inSocket[c] # <<>> /\ (c \in Device => ~Ready(c))

\* read_line is polled and wants more.
PollRead(c) ==
    /\ MayRead(c) /\ Newlines(c) = {}
    /\ partial' = [partial EXCEPT ![c] = @ \o inSocket[c]]
    /\ inSocket' = [inSocket EXCEPT ![c] = <<>>]
    /\ UNCHANGED <<aggregator, phase, next, snapshot, shown, topics, commands, used, lost>>

\* What handle_command makes of a line: the command that is all of it, else garbage.
Whole(c, n, line) ==
    /\ line = <<[command |-> n, part |-> "head"], [command |-> n, part |-> "tail"]>>
    /\ sent[c][n] # "garbage"

\* The first line that is complete, with what the future holds of it.
IsLine(c, end, line) ==
    /\ end \in Newlines(c)
    /\ \A j \in Newlines(c) : end <= j
    /\ line = partial[c] \o SubSeq(inSocket[c], 1, end)

\* Mutant: a BufReader made anew for each line, what the old one had read is gone.
Bug_Consume_all(c, end, line) ==
    /\ inSocket' = [inSocket EXCEPT ![c] = <<>>]
    /\ acked' = [acked EXCEPT ![c] = @ \cup {n \in DOMAIN sent[c] : Whole(c, n, line)}]

Consume(c, end, line) ==
    /\ inSocket' = [inSocket EXCEPT ![c] = SubSeq(@, end + 1, Len(@))]
    /\ acked' = [acked EXCEPT ![c] = @ \cup {n \in DOMAIN sent[c] : Whole(c, n, line)}]

\* read_line completes: the command is dispatched and acknowledged, garbage is not.
\* A device knows neither subscribe nor unsubscribe and gets an error as its ack.
ReadLine(c) ==
    /\ MayRead(c)
    /\ \E end \in DOMAIN inSocket[c] :
          LET line   == partial[c] \o SubSeq(inSocket[c], 1, end)
              got(k) == c \in Client /\ \E n \in DOMAIN sent[c] : Whole(c, n, line) /\ sent[c][n] = k
          IN  /\ IsLine(c, end, line)
              /\ Consume(c, end, line)
              /\ partial' = [partial EXCEPT ![c] = <<>>]
              /\ topics' = [topics EXCEPT ![c] = (@ \/ got("subscribe")) /\ ~got("unsubscribe")]
    /\ UNCHANGED <<aggregator, phase, next, snapshot, shown, sent, begun, used, lost>>

-----------------------------------------------------------------------------
Init ==
    /\ state = 0 /\ log = <<>>
    /\ phase = [c \in Peer |-> "closed"]
    /\ next = [c \in Peer |-> 1]
    /\ snapshot = [c \in Peer |-> 0] /\ shown = [c \in Peer |-> 0]
    /\ topics = [c \in Peer |-> FALSE]
    /\ sent = [c \in Peer |-> <<>>] /\ begun = [c \in Peer |-> FALSE] /\ acked = [c \in Peer |-> {}]
    /\ inSocket = [c \in Peer |-> <<>>] /\ partial = [c \in Peer |-> <<>>]
    /\ connects = 0 /\ started = 0
    /\ lost = [c \in Peer |-> {}]

\* What the daemon does for a peer, and what the peer does.
Serve(c) ==
    \/ GetHeartbeat(c) \/ WriteSnapshot(c)
    \/ Lagged(c) \/ TakeHeartbeat(c)
    \/ PollRead(c) \/ ReadLine(c)

Use(c) == Connect(c) \/ Close(c) \/ SendCommand(c) \/ SendRest(c)

Next ==
    \/ Change \/ QuietChange \/ KeepaliveTick
    \/ \E c \in Peer : Serve(c) \/ CancelTick(c) \/ Use(c)

Spec == Init /\ [][Next]_vars

\* The aggregator and the connections are tasks of one runtime, always scheduled.
\* select! of the aggregator and of ctrl picks a ready branch at random, so none starves.
FairSpec ==
    /\ Spec /\ WF_vars(KeepaliveTick)
    /\ \A c \in Peer : WF_vars(Serve(c)) /\ SF_vars(Lagged(c) \/ TakeHeartbeat(c))

-----------------------------------------------------------------------------
(* Properties. *)

\* Every variable keeps its type.
TypeOK ==
    /\ state \in Nat /\ log \in Seq(Nat)
    /\ phase \in [Peer -> Phase]
    /\ next \in [Peer -> Nat \ {0}]
    /\ snapshot \in [Peer -> Nat] /\ shown \in [Peer -> Nat]
    /\ topics \in [Peer -> BOOLEAN]
    /\ sent \in [Peer -> Seq(Kind)] /\ begun \in [Peer -> BOOLEAN]
    /\ acked \in [Peer -> SUBSET Nat]
    /\ inSocket \in [Peer -> Seq(Piece)] /\ partial \in [Peer -> Seq(Piece)]
    /\ connects \in Nat /\ started \in Nat
    /\ lost \in [Peer -> SUBSET Nat]

\* Nothing that was broadcast falls between a connection's snapshot and its heartbeats: a
\* peer whose receiver is empty shows the state of the last heartbeat or, by its snapshot,
\* a later one, whatever lag, subscriptions and reconnects came before.
announced == IF log = <<>> THEN 0 ELSE log[Len(log)]
DrainedShowsAnnounced ==
    \A c \in Peer : phase[c] = "loop" /\ next[c] > Len(log) => shown[c] \in announced..state

\* A peer that stays connected and subscribed is brought up to the present state, by the
\* next tick at the latest, also after it lagged behind the channel.
CatchesUp ==
    \A c \in Peer : (phase[c] = "loop" /\ topics[c] /\ shown[c] # state)
                        ~> (shown[c] = state \/ phase[c] # "loop" \/ ~topics[c])

\* All bytes the peer sent have been read, or dropped.
AllRead(c) == phase[c] = "loop" /\ ~begun[c] /\ Pending(c) = <<>>

\* A command stays without an ack only if it is garbage, or if a heartbeat (or the
\* tick of a BLE session) came while read_line held a part of it; the loss does not
\* spread to the commands before and after it.
OnlyInterruptedCommandsAreLost ==
    \A c \in Peer : AllRead(c) =>
        \A n \in DOMAIN sent[c] : sent[c][n] = "garbage" \/ n \in acked[c] \cup lost[c]
=============================================================================
