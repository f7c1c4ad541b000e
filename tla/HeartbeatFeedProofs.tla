------------------------ MODULE HeartbeatFeedProofs ------------------------
(***************************************************************************)
(* Theorems about the heartbeat feed, for any peers, capacity and bounds.  *)
(*                                                                         *)
(* A drained peer shows the state last announced, or a later one, because  *)
(* no heartbeat shows what is yet to come (AnnouncedIsPast) and every      *)
(* receiver is older than the snapshot it complements: from the reply to   *)
(* GetHeartbeat on, either there is a heartbeat left to take or what the   *)
(* peer has is as late as the last one.                                    *)
(* No command is lost but by interruption because what is yet to be read   *)
(* is always the end of what the peer sent.                                *)
(***************************************************************************)
EXTENDS HeartbeatFeed, Integers, SequenceTheorems, TLAPS

AnnouncedIsPast == announced \in 0..state

ReceiversInRange == \A c \in Peer : next[c] <= Len(log) + 1

SnapshotHolds ==
    \A c \in Peer : phase[c] = "answered" /\ next[c] > Len(log) => snapshot[c] \in announced..state

FeedInv == AnnouncedIsPast /\ ReceiversInRange /\ SnapshotHolds /\ DrainedShowsAnnounced

-----------------------------------------------------------------------------
(* Types. *)

LEMMA InitType == ASSUME Init PROVE TypeOK
  BY DEF Init, TypeOK, Phase

LEMMA DropReadType ==
    ASSUME TypeOK, NEW c \in Peer, DropRead(c)
    PROVE  partial' \in [Peer -> Seq(Piece)] /\ lost' \in [Peer -> SUBSET Nat]
  <1>0. partial[c] \in Seq(Piece)
    BY DEF TypeOK
  <1>1. \A i \in DOMAIN partial[c] : partial[c][i].command \in Nat
    <2> SUFFICES ASSUME NEW i \in DOMAIN partial[c] PROVE partial[c][i].command \in Nat
      OBVIOUS
    <2>1. partial[c][i] \in Piece
      BY <1>0
    <2> QED  BY <2>1 DEF Piece
  <1>2. partial' \in [Peer -> Seq(Piece)]
    BY DEF TypeOK, DropRead
  <1>3. lost[c] \cup {partial[c][i].command : i \in DOMAIN partial[c]} \in SUBSET Nat
    BY <1>1 DEF TypeOK
  <1> QED  BY <1>2, <1>3 DEF TypeOK, DropRead

LEMMA BroadcastType ==
    ASSUME TypeOK, state' \in Nat, broadcast_heartbeat PROVE log' \in Seq(Nat)
  BY DEF TypeOK, broadcast_heartbeat

LEMMA ReadLineType == ASSUME TypeOK, NEW c \in Peer, ReadLine(c) PROVE TypeOK'
  <1>1. inSocket[c] \in Seq(Piece) /\ partial[c] \in Seq(Piece) /\ sent[c] \in Seq(Kind)
    BY DEF TypeOK
  <1> DEFINE line(end) == partial[c] \o SubSeq(inSocket[c], 1, end)
  <1>2. PICK end \in DOMAIN inSocket[c] :
            /\ Consume(c, end, line(end))
            /\ partial' = [partial EXCEPT ![c] = <<>>]
            /\ \E b \in BOOLEAN : topics' = [topics EXCEPT ![c] = b]
    BY DEF ReadLine
  <1>3. SubSeq(inSocket[c], end + 1, Len(inSocket[c])) \in Seq(Piece)
    BY <1>1
  <1>4. {n \in DOMAIN sent[c] : Whole(c, n, line(end))} \in SUBSET Nat
    BY <1>1
  <1>5. inSocket' \in [Peer -> Seq(Piece)]
    BY <1>2, <1>3 DEF TypeOK, Consume
  <1>6. acked' \in [Peer -> SUBSET Nat]
    BY <1>2, <1>4 DEF TypeOK, Consume
  <1>7. partial' \in [Peer -> Seq(Piece)]
    BY <1>2 DEF TypeOK
  <1>8. topics' \in [Peer -> BOOLEAN]
    BY <1>2, Zenon DEF TypeOK
  <1> QED  BY <1>5, <1>6, <1>7, <1>8 DEF TypeOK, ReadLine, aggregator, used

LEMMA NextType == ASSUME TypeOK, [Next]_vars PROVE TypeOK'
  <1> USE DEF aggregator, reading, commands, used
  <1>1. CASE UNCHANGED vars
    BY <1>1 DEF TypeOK, vars
  <1>2. CASE Change \/ QuietChange
    <2>1. state' \in Nat  BY <1>2 DEF TypeOK, Change, QuietChange, change
    <2>2. log' \in Seq(Nat)
      BY <1>2, <2>1, BroadcastType DEF Change, QuietChange, TypeOK
    <2> QED  BY <1>2, <2>1, <2>2 DEF TypeOK, Change, QuietChange, change
  <1>3. CASE KeepaliveTick
    <2>1. state' \in Nat  BY <1>3 DEF TypeOK, KeepaliveTick
    <2>2. log' \in Seq(Nat)  BY <1>3, <2>1, BroadcastType DEF KeepaliveTick
    <2> QED  BY <1>3, <2>1, <2>2 DEF TypeOK, KeepaliveTick
  <1>4. ASSUME NEW c \in Peer, GetHeartbeat(c) PROVE TypeOK'
    BY <1>4 DEF TypeOK, GetHeartbeat, Phase
  <1>5. ASSUME NEW c \in Peer, WriteSnapshot(c) PROVE TypeOK'
    <2>1. topics' \in [Peer -> BOOLEAN]
      BY <1>5 DEF TypeOK, WriteSnapshot
    <2> QED  BY <1>5, <2>1 DEF TypeOK, WriteSnapshot, Phase
  <1>6. ASSUME NEW c \in Peer, Lagged(c) PROVE TypeOK'
    <2>1. oldest \in Nat \ {0}
      BY CapacityAssumption DEF TypeOK, oldest, CapacityAssumption
    <2>2. partial' \in [Peer -> Seq(Piece)] /\ lost' \in [Peer -> SUBSET Nat]
      BY <1>6, DropReadType DEF Lagged
    <2> QED  BY <1>6, <2>1, <2>2 DEF TypeOK, Lagged
  <1>7. ASSUME NEW c \in Peer, TakeHeartbeat(c) PROVE TypeOK'
    <2>1. log[next[c]] \in Nat  BY <1>7 DEF TypeOK, TakeHeartbeat, Ready
    <2>2. partial' \in [Peer -> Seq(Piece)] /\ lost' \in [Peer -> SUBSET Nat]
      BY <1>7, DropReadType DEF TakeHeartbeat
    <2>3. next' \in [Peer -> Nat \ {0}]
      BY <1>7 DEF TypeOK, TakeHeartbeat
    <2>4. shown' \in [Peer -> Nat]
      BY <1>7, <2>1 DEF TypeOK, TakeHeartbeat
    <2> QED  BY <1>7, <2>2, <2>3, <2>4 DEF TypeOK, TakeHeartbeat
  <1>8. ASSUME NEW c \in Peer, PollRead(c) PROVE TypeOK'
    <2>1. partial[c] \o inSocket[c] \in Seq(Piece)  BY DEF TypeOK
    <2> QED  BY <1>8, <2>1 DEF TypeOK, PollRead
  <1>9. ASSUME NEW c \in Peer, ReadLine(c) PROVE TypeOK'
    BY <1>9, ReadLineType
  <1>10. ASSUME NEW c \in Peer, CancelTick(c) PROVE TypeOK'
    <2>1. partial' \in [Peer -> Seq(Piece)] /\ lost' \in [Peer -> SUBSET Nat]
      BY <1>10, DropReadType DEF CancelTick
    <2> QED  BY <1>10, <2>1 DEF TypeOK, CancelTick
  <1>11. ASSUME NEW c \in Peer, Connect(c) PROVE TypeOK'
    <2>1. Len(log) + 1 \in Nat \ {0}  BY DEF TypeOK
    <2> QED  BY <1>11, <2>1 DEF TypeOK, Connect, resubscribe, Phase
  <1>12. ASSUME NEW c \in Peer, Close(c) PROVE TypeOK'
    BY <1>12 DEF TypeOK, Close, Phase
  <1>13. ASSUME NEW c \in Peer, SendCommand(c) PROVE TypeOK'
    <2> DEFINE p == [command |-> Len(sent[c]) + 1, part |-> "head"]
    <2>1. p \in Piece  BY DEF TypeOK, Piece
    <2>2. inSocket' \in [Peer -> Seq(Piece)]
      BY <1>13, <2>1 DEF TypeOK, SendCommand
    <2>3. sent' \in [Peer -> Seq(Kind)]
      BY <1>13 DEF TypeOK, SendCommand
    <2> QED  BY <1>13, <2>2, <2>3 DEF TypeOK, SendCommand
  <1>14. ASSUME NEW c \in Peer, SendRest(c) PROVE TypeOK'
    <2> DEFINE p == [command |-> Len(sent[c]), part |-> "tail"]
    <2>1. p \in Piece  BY DEF TypeOK, Piece
    <2>2. inSocket' \in [Peer -> Seq(Piece)]
      BY <1>14, <2>1 DEF TypeOK, SendRest
    <2> QED  BY <1>14, <2>2 DEF TypeOK, SendRest
  <1> QED
    BY <1>1, <1>2, <1>3, <1>4, <1>5, <1>6, <1>7, <1>8, <1>9, <1>10, <1>11, <1>12,
       <1>13, <1>14 DEF Next, Serve, Use

\* Every variable of the feed keeps its type.
THEOREM TypeCorrect == Spec => []TypeOK
  <1>1. Init => TypeOK  BY InitType
  <1>2. TypeOK /\ [Next]_vars => TypeOK'  BY NextType
  <1> QED  BY <1>1, <1>2, PTL DEF Spec

-----------------------------------------------------------------------------
(* The feed. *)

LEMMA InitFeed == ASSUME Init PROVE FeedInv
  BY DEF Init, FeedInv, AnnouncedIsPast, ReceiversInRange, SnapshotHolds, DrainedShowsAnnounced,
         announced

LEMMA Announced ==
    ASSUME TypeOK
    PROVE  /\ announced \in Nat
           /\ broadcast_heartbeat /\ state' \in Nat =>
                announced' = state' /\ Len(log') = Len(log) + 1
           /\ log' = log => announced' = announced
           /\ \A c \in Peer : next[c] = Len(log) => announced = log[next[c]]
  <1>1. log \in Seq(Nat) /\ Len(log) \in Nat /\ \A c \in Peer : next[c] \in Nat \ {0}
    BY DEF TypeOK
  <1>2. announced \in Nat
    BY <1>1 DEF announced
  <1>3. ASSUME broadcast_heartbeat, state' \in Nat
        PROVE  announced' = state' /\ Len(log') = Len(log) + 1
    BY <1>1, <1>3 DEF announced, broadcast_heartbeat
  <1> QED  BY <1>1, <1>2, <1>3 DEF announced

\* Messages and ticks that broadcast: all receivers have something to take afterwards.
LEMMA BroadcastKeepsFeed ==
    ASSUME TypeOK, FeedInv, state' \in Nat, broadcast_heartbeat, next' = next
    PROVE  FeedInv'
  <1>1. Len(log') = Len(log) + 1 /\ announced' = state' /\ Len(log) \in Nat
    BY Announced DEF TypeOK
  <1>2. \A c \in Peer : next'[c] \in Nat /\ next'[c] <= Len(log')
    BY <1>1 DEF TypeOK, FeedInv, ReceiversInRange
  <1> QED
    BY <1>1, <1>2 DEF FeedInv, AnnouncedIsPast, ReceiversInRange, SnapshotHolds,
                      DrainedShowsAnnounced

\* Actions that leave the channel, the receivers and what peers have been told alone,
\* in which at most a connection ends or has yet to ask, or the state gets on.
LEMMA OtherKeepsFeed ==
    ASSUME TypeOK, FeedInv, state' \in Nat, state' >= state, log' = log, next' = next,
           snapshot' = snapshot, shown' = shown,
           \A c \in Peer : phase'[c] = phase[c] \/ phase'[c] \notin {"answered", "loop"}
    PROVE  FeedInv'
  <1>1. announced' = announced /\ announced \in Nat /\ state \in Nat
    BY Announced DEF TypeOK
  <1>2. AnnouncedIsPast' /\ ReceiversInRange'
    BY <1>1 DEF FeedInv, AnnouncedIsPast, ReceiversInRange
  <1>3. SnapshotHolds'
    BY <1>1 DEF FeedInv, SnapshotHolds, TypeOK
  <1>4. DrainedShowsAnnounced'
    BY <1>1 DEF FeedInv, DrainedShowsAnnounced, TypeOK
  <1> QED  BY <1>2, <1>3, <1>4 DEF FeedInv

LEMMA NextFeed == ASSUME TypeOK, FeedInv, [Next]_vars PROVE FeedInv'
  <1> USE DEF aggregator
  <1>l. /\ Len(log) \in Nat /\ \A c \in Peer : next[c] \in Nat \ {0}
        /\ state \in Nat /\ announced \in Nat /\ (log' = log => announced' = announced)
    BY Announced DEF TypeOK
  <1>1. CASE UNCHANGED vars
    BY <1>1, <1>l, OtherKeepsFeed DEF vars
  <1>2. CASE Change \/ KeepaliveTick
    <2>1. state' \in Nat /\ broadcast_heartbeat /\ next' = next
      BY <1>2 DEF TypeOK, Change, change, KeepaliveTick
    <2> QED  BY <2>1, BroadcastKeepsFeed
  <1>10. CASE QuietChange
    BY <1>10, <1>l, OtherKeepsFeed DEF QuietChange, change
  <1>3. ASSUME NEW c \in Peer, GetHeartbeat(c) PROVE FeedInv'
    BY <1>3, <1>l DEF GetHeartbeat, TypeOK, FeedInv, AnnouncedIsPast, ReceiversInRange, SnapshotHolds,
                DrainedShowsAnnounced
  <1>4. ASSUME NEW c \in Peer, WriteSnapshot(c) PROVE FeedInv'
    BY <1>4, <1>l DEF WriteSnapshot, TypeOK, FeedInv, AnnouncedIsPast, ReceiversInRange, SnapshotHolds,
                DrainedShowsAnnounced
  <1>5. ASSUME NEW c \in Peer, Lagged(c) PROVE FeedInv'
    <2>1. oldest <= Len(log) /\ oldest \in Nat
      BY <1>5, <1>l, CapacityAssumption DEF Lagged, Ready, oldest, CapacityAssumption
    <2>2. \A d \in Peer : next'[d] = IF d = c THEN oldest ELSE next[d]
      BY <1>5 DEF Lagged, TypeOK
    <2>3. state' = state /\ log' = log /\ phase' = phase /\ snapshot' = snapshot /\ shown' = shown
      BY <1>5 DEF Lagged
    <2> QED
      BY <1>l, <2>1, <2>2, <2>3 DEF FeedInv, AnnouncedIsPast, ReceiversInRange, SnapshotHolds,
                                    DrainedShowsAnnounced
  <1>6. ASSUME NEW c \in Peer, TakeHeartbeat(c) PROVE FeedInv'
    <2>1. next[c] <= Len(log) /\ phase[c] = "loop"
      BY <1>6 DEF TakeHeartbeat, Ready
    <2>2. \A d \in Peer : next'[d] = IF d = c THEN next[c] + 1 ELSE next[d]
      BY <1>6 DEF TakeHeartbeat, TypeOK
    <2>3. \A d \in Peer : shown'[d] = IF d = c THEN log[next[c]] ELSE shown[d]
      BY <1>6 DEF TakeHeartbeat, TypeOK
    <2>4. state' = state /\ log' = log /\ phase' = phase /\ snapshot' = snapshot
      BY <1>6 DEF TakeHeartbeat
    <2>5. next[c] = Len(log) => announced = log[next[c]]
      BY Announced
    <2> QED
      BY <1>l, <2>1, <2>2, <2>3, <2>4, <2>5 DEF FeedInv, AnnouncedIsPast, ReceiversInRange, SnapshotHolds,
                                          DrainedShowsAnnounced
  <1>7. ASSUME NEW c \in Peer, PollRead(c) \/ ReadLine(c) \/ CancelTick(c) \/ SendCommand(c) \/ SendRest(c)
        PROVE  FeedInv'
    <2>1. /\ state' = state /\ log' = log /\ next' = next /\ snapshot' = snapshot
          /\ shown' = shown /\ phase' = phase
      BY <1>7 DEF PollRead, ReadLine, CancelTick, SendCommand, SendRest
    <2>2. state' \in Nat /\ state' >= state
      BY <1>l, <2>1
    <2> QED  BY <2>1, <2>2, OtherKeepsFeed
  <1>8. ASSUME NEW c \in Peer, Connect(c) PROVE FeedInv'
    <2>1. \A d \in Peer : next'[d] = IF d = c THEN Len(log) + 1 ELSE next[d]
      BY <1>8 DEF Connect, TypeOK, resubscribe
    <2>2. \A d \in Peer : phase'[d] = IF d = c THEN "asked" ELSE phase[d]
      BY <1>8 DEF Connect, TypeOK
    <2>3. state' = state /\ log' = log /\ snapshot' = snapshot /\ shown' = shown
      BY <1>8 DEF Connect
    <2> QED
      BY <1>l, <2>1, <2>2, <2>3 DEF FeedInv, AnnouncedIsPast, ReceiversInRange, SnapshotHolds,
                                    DrainedShowsAnnounced
  <1>9. ASSUME NEW c \in Peer, Close(c) PROVE FeedInv'
    <2>1. \A d \in Peer : phase'[d] = phase[d] \/ phase'[d] = "closed"
      BY <1>9 DEF Close, TypeOK
    <2> QED  BY <1>9, <1>l, <2>1, OtherKeepsFeed DEF Close
  <1> QED
    BY <1>1, <1>2, <1>3, <1>4, <1>5, <1>6, <1>7, <1>8, <1>9, <1>10 DEF Next, Serve, Use

\* A peer with nothing left to take shows what was announced last, or what its snapshot, made
\* later, showed (state/mod.rs: broadcast_heartbeat, GetHeartbeat; emit/ctrl.rs: accept_loop).
THEOREM FeedCorrect == Spec => []DrainedShowsAnnounced
  <1>1. Init => FeedInv  BY InitFeed
  <1>2. TypeOK /\ FeedInv /\ [Next]_vars => FeedInv'  BY NextFeed
  <1>3. FeedInv => DrainedShowsAnnounced  BY DEF FeedInv
  <1> QED  BY <1>1, <1>2, <1>3, TypeCorrect, PTL DEF Spec

-----------------------------------------------------------------------------
(***************************************************************************)
(* Commands.                                                               *)
(*                                                                         *)
(* What a connection has yet to read is the end of what its peer sent: the *)
(* heads and tails of commands in turn, head n at place 2n - 1 and tail n  *)
(* at place 2n.  Reading and dropping both take from the front, so all is  *)
(* said by the number of pieces that are gone.                             *)
(***************************************************************************)

Commands(c) == Len(sent[c])
Held(c)     == Len(partial[c])
Unread(c)   == Len(inSocket[c])
Sent(c)     == IF begun[c] THEN 2 * Commands(c) - 1 ELSE 2 * Commands(c)
Taken(c)    == Sent(c) - Held(c) - Unread(c)

PieceAt(p, place) ==
    \/ p.part = "head" /\ place = 2 * p.command - 1
    \/ p.part = "tail" /\ place = 2 * p.command

\* The pieces are where they belong, and the future of read_line holds no newline.
PiecesInPlace(c) ==
    /\ \A i \in 1..Held(c) :
          partial[c][i].part = "head" /\ PieceAt(partial[c][i], Taken(c) + i)
    /\ \A i \in 1..Unread(c) : PieceAt(inSocket[c][i], Taken(c) + Held(c) + i)

\* A command of which the head is gone is acknowledged, garbage or lost.
TakenAreSettled(c) ==
    \A n \in 1..Commands(c) :
        2 * n - 1 <= Taken(c) => sent[c][n] = "garbage" \/ n \in acked[c] \cup lost[c]

CommandsOf(c) == PiecesInPlace(c) /\ TakenAreSettled(c)
CommandInv    == \A c \in Peer : CommandsOf(c)

LEMMA Sequences ==
    ASSUME TypeOK, NEW c \in Peer
    PROVE  /\ sent[c] \in Seq(Kind) /\ partial[c] \in Seq(Piece) /\ inSocket[c] \in Seq(Piece)
           /\ \A i \in 1..Held(c) : partial[c][i] \in Piece /\ partial[c][i].command \in Nat
           /\ \A i \in 1..Unread(c) : inSocket[c][i] \in Piece /\ inSocket[c][i].command \in Nat
  <1>1. /\ sent[c] \in Seq(Kind) /\ partial[c] \in Seq(Piece) /\ inSocket[c] \in Seq(Piece)
    BY DEF TypeOK
  <1>2. \A p \in Piece : p.command \in Nat
    BY DEF Piece
  <1>3. /\ \A i \in 1..Held(c) : partial[c][i] \in Piece
        /\ \A i \in 1..Unread(c) : inSocket[c][i] \in Piece
    BY <1>1 DEF Held, Unread
  <1> QED  BY <1>1, <1>2, <1>3

LEMMA Counts ==
    ASSUME TypeOK, NEW c \in Peer
    PROVE  /\ Commands(c) \in Nat /\ Held(c) \in Nat /\ Unread(c) \in Nat
           /\ Sent(c) \in Int /\ Taken(c) \in Int
  <1>1. Commands(c) \in Nat /\ Held(c) \in Nat /\ Unread(c) \in Nat
    BY Sequences DEF Commands, Held, Unread
  <1>2. Sent(c) \in Int
    BY <1>1 DEF Sent
  <1> QED  BY <1>1, <1>2 DEF Taken

\* A head and the head after it are two places apart.
LEMMA Places ==
    /\ \A m, n \in Nat, g \in Int : ~(g + 1 = 2 * m - 1 /\ g + 2 = 2 * n - 1)
    /\ \A m, n \in Nat, g \in Int : g + 1 = 2 * m - 1 /\ 2 * n - 1 > g /\ 2 * n - 1 <= g + 2 => n = m
    /\ \A m, n \in Nat, g \in Int : g + 1 = 2 * m - 1 /\ g + 2 = 2 * n => n = m
    /\ \A m, n \in Nat, g \in Int : g + 1 = 2 * m /\ 2 * n - 1 <= g + 1 => 2 * n - 1 <= g
  OBVIOUS

\* So the future holds at most one.
LEMMA AtMostOneHeld ==
    ASSUME TypeOK, NEW c \in Peer, PiecesInPlace(c)
    PROVE  Held(c) <= 1
  <1>0. Held(c) \in Nat /\ Taken(c) \in Int
    BY Counts
  <1>1. SUFFICES ASSUME Held(c) > 1 PROVE FALSE
    BY <1>0
  <1>2. 1 \in 1..Held(c) /\ 2 \in 1..Held(c)
    BY <1>0, <1>1
  <1>3. /\ Taken(c) + 1 = 2 * partial[c][1].command - 1
        /\ Taken(c) + 2 = 2 * partial[c][2].command - 1
    BY <1>2 DEF PiecesInPlace, PieceAt
  <1>4. partial[c][1].command \in Nat /\ partial[c][2].command \in Nat
    BY <1>2, Sequences
  <1> QED  BY <1>0, <1>3, <1>4, Places

\* A peer about which a step changes nothing.
LEMMA CommandsSame ==
    ASSUME NEW c \in Peer, CommandsOf(c), sent'[c] = sent[c], begun'[c] = begun[c],
           partial'[c] = partial[c], inSocket'[c] = inSocket[c], acked'[c] = acked[c],
           lost'[c] = lost[c]
    PROVE  CommandsOf(c)'
  BY DEF CommandsOf, PiecesInPlace, TakenAreSettled, Taken, Sent, Commands, Held, Unread

\* Dropping the future of read_line loses the command it held the head of.
LEMMA DropKeepsCommands ==
    ASSUME TypeOK, CommandInv, NEW c \in Peer, DropRead(c),
           UNCHANGED <<sent, begun, inSocket, acked>>
    PROVE  CommandInv'
  <1>1. ASSUME NEW d \in Peer, d # c PROVE CommandsOf(d)'
    <2>1. partial'[d] = partial[d] /\ lost'[d] = lost[d]
      BY <1>1 DEF DropRead, TypeOK
    <2> QED  BY <2>1, CommandsSame DEF CommandInv
  <1>2. CommandsOf(c)'
    <2>1. /\ partial'[c] = <<>>
          /\ lost'[c] = lost[c] \cup {partial[c][i].command : i \in DOMAIN partial[c]}
      BY DEF DropRead, TypeOK
    <2>2. CommandsOf(c) /\ PiecesInPlace(c) /\ TakenAreSettled(c)
      BY DEF CommandInv, CommandsOf
    <2>3. /\ Held(c)' = 0 /\ Unread(c)' = Unread(c)
          /\ Commands(c)' = Commands(c) /\ Sent(c)' = Sent(c)
      BY <2>1 DEF Held, Unread, Commands, Sent
    <2>4. Taken(c)' = Taken(c) + Held(c)
      BY <2>3, Counts DEF Taken
    <2>5. PiecesInPlace(c)'
      BY <2>1, <2>2, <2>3, <2>4, Counts DEF PiecesInPlace
    <2>6. ASSUME NEW n \in 1..Commands(c), 2 * n - 1 <= Taken(c) + Held(c)
          PROVE  sent[c][n] = "garbage" \/ n \in acked[c] \cup lost'[c]
      <3>0. n \in Nat
        BY Counts
      <3>1. CASE 2 * n - 1 <= Taken(c)
        BY <2>1, <2>2, <3>1 DEF TakenAreSettled
      <3>2. CASE 2 * n - 1 > Taken(c)
        <4>1. Held(c) = 1
          BY <2>2, <2>6, <3>0, <3>2, AtMostOneHeld, Counts
        <4>2. 1 \in 1..Held(c) /\ Taken(c) + 1 = 2 * partial[c][1].command - 1
          BY <2>2, <4>1 DEF PiecesInPlace, PieceAt
        <4>3. partial[c][1].command \in Nat /\ 1 \in DOMAIN partial[c]
          BY <4>2, Sequences DEF Held
        <4>4. 2 * n - 1 <= Taken(c) + 2
          BY <2>6, <3>0, <4>1, Counts
        <4>5. partial[c][1].command = n
          BY <3>0, <3>2, <4>2, <4>3, <4>4, Counts, Places
        <4> QED  BY <2>1, <4>3, <4>5
      <3> QED  BY <3>0, <3>1, <3>2, Counts
    <2>7. TakenAreSettled(c)'
      BY <2>3, <2>4, <2>6 DEF TakenAreSettled
    <2> QED  BY <2>5, <2>7 DEF CommandsOf
  <1> QED  BY <1>1, <1>2 DEF CommandInv

\* A peer that sends a piece puts it behind all others.
LEMMA PieceSent ==
    ASSUME TypeOK, NEW c \in Peer, CommandsOf(c), NEW p \in Piece,
           inSocket'[c] = Append(inSocket[c], p), partial'[c] = partial[c],
           acked'[c] = acked[c], lost'[c] = lost[c],
           Sent(c)' = Sent(c) + 1, PieceAt(p, Sent(c) + 1),
           Commands(c)' \in Nat,
           \A n \in 1..Commands(c)' : 2 * n - 1 <= Sent(c) =>
               n \in 1..Commands(c) /\ sent'[c][n] = sent[c][n]
    PROVE  CommandsOf(c)'
  <1>1. /\ Held(c)' = Held(c) /\ Unread(c)' = Unread(c) + 1
        /\ \A i \in 1..Unread(c) : inSocket'[c][i] = inSocket[c][i]
        /\ inSocket'[c][Unread(c) + 1] = p
    BY Sequences DEF Held, Unread
  <1>2. Taken(c)' = Taken(c)
    BY <1>1, Counts DEF Taken
  <1>3. ASSUME NEW i \in 1..(Unread(c) + 1)
        PROVE  PieceAt(inSocket'[c][i], Taken(c) + Held(c) + i)
    <2>1. CASE i \in 1..Unread(c)
      BY <1>1, <2>1 DEF CommandsOf, PiecesInPlace
    <2>2. CASE i = Unread(c) + 1
      <3>1. Taken(c) + Held(c) + i = Sent(c) + 1
        BY <2>2, Counts DEF Taken
      <3> QED  BY <1>1, <2>2, <3>1
    <2>3. i \in 1..Unread(c) \/ i = Unread(c) + 1
      <3>1. Unread(c) \in Nat  BY Counts
      <3> QED  BY <3>1
    <2> QED  BY <2>1, <2>2, <2>3
  <1>4. PiecesInPlace(c)'
    BY <1>1, <1>2, <1>3 DEF CommandsOf, PiecesInPlace
  <1>5. Taken(c) <= Sent(c)
    BY Counts DEF Taken
  <1>6. ASSUME NEW n \in 1..Commands(c)', 2 * n - 1 <= Taken(c)
        PROVE  sent'[c][n] = "garbage" \/ n \in acked[c] \cup lost[c]
    <2>1. 2 * n - 1 <= Sent(c)
      BY <1>5, <1>6, Counts
    <2>2. n \in 1..Commands(c) /\ sent'[c][n] = sent[c][n]
      BY <2>1
    <2> QED  BY <1>6, <2>2 DEF CommandsOf, TakenAreSettled
  <1>7. TakenAreSettled(c)'
    BY <1>2, <1>6 DEF TakenAreSettled
  <1> QED  BY <1>4, <1>7 DEF CommandsOf

LEMMA SendCommandKeeps ==
    ASSUME TypeOK, CommandInv, NEW c \in Peer, SendCommand(c)
    PROVE  CommandInv'
  <1>1. ASSUME NEW d \in Peer, d # c PROVE CommandsOf(d)'
    BY <1>1, CommandsSame DEF CommandInv, SendCommand, TypeOK
  <1>2. CommandsOf(c)'
    <2> DEFINE p == [command |-> Len(sent[c]) + 1, part |-> "head"]
    <2>1. PICK k \in Kind : sent' = [sent EXCEPT ![c] = Append(@, k)]
      BY DEF SendCommand
    <2>2. sent'[c] = Append(sent[c], k) /\ sent[c] \in Seq(Kind)
      BY <2>1 DEF TypeOK
    <2>3. /\ inSocket'[c] = Append(inSocket[c], p)
          /\ partial'[c] = partial[c] /\ acked'[c] = acked[c] /\ lost'[c] = lost[c]
      BY DEF SendCommand, TypeOK
    <2>4. ~begun[c] /\ begun'[c]
      BY Zenon DEF SendCommand, TypeOK
    <2>5. /\ Commands(c)' = Commands(c) + 1
          /\ \A n \in 1..Commands(c) : sent'[c][n] = sent[c][n]
      BY <2>2 DEF Commands
    <2>6. Sent(c) = 2 * Commands(c) /\ Sent(c)' = 2 * Commands(c) + 1
      BY <2>4, <2>5, Counts DEF Sent
    <2>7. p \in Piece /\ p.command = Commands(c) + 1 /\ p.part = "head"
      BY <2>2 DEF Piece, Commands
    <2>8. PieceAt(p, Sent(c) + 1)
      <3>1. Sent(c) + 1 = 2 * p.command - 1
        BY <2>6, <2>7, Counts
      <3> QED  BY <2>7, <3>1 DEF PieceAt
    <2>9. ASSUME NEW n \in 1..Commands(c)', 2 * n - 1 <= Sent(c)
          PROVE  n \in 1..Commands(c) /\ sent'[c][n] = sent[c][n]
      BY <2>5, <2>6, <2>9, Counts
    <2>10. Commands(c)' \in Nat /\ Sent(c)' = Sent(c) + 1
      BY <2>5, <2>6, Counts
    <2> HIDE DEF p
    <2> QED  BY <2>3, <2>7, <2>8, <2>9, <2>10, PieceSent DEF CommandInv
  <1> QED  BY <1>1, <1>2 DEF CommandInv

LEMMA SendRestKeeps ==
    ASSUME TypeOK, CommandInv, NEW c \in Peer, SendRest(c)
    PROVE  CommandInv'
  <1>1. ASSUME NEW d \in Peer, d # c PROVE CommandsOf(d)'
    BY <1>1, CommandsSame DEF CommandInv, SendRest, TypeOK
  <1>2. CommandsOf(c)'
    <2> DEFINE p == [command |-> Len(sent[c]), part |-> "tail"]
    <2>1. sent' = sent /\ sent[c] \in Seq(Kind)
      BY DEF SendRest, TypeOK
    <2>2. /\ inSocket'[c] = Append(inSocket[c], p)
          /\ partial'[c] = partial[c] /\ acked'[c] = acked[c] /\ lost'[c] = lost[c]
      BY DEF SendRest, TypeOK
    <2>3. begun[c] /\ ~begun'[c]
      BY Zenon DEF SendRest, TypeOK
    <2>4. Commands(c)' = Commands(c)
      BY <2>1 DEF Commands
    <2>5. Sent(c) = 2 * Commands(c) - 1 /\ Sent(c)' = 2 * Commands(c)
      BY <2>3, <2>4, Counts DEF Sent
    <2>6. p \in Piece /\ p.command = Commands(c) /\ p.part = "tail"
      BY <2>1 DEF Piece, Commands
    <2>7. PieceAt(p, Sent(c) + 1)
      <3>1. Sent(c) + 1 = 2 * p.command
        BY <2>5, <2>6, Counts
      <3> QED  BY <2>6, <3>1 DEF PieceAt
    <2>8. Commands(c)' \in Nat /\ Sent(c)' = Sent(c) + 1
      BY <2>4, <2>5, Counts
    <2> HIDE DEF p
    <2> QED  BY <2>1, <2>2, <2>4, <2>6, <2>7, <2>8, PieceSent DEF CommandInv
  <1> QED  BY <1>1, <1>2 DEF CommandInv

\* A poll moves what arrived, all of it heads, into the future.
LEMMA PollReadKeeps ==
    ASSUME TypeOK, CommandInv, NEW c \in Peer, PollRead(c)
    PROVE  CommandInv'
  <1>1. ASSUME NEW d \in Peer, d # c PROVE CommandsOf(d)'
    BY <1>1, CommandsSame DEF CommandInv, PollRead, TypeOK, commands
  <1>2. CommandsOf(c)'
    <2>1. /\ partial'[c] = partial[c] \o inSocket[c] /\ inSocket'[c] = <<>>
          /\ sent' = sent /\ begun' = begun /\ acked' = acked /\ lost' = lost
          /\ Newlines(c) = {}
      BY DEF PollRead, TypeOK, commands
    <2>2. partial[c] \in Seq(Piece) /\ inSocket[c] \in Seq(Piece)
      BY Sequences
    <2>3. /\ Held(c)' = Held(c) + Unread(c) /\ Unread(c)' = 0
          /\ \A i \in 1..(Held(c) + Unread(c)) :
                partial'[c][i] = IF i <= Held(c) THEN partial[c][i] ELSE inSocket[c][i - Held(c)]
      <3>1. /\ Len(partial[c] \o inSocket[c]) = Held(c) + Unread(c)
            /\ \A i \in 1..(Held(c) + Unread(c)) : (partial[c] \o inSocket[c])[i] =
                   IF i <= Held(c) THEN partial[c][i] ELSE inSocket[c][i - Held(c)]
        BY <2>2, ConcatProperties DEF Held, Unread
      <3>2. Held(c)' = Len(partial'[c]) /\ Unread(c)' = Len(inSocket'[c])
        BY DEF Held, Unread
      <3>3. Held(c)' = Held(c) + Unread(c)
        BY <2>1, <3>1, <3>2
      <3>4. Unread(c)' = 0
        BY <2>1, <3>2
      <3> QED  BY <2>1, <3>1, <3>3, <3>4
    <2>4. CommandsOf(c) /\ PiecesInPlace(c) /\ TakenAreSettled(c)
      BY DEF CommandInv, CommandsOf
    <2>5. Commands(c)' = Commands(c) /\ Sent(c)' = Sent(c)
      BY <2>1 DEF Sent, Commands
    <2>6. Taken(c)' = Taken(c)
      BY <2>3, <2>5, Counts DEF Taken
    <2>7. ASSUME NEW i \in 1..(Held(c) + Unread(c))
          PROVE  partial'[c][i].part = "head" /\ PieceAt(partial'[c][i], Taken(c) + i)
      <3>1. CASE i <= Held(c)
        <4>1. i \in 1..Held(c) /\ partial'[c][i] = partial[c][i]
          BY <2>3, <3>1, Counts
        <4> QED  BY <2>4, <4>1 DEF PiecesInPlace
      <3>2. CASE i > Held(c)
        <4>1. PICK j \in 1..Unread(c) : i = Held(c) + j
          <5>1. i - Held(c) \in 1..Unread(c) /\ i = Held(c) + (i - Held(c))
            BY <3>2, Counts
          <5> QED  BY <5>1
        <4>2. inSocket[c][j].part # "tail"
          BY <2>1, <2>2 DEF Newlines, Unread
        <4>3. PieceAt(inSocket[c][j], Taken(c) + Held(c) + j)
          BY <2>4 DEF PiecesInPlace
        <4>4. Taken(c) + Held(c) + j = Taken(c) + i
          BY <4>1, Counts
        <4>5. partial'[c][i] = inSocket[c][j]
          <5>1. i - Held(c) = j
            BY <4>1, Counts
          <5> QED  BY <2>3, <3>2, <5>1, Counts
        <4> QED  BY <4>2, <4>3, <4>4, <4>5 DEF PieceAt
      <3> QED  BY <3>1, <3>2, Counts
    <2>8. PiecesInPlace(c)'
      BY <2>3, <2>6, <2>7 DEF PiecesInPlace
    <2>9. TakenAreSettled(c)'
      BY <2>1, <2>4, <2>5, <2>6 DEF TakenAreSettled
    <2> QED  BY <2>8, <2>9 DEF CommandsOf
  <1> QED  BY <1>1, <1>2 DEF CommandInv

\* The pieces of a line that is complete are the tail of a command whose head is gone,
\* or the head and the tail of one.
LEMMA LineIsShort ==
    ASSUME TypeOK, NEW c \in Peer, PiecesInPlace(c), NEW end \in 1..Unread(c),
           inSocket[c][end].part = "tail",
           \A j \in 1..Unread(c) : inSocket[c][j].part = "tail" => end <= j
    PROVE  \/ Held(c) = 0 /\ end = 1
           \/ Held(c) = 1 /\ end = 1
           \/ Held(c) = 0 /\ end = 2
  <1>1. /\ Held(c) \in Nat /\ Unread(c) \in Nat /\ Taken(c) \in Int /\ end \in Nat
        /\ Held(c) <= 1
    BY Counts, AtMostOneHeld
  <1>2. ASSUME NEW j \in 1..Unread(c), j < end
        PROVE  /\ inSocket[c][j].command \in Nat
               /\ Taken(c) + Held(c) + j = 2 * inSocket[c][j].command - 1
    <2>1. inSocket[c][j].part # "tail"
      BY <1>1, <1>2
    <2> QED  BY <2>1, Sequences DEF PiecesInPlace, PieceAt
  <1>3. CASE Held(c) = 1 /\ end > 1
    <2>1. /\ 1 \in 1..Unread(c) /\ 1 \in 1..Held(c)
      BY <1>1, <1>3
    <2>2. /\ inSocket[c][1].command \in Nat
          /\ Taken(c) + Held(c) + 1 = 2 * inSocket[c][1].command - 1
      BY <1>2, <1>3, <2>1
    <2>3. Taken(c) + 2 = 2 * inSocket[c][1].command - 1
      BY <1>1, <1>3, <2>2
    <2>4. /\ partial[c][1].command \in Nat
          /\ Taken(c) + 1 = 2 * partial[c][1].command - 1
      BY <2>1, Sequences DEF PiecesInPlace, PieceAt
    <2> QED  BY <1>1, <2>2, <2>3, <2>4, Places
  <1>4. CASE Held(c) = 0 /\ end > 2
    <2>1. 1 \in 1..Unread(c) /\ 2 \in 1..Unread(c)
      BY <1>1, <1>4
    <2>2. /\ inSocket[c][1].command \in Nat /\ inSocket[c][2].command \in Nat
          /\ Taken(c) + Held(c) + 1 = 2 * inSocket[c][1].command - 1
          /\ Taken(c) + Held(c) + 2 = 2 * inSocket[c][2].command - 1
      BY <1>1, <1>2, <1>4, <2>1
    <2>3. /\ Taken(c) + 1 = 2 * inSocket[c][1].command - 1
          /\ Taken(c) + 2 = 2 * inSocket[c][2].command - 1
      BY <1>1, <1>4, <2>2
    <2> QED  BY <1>1, <2>2, <2>3, Places
  <1> QED  BY <1>1, <1>3, <1>4

\* A head and the tail after it make a whole command.
LEMMA WholeLine ==
    ASSUME TypeOK, NEW c \in Peer, NEW n \in 1..Commands(c), sent[c][n] # "garbage",
           NEW line \in Seq(Piece), Len(line) = 2,
           line[1].part = "head", line[1].command = n, line[2].part = "tail", line[2].command = n
    PROVE  n \in DOMAIN sent[c] /\ Whole(c, n, line)
  <1>1. line[1] \in Piece /\ line[2] \in Piece
    <2>1. 1 \in 1..Len(line) /\ 2 \in 1..Len(line)
      OBVIOUS
    <2> QED  BY <2>1, ElementOfSeq
  <1>2. line[1] = [command |-> n, part |-> "head"]
    BY <1>1 DEF Piece
  <1>3. line[2] = [command |-> n, part |-> "tail"]
    BY <1>1 DEF Piece
  <1>4. line = <<line[1], line[2]>>
    <2> DEFINE pair == <<line[1], line[2]>>
    <2>1. pair \in Seq(Piece) /\ Len(pair) = 2 /\ pair[1] = line[1] /\ pair[2] = line[2]
      BY <1>1
    <2>2. \A i \in 1..Len(line) : line[i] = pair[i]
      BY <2>1
    <2> HIDE DEF pair
    <2>3. line = pair
      BY <2>1, <2>2, SeqEqual
    <2> QED  BY <2>3 DEF pair
  <1>5. n \in DOMAIN sent[c]
    BY Sequences DEF Commands
  <1> QED  BY <1>2, <1>3, <1>4, <1>5 DEF Whole

LEMMA ReadLineKeeps ==
    ASSUME TypeOK, CommandInv, NEW c \in Peer, ReadLine(c)
    PROVE  CommandInv'
  <1> DEFINE line(end) == partial[c] \o SubSeq(inSocket[c], 1, end)
  <1>0. PICK end \in DOMAIN inSocket[c] :
            /\ IsLine(c, end, line(end))
            /\ Consume(c, end, line(end))
            /\ partial' = [partial EXCEPT ![c] = <<>>]
    BY DEF ReadLine
  <1>1. ASSUME NEW d \in Peer, d # c PROVE CommandsOf(d)'
    <2>1. /\ partial'[d] = partial[d] /\ inSocket'[d] = inSocket[d] /\ acked'[d] = acked[d]
          /\ sent' = sent /\ begun' = begun /\ lost' = lost
      BY <1>0, <1>1 DEF Consume, ReadLine, TypeOK
    <2> QED  BY <2>1, CommandsSame DEF CommandInv
  <1>2. CommandsOf(c)'
    <2>0. partial[c] \in Seq(Piece) /\ inSocket[c] \in Seq(Piece)
      BY Sequences
    <2>1. /\ partial'[c] = <<>>
          /\ inSocket'[c] = SubSeq(inSocket[c], end + 1, Len(inSocket[c]))
          /\ acked'[c] = acked[c] \cup {n \in DOMAIN sent[c] : Whole(c, n, line(end))}
          /\ sent' = sent /\ begun' = begun /\ lost' = lost
      BY <1>0 DEF Consume, ReadLine, TypeOK
    <2>2. /\ end \in 1..Unread(c) /\ end \in Nat /\ inSocket[c][end].part = "tail"
          /\ \A j \in 1..Unread(c) : inSocket[c][j].part = "tail" => end <= j
      BY <1>0, <2>0 DEF IsLine, Newlines, Unread
    <2>3. CommandsOf(c) /\ PiecesInPlace(c) /\ TakenAreSettled(c)
      BY DEF CommandInv, CommandsOf
    <2>4. /\ Held(c)' = 0 /\ Unread(c)' = Unread(c) - end
          /\ \A i \in 1..(Unread(c) - end) : inSocket'[c][i] = inSocket[c][end + i]
      <3>1. \A i \in (end + 1)..Unread(c) : inSocket[c][i] \in Piece
        BY <2>2, Sequences, Counts
      <3>2. end + 1 \in Int /\ Unread(c) \in Int
        BY <2>2, Counts
      <3>3. inSocket'[c] = SubSeq(inSocket[c], end + 1, Unread(c))
        BY <2>1 DEF Unread
      <3>4. /\ Unread(c)' = IF end + 1 <= Unread(c) THEN Unread(c) - (end + 1) + 1 ELSE 0
            /\ \A i \in 1..(Unread(c) - (end + 1) + 1) : inSocket'[c][i] = inSocket[c][end + 1 + i - 1]
        <4>1. /\ Len(SubSeq(inSocket[c], end + 1, Unread(c))) =
                     IF end + 1 <= Unread(c) THEN Unread(c) - (end + 1) + 1 ELSE 0
              /\ \A i \in 1..(Unread(c) - (end + 1) + 1) :
                     SubSeq(inSocket[c], end + 1, Unread(c))[i] = inSocket[c][end + 1 + i - 1]
          BY <3>1, <3>2, SubSeqProperties
        <4>2. Unread(c)' = Len(inSocket'[c])
          BY DEF Unread
        <4> QED  BY <3>3, <4>1, <4>2
      <3>5. Held(c)' = 0
        BY <2>1 DEF Held
      <3>6. Unread(c)' = Unread(c) - end
        BY <2>2, <3>4, Counts
      <3>7. ASSUME NEW i \in 1..(Unread(c) - end)
            PROVE  inSocket'[c][i] = inSocket[c][end + i]
        <4>1. i \in 1..(Unread(c) - (end + 1) + 1) /\ end + 1 + i - 1 = end + i
          BY <2>2, Counts
        <4> QED  BY <3>4, <4>1
      <3> QED  BY <3>5, <3>6, <3>7
    <2>5. Commands(c)' = Commands(c) /\ Sent(c)' = Sent(c)
      BY <2>1 DEF Commands, Sent
    <2>6. Taken(c)' = Taken(c) + Held(c) + end
      BY <2>2, <2>4, <2>5, Counts DEF Taken
    <2>7. PiecesInPlace(c)'
      <3>1. ASSUME NEW i \in 1..(Unread(c) - end)
            PROVE  PieceAt(inSocket'[c][i], Taken(c) + Held(c) + end + 0 + i)
        <4>1. end + i \in 1..Unread(c)
              /\ Taken(c) + Held(c) + (end + i) = Taken(c) + Held(c) + end + 0 + i
          BY <2>2, Counts
        <4>2. PieceAt(inSocket[c][end + i], Taken(c) + Held(c) + (end + i))
          BY <2>3, <4>1 DEF PiecesInPlace
        <4> QED  BY <2>4, <4>1, <4>2
      <3>2. \A i \in 1..0 : FALSE
        OBVIOUS
      <3> QED  BY <2>4, <2>6, <3>1, <3>2 DEF PiecesInPlace
    <2>8. ASSUME NEW n \in 1..Commands(c), 2 * n - 1 <= Taken(c) + Held(c) + end
          PROVE  sent[c][n] = "garbage" \/ n \in acked'[c] \cup lost[c]
      <3>0. n \in Nat
        BY Counts
      <3>1. CASE 2 * n - 1 <= Taken(c)
        BY <2>1, <2>3, <3>1 DEF TakenAreSettled
      <3>2. CASE 2 * n - 1 > Taken(c) /\ sent[c][n] # "garbage"
        <4> DEFINE l == line(end)
        <4>1. /\ l \in Seq(Piece) /\ Len(l) = Held(c) + end
              /\ \A i \in 1..(Held(c) + end) :
                    l[i] = IF i <= Held(c) THEN partial[c][i] ELSE inSocket[c][i - Held(c)]
          <5>1. \A i \in 1..end : inSocket[c][i] \in Piece
            BY <2>2, Sequences, Counts
          <5>2. /\ SubSeq(inSocket[c], 1, end) \in Seq(Piece)
                /\ Len(SubSeq(inSocket[c], 1, end)) = IF 1 <= end THEN end - 1 + 1 ELSE 0
                /\ \A i \in 1..(end - 1 + 1) : SubSeq(inSocket[c], 1, end)[i] = inSocket[c][1 + i - 1]
            BY <2>2, <5>1, SubSeqProperties
          <5>3. /\ Len(SubSeq(inSocket[c], 1, end)) = end
                /\ \A i \in 1..end : SubSeq(inSocket[c], 1, end)[i] = inSocket[c][i]
            BY <2>2, <5>2
          <5>4. /\ l \in Seq(Piece) /\ Len(l) = Held(c) + end
                /\ \A i \in 1..(Held(c) + end) :
                     l[i] = IF i <= Held(c) THEN partial[c][i]
                            ELSE SubSeq(inSocket[c], 1, end)[i - Held(c)]
            BY <2>0, <5>2, <5>3, ConcatProperties DEF Held
          <5>5. ASSUME NEW i \in 1..(Held(c) + end)
                PROVE  l[i] = IF i <= Held(c) THEN partial[c][i] ELSE inSocket[c][i - Held(c)]
            <6>1. CASE i <= Held(c)
              BY <5>4, <6>1
            <6>2. CASE ~(i <= Held(c))
              <7>1. i - Held(c) \in 1..end
                BY <2>2, <6>2, Counts
              <7> QED  BY <5>3, <5>4, <6>2, <7>1
            <6> QED  BY <6>1, <6>2
          <5> QED  BY <5>4, <5>5
        <4> HIDE DEF l
        <4>2. \/ Held(c) = 0 /\ end = 1
              \/ Held(c) = 1 /\ end = 1
              \/ Held(c) = 0 /\ end = 2
          BY <2>2, <2>3, LineIsShort
        <4>3. CASE Held(c) = 0 /\ end = 1
          <5>1. inSocket[c][1].command \in Nat /\ Taken(c) + 1 = 2 * inSocket[c][1].command
            BY <2>2, <2>3, <4>3, Sequences, Counts DEF PiecesInPlace, PieceAt
          <5> QED  BY <2>8, <3>0, <3>2, <4>3, <5>1, Counts, Places
        <4>4. CASE Held(c) + end = 2
          <5>1. /\ l[1].part = "head" /\ l[1].command \in Nat /\ Taken(c) + 1 = 2 * l[1].command - 1
            <6>1. CASE Held(c) = 1
              <7>1. l[1] = partial[c][1] /\ 1 \in 1..Held(c)
                BY <4>1, <4>4, <6>1
              <7> QED  BY <2>3, <7>1, Sequences DEF PiecesInPlace, PieceAt
            <6>2. CASE Held(c) = 0 /\ end = 2
              <7>1. l[1] = inSocket[c][1] /\ 1 \in 1..Unread(c)
                BY <2>2, <4>1, <4>4, <6>2, Counts
              <7>2. inSocket[c][1].part # "tail"
                BY <2>2, <6>2, <7>1
              <7>3. PieceAt(inSocket[c][1], Taken(c) + 1)
                <8>1. Taken(c) + Held(c) + 1 = Taken(c) + 1
                  BY <6>2, Counts
                <8> QED  BY <2>3, <7>1, <8>1 DEF PiecesInPlace
              <7> QED  BY <7>1, <7>2, <7>3, Sequences DEF PieceAt
            <6> QED  BY <4>2, <4>4, <6>1, <6>2
          <5>2. /\ l[2].part = "tail" /\ l[2].command \in Nat /\ Taken(c) + 2 = 2 * l[2].command
            <6>1. l[2] = inSocket[c][end]
              BY <2>2, <4>1, <4>2, <4>4
            <6>2. Taken(c) + Held(c) + end = Taken(c) + 2
              BY <2>2, <4>4, Counts
            <6> QED  BY <2>2, <2>3, <6>1, <6>2, Sequences DEF PiecesInPlace, PieceAt
          <5>3. l[2].command = l[1].command
            BY <5>1, <5>2, Counts, Places
          <5>4. 2 * n - 1 <= Taken(c) + 2
            BY <2>2, <2>8, <3>0, <4>4, Counts
          <5>5. n = l[1].command
            BY <3>0, <3>2, <5>1, <5>4, Counts, Places
          <5>6. n \in DOMAIN sent[c] /\ Whole(c, n, l)
            BY <3>2, <4>1, <4>4, <5>1, <5>2, <5>3, <5>5, WholeLine
          <5> QED  BY <2>1, <5>6 DEF l
        <4> QED  BY <4>2, <4>3, <4>4
      <3> QED  BY <3>0, <3>1, <3>2, Counts
    <2>9. TakenAreSettled(c)'
      BY <2>1, <2>5, <2>6, <2>8 DEF TakenAreSettled
    <2> QED  BY <2>7, <2>9 DEF CommandsOf
  <1> QED  BY <1>1, <1>2 DEF CommandInv

\* A connection that ends takes what it had to read with it.
LEMMA CloseKeeps ==
    ASSUME TypeOK, CommandInv, NEW c \in Peer, Close(c)
    PROVE  CommandInv'
  <1>1. ASSUME NEW d \in Peer, d # c PROVE CommandsOf(d)'
    BY <1>1, CommandsSame DEF CommandInv, Close, TypeOK
  <1>2. sent'[c] = <<>> /\ partial'[c] = <<>> /\ inSocket'[c] = <<>>
    BY DEF Close, TypeOK
  <1>3. Commands(c)' = 0 /\ Held(c)' = 0 /\ Unread(c)' = 0
    BY <1>2 DEF Commands, Held, Unread
  <1>4. \A i \in 1..0 : FALSE
    OBVIOUS
  <1>5. CommandsOf(c)'
    BY <1>3, <1>4 DEF CommandsOf, PiecesInPlace, TakenAreSettled
  <1> QED  BY <1>1, <1>5 DEF CommandInv

LEMMA InitCommands == ASSUME Init PROVE CommandInv
  <1> SUFFICES ASSUME NEW c \in Peer PROVE CommandsOf(c)
    BY DEF CommandInv
  <1>1. sent[c] = <<>> /\ partial[c] = <<>> /\ inSocket[c] = <<>>
    BY DEF Init
  <1>2. Commands(c) = 0 /\ Held(c) = 0 /\ Unread(c) = 0
    BY <1>1 DEF Commands, Held, Unread
  <1>3. \A i \in 1..0 : FALSE
    OBVIOUS
  <1> QED  BY <1>2, <1>3 DEF CommandsOf, PiecesInPlace, TakenAreSettled

LEMMA NextCommands == ASSUME TypeOK, CommandInv, [Next]_vars PROVE CommandInv'
  <1>1. ASSUME UNCHANGED <<sent, begun, partial, inSocket, acked, lost>>
        PROVE  CommandInv'
    BY <1>1, CommandsSame DEF CommandInv
  <1>2. CASE Change \/ QuietChange \/ KeepaliveTick \/ UNCHANGED vars
    BY <1>1, <1>2 DEF Change, QuietChange, change, KeepaliveTick, vars, reading, commands
  <1>3. ASSUME NEW c \in Peer, GetHeartbeat(c) \/ WriteSnapshot(c) \/ Connect(c)
        PROVE  CommandInv'
    BY <1>1, <1>3 DEF GetHeartbeat, WriteSnapshot, Connect, reading, commands
  <1>4. ASSUME NEW c \in Peer, Lagged(c) \/ TakeHeartbeat(c) \/ CancelTick(c)
        PROVE  CommandInv'
    <2>1. DropRead(c) /\ UNCHANGED <<sent, begun, inSocket, acked>>
      BY <1>4 DEF Lagged, TakeHeartbeat, CancelTick, commands
    <2> QED  BY <2>1, DropKeepsCommands
  <1> QED
    BY <1>2, <1>3, <1>4, PollReadKeeps, ReadLineKeeps, CloseKeeps, SendCommandKeeps, SendRestKeeps
       DEF Next, Serve, Use

\* A command is lost only if it is garbage or a future of read_line that held a piece of
\* it was dropped, for any number of commands, however their bytes arrive.
THEOREM CommandsKept == Spec => []OnlyInterruptedCommandsAreLost
  <1>1. Init => CommandInv  BY InitCommands
  <1>2. TypeOK /\ CommandInv /\ [Next]_vars => CommandInv'  BY NextCommands
  <1>3. ASSUME TypeOK, CommandInv PROVE OnlyInterruptedCommandsAreLost
    <2> SUFFICES ASSUME NEW c \in Peer, AllRead(c), NEW n \in DOMAIN sent[c]
                 PROVE  sent[c][n] = "garbage" \/ n \in acked[c] \cup lost[c]
      BY DEF OnlyInterruptedCommandsAreLost
    <2>1. partial[c] \in Seq(Piece) /\ inSocket[c] \in Seq(Piece) /\ sent[c] \in Seq(Kind)
      BY <1>3, Sequences
    <2>2. partial[c] = <<>> /\ inSocket[c] = <<>>
      BY <2>1, ConcatSimplifications DEF AllRead, Pending
    <2>3. Held(c) = 0 /\ Unread(c) = 0 /\ n \in 1..Commands(c)
      BY <2>1, <2>2 DEF Held, Unread, Commands
    <2>4. Sent(c) = 2 * Commands(c)
      BY DEF AllRead, Sent
    <2>5. 2 * n - 1 <= Taken(c)
      BY <1>3, <2>3, <2>4, Counts DEF Taken
    <2> QED  BY <1>3, <2>3, <2>5 DEF CommandInv, CommandsOf, TakenAreSettled
  <1> QED  BY <1>1, <1>2, <1>3, TypeCorrect, PTL DEF Spec
=============================================================================
