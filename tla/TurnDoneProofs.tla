--------------------------- MODULE TurnDoneProofs ---------------------------
(***************************************************************************)
(* Theorems about the turn-done gate, for any sessions and bounds.         *)
(*                                                                         *)
(* That a notice means idleness is a fact about the moment it is sent; it  *)
(* follows from what relates a running timer to its session (Serials):     *)
(* unless the session has ended, its serial is not below the captured one, *)
(* and above it after any activity.                                        *)
(***************************************************************************)
EXTENDS TurnDone, TLAPS

\* A session the aggregator does not know looks like one with serial 0.
AbsentIsZero == \A s \in Session : ~sessions[s].open => sessions[s].serial = 0

Serials ==
    \A g \in gates : "end" \notin since[g.stop] =>
        /\ sessions[g.session].serial >= g.serial
        /\ "activity" \in since[g.stop] =>
              sessions[g.session].open /\ sessions[g.session].serial > g.serial

\* Each Stop has one timer, which is gone once its notice is out.
OneTimerEach ==
    /\ \A g \in gates : g.stop <= stops
    /\ \A g, f \in gates : g.stop = f.stop => g = f
    /\ \A n \in notices : n.stop <= stops
    /\ \A n \in notices, g \in gates : n.stop # g.stop

UnusedStops == \A n \in 1..MaxStops : n > stops => since[n] = {}

GateInv == AbsentIsZero /\ Serials /\ OneTimerEach /\ UnusedStops /\ NoticeMeansIdle

-----------------------------------------------------------------------------
LEMMA BumpType ==
    ASSUME NEW r \in SessionRecord
    PROVE  /\ bump_activity(r) \in SessionRecord
           /\ bump_activity(r).serial = r.serial + 1
           /\ bump_activity(r).open = r.open
           /\ OrNew(r) \in SessionRecord
           /\ OrNew(r).open
           /\ r.open => OrNew(r) = r
           /\ ~r.open => OrNew(r).serial = 0
  BY DEF SessionRecord, bump_activity, OrNew, NewSession

\* What a hook event adds to the history, and that it keeps its type.
LEMMA WitnessedValue ==
    ASSUME TypeOK, NEW s \in Session, NEW h \in Happening, NEW n \in 1..MaxStops
    PROVE  /\ Witnessed(s, h) \in [1..MaxStops -> SUBSET Happening]
           /\ (\E g \in gates : g.stop = n /\ g.session = s) =>
                 Witnessed(s, h)[n] = since[n] \cup {h}
           /\ ~(\E g \in gates : g.stop = n /\ g.session = s) => Witnessed(s, h)[n] = since[n]
  BY DEF TypeOK, Witnessed

LEMMA WitnessedType ==
    ASSUME TypeOK, NEW s \in Session, NEW h \in Happening
    PROVE  Witnessed(s, h) \in [1..MaxStops -> SUBSET Happening]
  BY DEF TypeOK, Witnessed

LEMMA HookEventType ==
    ASSUME TypeOK, NEW s \in Session, NEW h \in Happening, HookEvent(s, h)
    PROVE  /\ gates' \subseteq [stop : 1..MaxStops, session : Session, serial : Nat]
           /\ notices' \subseteq [stop : 1..MaxStops, tokens : Nat, due : Nat]
           /\ stops' \in 0..MaxStops /\ eventsLeft' \in Nat /\ linesLeft' \in Nat
           /\ since' \in [1..MaxStops -> SUBSET Happening]
  <1>1. since' \in [1..MaxStops -> SUBSET Happening]
    BY WitnessedType DEF HookEvent
  <1> QED  BY <1>1 DEF TypeOK, HookEvent

-----------------------------------------------------------------------------
LEMMA InitType == ASSUME BoundsAssumption, Init PROVE TypeOK
  BY DEF BoundsAssumption, Init, TypeOK, Absent, SessionRecord, Happening

LEMMA CheckType ==
    ASSUME TypeOK, NEW g \in gates, handle_check_turn_done(g)
    PROVE  TypeOK'
  <1> DEFINE r == sessions[g.session]
  <1>1. g.stop \in 1..MaxStops /\ g.session \in Session
    BY DEF TypeOK
  <1>2. r \in SessionRecord /\ due[g.session] \in Nat
    BY <1>1 DEF TypeOK
  <1>3. Notice(g, r.tokens) \in [stop : 1..MaxStops, tokens : Nat, due : Nat]
    BY <1>1, <1>2 DEF Notice, SessionRecord
  <1>4. notices' \subseteq [stop : 1..MaxStops, tokens : Nat, due : Nat]
    BY <1>3 DEF TypeOK, handle_check_turn_done
  <1> QED  BY <1>4 DEF TypeOK, handle_check_turn_done, bounds, history

LEMMA NextType == ASSUME TypeOK, [Next]_vars PROVE TypeOK'
  <1> USE DEF Happening
  <1>1. CASE UNCHANGED vars
    BY <1>1 DEF TypeOK, vars, bounds, history
  <1>2. CASE Check
    BY <1>2, CheckType DEF Check
  <1>3. ASSUME NEW s \in Session, SessionStartOrPreToolUse(s) PROVE TypeOK'
    <2>1. HookEvent(s, "activity")  BY <1>3 DEF SessionStartOrPreToolUse
    <2>2. bump_activity(OrNew(sessions[s])) \in SessionRecord  BY BumpType DEF TypeOK
    <2> QED  BY <1>3, <2>1, <2>2, HookEventType DEF TypeOK, SessionStartOrPreToolUse
  <1>4. ASSUME NEW s \in Session, PostToolUse(s) PROVE TypeOK'
    <2>1. PICK h \in Happening : HookEvent(s, h)  BY <1>4 DEF PostToolUse
    <2>2. bump_activity(sessions[s]) \in SessionRecord /\ sessions[s] \in SessionRecord
      BY BumpType DEF TypeOK
    <2>3. sessions' \in [Session -> SessionRecord]
      BY <1>4, <2>2 DEF TypeOK, PostToolUse
    <2> QED  BY <1>4, <2>1, <2>3, HookEventType DEF TypeOK, PostToolUse
  <1>5. ASSUME NEW s \in Session, UserPromptSubmit(s) PROVE TypeOK'
    <2>1. HookEvent(s, "activity")  BY <1>5 DEF UserPromptSubmit
    <2>2. bump_activity(OrNew(sessions[s])) \in SessionRecord  BY BumpType DEF TypeOK
    <2>3. [bump_activity(OrNew(sessions[s])) EXCEPT !.tokens = 0] \in SessionRecord
      BY <2>2 DEF SessionRecord
    <2> QED  BY <1>5, <2>1, <2>3, HookEventType DEF TypeOK, UserPromptSubmit
  <1>6. ASSUME NEW s \in Session, SessionEnd(s) PROVE TypeOK'
    <2>1. HookEvent(s, "end")  BY <1>6 DEF SessionEnd
    <2>2. Absent \in SessionRecord  BY DEF Absent, SessionRecord
    <2> QED  BY <1>6, <2>1, <2>2, HookEventType DEF TypeOK, SessionEnd
  <1>7. ASSUME NEW s \in Session, TranscriptGrows(s) PROVE TypeOK'
    BY <1>7 DEF TypeOK, TranscriptGrows
  <1>8. ASSUME NEW s \in Session, TokensUpdate(s) PROVE TypeOK'
    <2>1. unread[s] \in Nat /\ sessions[s] \in SessionRecord
      BY DEF TypeOK
    <2>2. unread' \in [Session -> Nat]
      BY <1>8, <2>1 DEF TypeOK, TokensUpdate
    <2>3. count_token(sessions[s]) \in SessionRecord
      BY <2>1 DEF SessionRecord, count_token
    <2>4. sessions' \in [Session -> SessionRecord]
      BY <1>8, <2>1, <2>3 DEF TypeOK, TokensUpdate
    <2> QED  BY <1>8, <2>2, <2>4 DEF TypeOK, TokensUpdate, bounds, history
  <1>9. ASSUME NEW s \in Session, spawn_turn_done_gate(s) PROVE TypeOK'
    <2>1. sessions[s].serial \in Nat /\ stops + 1 \in 1..MaxStops
      BY <1>9, BoundsAssumption DEF TypeOK, SessionRecord, spawn_turn_done_gate, BoundsAssumption
    <2> QED  BY <1>9, <2>1 DEF TypeOK, spawn_turn_done_gate, history
  <1> QED  BY <1>1, <1>2, <1>3, <1>4, <1>5, <1>6, <1>7, <1>8, <1>9 DEF Next

\* Every variable of the gate keeps its type.
THEOREM TypeCorrect == Spec => []TypeOK
  <1>1. Init => TypeOK  BY InitType, BoundsAssumption
  <1>2. TypeOK /\ [Next]_vars => TypeOK'  BY NextType
  <1> QED  BY <1>1, <1>2, PTL DEF Spec

-----------------------------------------------------------------------------
\* A hook event that is witnessed as activity raises the serial of its session, one
\* that ends the session says so, and any other leaves open and serial alone.
LEMMA HookEventKeepsGates ==
    ASSUME TypeOK, GateInv, NEW s \in Session, NEW h \in Happening, HookEvent(s, h),
           NEW r \in SessionRecord, sessions' = [sessions EXCEPT ![s] = r],
           h = "activity" => r.open /\ r.serial = sessions[s].serial + 1,
           h = "unknown" => r.open = sessions[s].open /\ r.serial = sessions[s].serial,
           ~r.open => r.serial = 0
    PROVE  GateInv'
  <1> USE DEF Happening
  <1>u. gates' = gates /\ notices' = notices /\ stops' = stops /\ since' = Witnessed(s, h)
    BY DEF HookEvent
  <1>t. sessions[s] \in SessionRecord
    BY DEF TypeOK
  <1>1. AbsentIsZero'
    BY DEF GateInv, AbsentIsZero, TypeOK
  <1>2. Serials'
    <2> SUFFICES ASSUME NEW g \in gates, "end" \notin since'[g.stop]
                 PROVE  /\ sessions'[g.session].serial >= g.serial
                        /\ "activity" \in since'[g.stop] =>
                              /\ sessions'[g.session].open
                              /\ sessions'[g.session].serial > g.serial
      BY <1>u DEF Serials
    <2>0. g.stop \in 1..MaxStops /\ g.session \in Session /\ g.serial \in Nat
      BY DEF TypeOK
    <2>1. CASE g.session = s
      <3>1. since'[g.stop] = since[g.stop] \cup {h}
        BY <1>u, <2>0, <2>1, WitnessedValue
      <3>2. h # "end" /\ "end" \notin since[g.stop]
        BY <3>1
      <3>3. sessions[s].serial >= g.serial
            /\ ("activity" \in since[g.stop] => sessions[s].open /\ sessions[s].serial > g.serial)
        BY <2>1, <3>2 DEF GateInv, Serials
      <3>4. sessions'[s] = r
        BY DEF TypeOK
      <3>5. sessions[s].serial \in Nat /\ r.serial \in Nat
        BY <1>t DEF SessionRecord
      <3>6. CASE h = "activity"
        BY <2>0, <2>1, <3>3, <3>4, <3>5, <3>6
      <3>7. CASE h = "unknown"
        BY <2>0, <2>1, <3>1, <3>3, <3>4, <3>5, <3>7
      <3> QED  BY <3>2, <3>6, <3>7
    <2>2. CASE g.session # s
      <3>1. ~\E f \in gates : f.stop = g.stop /\ f.session = s
        BY <2>2 DEF GateInv, OneTimerEach
      <3>2. since'[g.stop] = since[g.stop]
        BY <1>u, <2>0, <3>1, WitnessedValue
      <3>3. sessions'[g.session] = sessions[g.session]
        BY <2>0, <2>2 DEF TypeOK
      <3> QED  BY <3>2, <3>3 DEF GateInv, Serials
    <2> QED  BY <2>1, <2>2
  <1>3. OneTimerEach'
    BY <1>u DEF GateInv, OneTimerEach
  <1>4. UnusedStops'
    <2> SUFFICES ASSUME NEW n \in 1..MaxStops, n > stops PROVE since'[n] = {}
      BY <1>u DEF UnusedStops
    <2>1. ~\E g \in gates : g.stop = n /\ g.session = s
      BY DEF GateInv, OneTimerEach, TypeOK
    <2> QED  BY <1>u, <2>1, WitnessedValue DEF GateInv, UnusedStops
  <1>5. NoticeMeansIdle'
    <2> SUFFICES ASSUME NEW n \in notices PROVE since'[n.stop] = since[n.stop]
      BY <1>u DEF GateInv, NoticeMeansIdle
    <2>1. n.stop \in 1..MaxStops
      BY DEF TypeOK
    <2>2. ~\E g \in gates : g.stop = n.stop /\ g.session = s
      BY DEF GateInv, OneTimerEach
    <2> QED  BY <1>u, <2>1, <2>2, WitnessedValue
  <1> QED  BY <1>1, <1>2, <1>3, <1>4, <1>5 DEF GateInv

LEMMA InitGates == ASSUME Init PROVE GateInv
  BY DEF Init, GateInv, AbsentIsZero, Serials, OneTimerEach, UnusedStops, NoticeMeansIdle, Absent

LEMMA StopKeepsGates ==
    ASSUME TypeOK, GateInv, NEW s \in Session, spawn_turn_done_gate(s)
    PROVE  GateInv'
  <1> DEFINE new == [stop |-> stops + 1, session |-> s, serial |-> sessions[s].serial]
  <1>0. /\ gates' = gates \cup {new} /\ stops' = stops + 1 /\ stops \in Nat
        /\ stops + 1 \in 1..MaxStops
        /\ sessions' = sessions /\ notices' = notices /\ since' = since
    BY BoundsAssumption DEF spawn_turn_done_gate, history, TypeOK, BoundsAssumption
  <1>1. AbsentIsZero' /\ NoticeMeansIdle'
    BY <1>0 DEF GateInv, AbsentIsZero, NoticeMeansIdle
  <1>2. Serials'
    <2>1. since[new.stop] = {}
      BY <1>0 DEF GateInv, UnusedStops
    <2>2. sessions[new.session].serial >= new.serial
      BY DEF TypeOK, SessionRecord
    <2> QED  BY <1>0, <2>1, <2>2 DEF GateInv, Serials
  <1>3. OneTimerEach'
    <2>1. \A g \in gates : g.stop \in Nat /\ g.stop < new.stop
      BY <1>0 DEF GateInv, OneTimerEach, TypeOK
    <2>2. \A n \in notices : n.stop \in Nat /\ n.stop < new.stop
      BY <1>0 DEF GateInv, OneTimerEach, TypeOK
    <2> QED  BY <1>0, <2>1, <2>2 DEF GateInv, OneTimerEach
  <1>4. UnusedStops'
    BY <1>0 DEF GateInv, UnusedStops
  <1> QED  BY <1>1, <1>2, <1>3, <1>4 DEF GateInv

LEMMA CheckKeepsGates ==
    ASSUME TypeOK, GateInv, NEW g \in gates, handle_check_turn_done(g)
    PROVE  GateInv'
  <1> DEFINE r == sessions[g.session]
             note == Notice(g, r.tokens)
  <1>0. /\ gates' = gates \ {g} /\ stops' = stops
        /\ sessions' = sessions /\ since' = since
    BY DEF handle_check_turn_done, bounds, history
  <1>1. notices' = notices \/ (notices' = notices \cup {note} /\ (~r.open \/ r.serial = g.serial))
    BY DEF handle_check_turn_done
  <1>2. note.stop = g.stop
    BY DEF Notice
  <1>3. AbsentIsZero' /\ Serials' /\ UnusedStops'
    BY <1>0 DEF GateInv, AbsentIsZero, Serials, UnusedStops
  <1>4. OneTimerEach'
    BY <1>0, <1>1, <1>2 DEF GateInv, OneTimerEach
  <1>5. ~r.open \/ r.serial = g.serial => ("activity" \in since[g.stop] => "end" \in since[g.stop])
    <2>1. r.serial \in Nat /\ g.serial \in Nat
      BY DEF TypeOK, SessionRecord
    <2> QED  BY <2>1 DEF GateInv, Serials
  <1>6. NoticeMeansIdle'
    BY <1>0, <1>1, <1>2, <1>5 DEF GateInv, NoticeMeansIdle
  <1> QED  BY <1>3, <1>4, <1>6 DEF GateInv

LEMMA NextGates == ASSUME TypeOK, GateInv, [Next]_vars PROVE GateInv'
  <1> USE DEF Happening
  <1>a. \A s \in Session : sessions[s] \in SessionRecord
    BY DEF TypeOK
  <1>1. CASE UNCHANGED vars
    BY <1>1 DEF GateInv, AbsentIsZero, Serials, OneTimerEach, UnusedStops, NoticeMeansIdle,
                vars, bounds, history
  <1>2. CASE Check
    BY <1>2, CheckKeepsGates DEF Check
  <1>3. ASSUME NEW s \in Session, SessionStartOrPreToolUse(s) PROVE GateInv'
    <2> DEFINE r == bump_activity(OrNew(sessions[s]))
    <2>1. HookEvent(s, "activity") /\ sessions' = [sessions EXCEPT ![s] = r]
      BY <1>3 DEF SessionStartOrPreToolUse
    <2>2. OrNew(sessions[s]) \in SessionRecord /\ OrNew(sessions[s]).open
          /\ OrNew(sessions[s]).serial = sessions[s].serial
      BY <1>a, BumpType DEF GateInv, AbsentIsZero
    <2>3. r \in SessionRecord /\ r.open /\ r.serial = sessions[s].serial + 1
      BY <2>2, BumpType
    <2> QED  BY <2>1, <2>3, HookEventKeepsGates
  <1>4. ASSUME NEW s \in Session, PostToolUse(s) PROVE GateInv'
    <2>1. CASE sessions[s].open
      <3>1. HookEvent(s, "activity")
            /\ sessions' = [sessions EXCEPT ![s] = bump_activity(sessions[s])]
        BY <1>4, <2>1 DEF PostToolUse
      <3> QED  BY <1>a, <2>1, <3>1, BumpType, HookEventKeepsGates
    <2>2. CASE ~sessions[s].open
      <3>1. HookEvent(s, "unknown") /\ sessions' = [sessions EXCEPT ![s] = sessions[s]]
        BY <1>4, <2>2 DEF PostToolUse
      <3>2. sessions[s].serial = 0
        BY <2>2 DEF GateInv, AbsentIsZero
      <3> QED  BY <1>a, <2>2, <3>1, <3>2, HookEventKeepsGates
    <2> QED  BY <2>1, <2>2
  <1>5. ASSUME NEW s \in Session, UserPromptSubmit(s) PROVE GateInv'
    <2> DEFINE b == bump_activity(OrNew(sessions[s]))
               r == [b EXCEPT !.tokens = 0]
    <2>1. HookEvent(s, "activity") /\ sessions' = [sessions EXCEPT ![s] = r]
      BY <1>5 DEF UserPromptSubmit
    <2>2. OrNew(sessions[s]) \in SessionRecord /\ OrNew(sessions[s]).open
          /\ OrNew(sessions[s]).serial = sessions[s].serial
      BY <1>a, BumpType DEF GateInv, AbsentIsZero
    <2>3. b \in SessionRecord /\ b.open /\ b.serial = sessions[s].serial + 1
      BY <2>2, BumpType
    <2>4. r \in SessionRecord /\ r.open /\ r.serial = sessions[s].serial + 1
      BY <2>3 DEF SessionRecord
    <2> QED  BY <2>1, <2>4, HookEventKeepsGates
  <1>6. ASSUME NEW s \in Session, SessionEnd(s) PROVE GateInv'
    <2>1. HookEvent(s, "end") /\ sessions' = [sessions EXCEPT ![s] = Absent]
      BY <1>6 DEF SessionEnd
    <2>2. Absent \in SessionRecord /\ ~Absent.open /\ Absent.serial = 0
      BY DEF Absent, SessionRecord
    <2> QED  BY <2>1, <2>2, HookEventKeepsGates
  <1>7. ASSUME NEW s \in Session, TranscriptGrows(s) PROVE GateInv'
    BY <1>7 DEF TranscriptGrows, GateInv, AbsentIsZero, Serials, OneTimerEach,
                UnusedStops, NoticeMeansIdle
  <1>8. ASSUME NEW s \in Session, TokensUpdate(s) PROVE GateInv'
    <2>1. \A t \in Session : /\ sessions'[t].open = sessions[t].open
                             /\ sessions'[t].serial = sessions[t].serial
      BY <1>8, <1>a DEF TokensUpdate, count_token, TypeOK, SessionRecord
    <2>2. \A g \in gates : g.session \in Session
      BY DEF TypeOK
    <2>3. gates' = gates /\ notices' = notices /\ stops' = stops /\ since' = since
      BY <1>8 DEF TokensUpdate, bounds, history
    <2>4. AbsentIsZero' /\ Serials'
      BY <2>1, <2>2, <2>3 DEF GateInv, AbsentIsZero, Serials
    <2> QED  BY <2>3, <2>4 DEF GateInv, OneTimerEach, UnusedStops, NoticeMeansIdle
  <1>9. ASSUME NEW s \in Session, spawn_turn_done_gate(s) PROVE GateInv'
    BY <1>9, StopKeepsGates
  <1> QED  BY <1>1, <1>2, <1>3, <1>4, <1>5, <1>6, <1>7, <1>8, <1>9 DEF Next

\* A turn-done notice means that its session, unless it ended, was idle since the Stop.
THEOREM NoticesMeanIdle == Spec => []NoticeMeansIdle
  <1>1. Init => GateInv  BY InitGates
  <1>2. TypeOK /\ GateInv /\ [Next]_vars => GateInv'  BY NextGates
  <1>3. GateInv => NoticeMeansIdle  BY DEF GateInv
  <1> QED  BY <1>1, <1>2, <1>3, TypeCorrect, PTL DEF Spec
-----------------------------------------------------------------------------
(* The tokens of a notice.                                                 *)

\* What is counted for the turn and what is still to be counted are lines of the turn,
\* or were unread when it began.
CountInv ==
    /\ \A s \in Session : sessions[s].tokens + unread[s] <= due[s]
    /\ NoticeCountsItsLines

\* A hook event either leaves the tokens, or sets them to zero; a prompt counts anew.
LEMMA EventKeepsCount ==
    ASSUME TypeOK, CountInv, NEW s \in Session, NEW h, HookEvent(s, h), NEW r \in SessionRecord,
           sessions' = [sessions EXCEPT ![s] = r], unread' = unread,
           \/ due' = due /\ r.tokens <= sessions[s].tokens
           \/ due' = [due EXCEPT ![s] = unread[s]] /\ r.tokens = 0
    PROVE  CountInv'
  <1>1. ASSUME NEW t \in Session PROVE sessions'[t].tokens + unread'[t] <= due'[t]
    <2>1. /\ sessions[t].tokens \in Nat /\ unread[t] \in Nat /\ due[t] \in Nat /\ r.tokens \in Nat
          /\ sessions[t].tokens + unread[t] <= due[t]
      BY DEF TypeOK, SessionRecord, CountInv
    <2>2. CASE t # s  BY <2>1, <2>2 DEF TypeOK
    <2>3. CASE t = s  BY <2>1, <2>3 DEF TypeOK
    <2> QED  BY <2>2, <2>3
  <1> QED  BY <1>1 DEF HookEvent, CountInv, NoticeCountsItsLines

LEMMA NextCount == ASSUME TypeOK, CountInv, [Next]_vars PROVE CountInv'
  <1>a. \A s \in Session :
            /\ sessions[s] \in SessionRecord /\ sessions[s].tokens \in Nat
            /\ unread[s] \in Nat /\ due[s] \in Nat
    BY DEF TypeOK, SessionRecord
  <1>b. \A r \in SessionRecord :
            /\ bump_activity(r) \in SessionRecord /\ bump_activity(r).tokens = r.tokens
            /\ OrNew(r) \in SessionRecord /\ OrNew(r).tokens <= r.tokens
    BY DEF SessionRecord, bump_activity, OrNew, NewSession
  <1>1. CASE UNCHANGED vars
    BY <1>1 DEF CountInv, NoticeCountsItsLines, vars, bounds, history
  <1>2. ASSUME NEW g \in gates, handle_check_turn_done(g) PROVE CountInv'
    <2>1. g.session \in Session  BY DEF TypeOK
    <2>2. sessions[g.session].tokens <= due[g.session]
      BY <1>a, <2>1 DEF CountInv
    <2>3. \A n \in notices' : n \in notices \/ n = Notice(g, sessions[g.session].tokens)
      BY <1>2 DEF handle_check_turn_done
    <2>4. NoticeCountsItsLines'
      BY <2>2, <2>3 DEF CountInv, NoticeCountsItsLines, Notice
    <2> QED  BY <1>2, <2>4 DEF handle_check_turn_done, history, CountInv
  <1>3. ASSUME NEW s \in Session, SessionStartOrPreToolUse(s) PROVE CountInv'
    <2> DEFINE r == bump_activity(OrNew(sessions[s]))
    <2>1. r \in SessionRecord /\ r.tokens <= sessions[s].tokens  BY <1>a, <1>b
    <2> QED  BY <1>3, <2>1, EventKeepsCount DEF SessionStartOrPreToolUse
  <1>4. ASSUME NEW s \in Session, PostToolUse(s) PROVE CountInv'
    <2> DEFINE r == IF sessions[s].open THEN bump_activity(sessions[s]) ELSE sessions[s]
    <2>1. r \in SessionRecord /\ r.tokens <= sessions[s].tokens  BY <1>a, <1>b
    <2>2. PICK h : HookEvent(s, h)  BY <1>4 DEF PostToolUse
    <2> QED  BY <1>4, <2>1, <2>2, EventKeepsCount DEF PostToolUse
  <1>5. ASSUME NEW s \in Session, UserPromptSubmit(s) PROVE CountInv'
    <2> DEFINE r == [bump_activity(OrNew(sessions[s])) EXCEPT !.tokens = 0]
    <2>1. r \in SessionRecord /\ r.tokens = 0  BY <1>a, <1>b DEF SessionRecord
    <2> QED  BY <1>5, <2>1, EventKeepsCount DEF UserPromptSubmit
  <1>6. ASSUME NEW s \in Session, SessionEnd(s) PROVE CountInv'
    <2>1. Absent \in SessionRecord /\ Absent.tokens <= sessions[s].tokens
      BY <1>a DEF Absent, SessionRecord
    <2> QED  BY <1>6, <2>1, EventKeepsCount DEF SessionEnd
  <1>7. ASSUME NEW s \in Session, TranscriptGrows(s) PROVE CountInv'
    BY <1>7, <1>a DEF TranscriptGrows, CountInv, NoticeCountsItsLines, TypeOK
  <1>8. ASSUME NEW s \in Session, TokensUpdate(s) PROVE CountInv'
    <2>1. \A t \in Session : sessions'[t].tokens + unread'[t] <= sessions[t].tokens + unread[t]
      <3> SUFFICES ASSUME NEW t \in Session
                   PROVE  sessions'[t].tokens + unread'[t] <= sessions[t].tokens + unread[t]
        OBVIOUS
      <3>1. CASE t # s  BY <1>8, <1>a, <3>1 DEF TokensUpdate, TypeOK
      <3>2. CASE t = s
        <4>1. count_token(sessions[s]).tokens = sessions[s].tokens + 1
          BY <1>a DEF count_token, SessionRecord
        <4>2. unread'[s] = unread[s] - 1
          BY <1>8 DEF TokensUpdate, TypeOK
        <4>3. sessions'[s] = IF sessions[s].open THEN count_token(sessions[s]) ELSE sessions[s]
          BY <1>8 DEF TokensUpdate, TypeOK
        <4> QED  BY <1>a, <3>2, <4>1, <4>2, <4>3
      <3> QED  BY <3>1, <3>2
    <2>2. sessions' \in [Session -> SessionRecord] /\ unread' \in [Session -> Nat]
      <3>1. TypeOK'  BY <1>8, NextType DEF Next
      <3> QED  BY <3>1 DEF TypeOK
    <2>3. \A t \in Session : sessions'[t].tokens \in Nat /\ unread'[t] \in Nat
      BY <2>2 DEF SessionRecord
    <2>4. due' = due /\ notices' = notices  BY <1>8 DEF TokensUpdate, history
    <2>5. \A t \in Session : sessions'[t].tokens + unread'[t] <= due'[t]
      BY <1>a, <2>1, <2>3, <2>4 DEF CountInv
    <2> QED  BY <2>4, <2>5 DEF CountInv, NoticeCountsItsLines
  <1>9. ASSUME NEW s \in Session, spawn_turn_done_gate(s) PROVE CountInv'
    BY <1>9 DEF spawn_turn_done_gate, CountInv, NoticeCountsItsLines, history
  <1> QED  BY <1>1, <1>2, <1>3, <1>4, <1>5, <1>6, <1>7, <1>8, <1>9 DEF Next, Check

\* A turn-done notice counts the lines of its turn and those that were unread when it
\* began, whatever the order in which updates, prompts, ends and Stops are handled.
THEOREM NoticesCountTheirLines == Spec => []NoticeCountsItsLines
  <1>1. Init => CountInv
    BY DEF Init, CountInv, NoticeCountsItsLines, Absent
  <1>2. TypeOK /\ CountInv /\ [Next]_vars => CountInv'  BY NextCount
  <1>3. CountInv => NoticeCountsItsLines  BY DEF CountInv
  <1> QED  BY <1>1, <1>2, <1>3, TypeCorrect, PTL DEF Spec
=============================================================================
