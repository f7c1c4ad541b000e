------------------------ MODULE NotifyEmitterProofs ------------------------
(***************************************************************************)
(* Theorems about the notification emitter, for any sessions, prompts and  *)
(* ids, any capacity and any number of faults and restarts.                *)
(*                                                                         *)
(* SlotsAgree is inductive by itself.  That clicks stay in their session   *)
(* needs ScreenAgrees too: what is on the screen under an id on record     *)
(* belongs to the session of the record.                                   *)
(*                                                                         *)
(* That an answered prompt is not posted again, and that an old heartbeat  *)
(* closes nothing that still waits, rest on PastInv: a prompt is in the    *)
(* heartbeats under way and the prompts behind them without a gap, from    *)
(* the first one on if the emitter has already taken one that shows it     *)
(* (SeenInv), and in none of them if it was answered and its dismissal has *)
(* been forgotten (GoneInv).                                               *)
(***************************************************************************)
EXTENDS NotifyEmitter, FiniteSetTheorems, TLAPS

ScreenAgrees ==
    \A i \in Id : screen[i] # NoNote /\ active[i] # NoNote => screen[i].session = active[i].session

NotifyInv == SlotsAgree /\ ClicksStayInSession /\ ScreenAgrees

\* What Record and Display are given.
Postable(posted, ids, tool, closed) ==
    /\ posted \subseteq Session /\ closed \subseteq Session /\ posted \cap closed = {}
    /\ ids \in [posted -> Id]
    /\ \A s \in posted : ids[s] \in Reply(s) /\ tool[s] \in Tool \cup {Done}
    /\ \A s, r \in posted : ids[s] = ids[r] => s = r

NewNote(s, tool) == [session |-> s, tool |-> tool[s]]

-----------------------------------------------------------------------------
(* The records. *)

LEMMA NullFacts == /\ NoId \notin Id /\ NoNote \notin Note
                   /\ \A s \in Session, t \in Tool \cup {Done} : [session |-> s, tool |-> t] \in Note
                   /\ \A n \in Note : n.session \in Session /\ n.tool \in Tool \cup {Done}
  BY NullsAreFresh DEF NullsAreFresh, Note

\* What Record and Display do, slot by slot.
LEMMA RecordFacts ==
    ASSUME NEW posted, NEW ids, NEW tool, NEW closed, Postable(posted, ids, tool, closed),
           Record(posted, ids, tool, closed)
    PROVE  /\ DOMAIN active' = Id /\ DOMAIN session_notif' = Session
           /\ active' = [i \in Id |-> active'[i]]
           /\ session_notif' = [s \in Session |-> session_notif'[s]]
           /\ \A s \in posted : active'[ids[s]] = NewNote(s, tool) /\ session_notif'[s] = ids[s]
           /\ \A i \in Id : (\A s \in posted : ids[s] # i) =>
                 active'[i] = IF \E s \in posted \cup closed : session_notif[s] = i
                              THEN NoNote ELSE active[i]
           /\ \A s \in closed : session_notif'[s] = NoId
           /\ \A s \in Session \ (posted \cup closed) : session_notif'[s] = session_notif[s]
  <1> DEFINE at(i) == CHOOSE s \in posted : ids[s] = i
  <1>1. \A s \in posted : at(ids[s]) = s
    BY DEF Postable
  <1>2. \A s \in posted : ids[s] \in Id /\ s \in Session
    BY DEF Postable
  <1>3. closed \cap posted = {} /\ closed \subseteq Session
    BY DEF Postable
  <1>4. active' = [i \in Id |->
               IF \E s \in posted : ids[s] = i THEN [session |-> at(i), tool |-> tool[at(i)]]
               ELSE IF i \in {session_notif[s] : s \in posted \cup closed} THEN NoNote ELSE active[i]]
    BY DEF Record
  <1>5. session_notif' = [s \in Session |->
               IF s \in posted THEN ids[s] ELSE IF s \in closed THEN NoId ELSE session_notif[s]]
    BY DEF Record
  <1>6. \A s \in posted : active'[ids[s]] = NewNote(s, tool)
    BY <1>1, <1>2, <1>4 DEF NewNote
  <1>7. \A s \in posted : session_notif'[s] = ids[s]
    BY <1>2, <1>5
  <1>8. \A s \in closed : session_notif'[s] = NoId
    BY <1>3, <1>5
  <1>9. \A s \in Session \ (posted \cup closed) : session_notif'[s] = session_notif[s]
    BY <1>5
  <1>10. \A i \in Id : (\A s \in posted : ids[s] # i) =>
                 active'[i] = IF \E s \in posted \cup closed : session_notif[s] = i
                              THEN NoNote ELSE active[i]
    BY <1>4
  <1> QED  BY <1>4, <1>5, <1>6, <1>7, <1>8, <1>9, <1>10

LEMMA DisplayFacts ==
    ASSUME NEW posted, NEW ids, NEW tool, NEW closed, Postable(posted, ids, tool, closed),
           NEW gone, Display(posted, ids, tool, gone)
    PROVE  /\ screen' = [i \in Id |-> screen'[i]]
           /\ \A s \in posted : screen'[ids[s]] = NewNote(s, tool)
           /\ \A i \in Id : (\A s \in posted : ids[s] # i) => screen'[i] \in {screen[i], NoNote}
           /\ closes' = [i \in Id |-> closes'[i]]
           /\ \A i \in Id : closes'[i] \in {closes[i], closes[i] + 1}
  <1> DEFINE at(i) == CHOOSE s \in posted : ids[s] = i
  <1>1. \A s \in posted : at(ids[s]) = s
    BY DEF Postable
  <1>2. \A s \in posted : ids[s] \in Id
    BY DEF Postable
  <1>3. screen' = [i \in Id |->
               IF \E s \in posted : ids[s] = i THEN [session |-> at(i), tool |-> tool[at(i)]]
               ELSE IF i \in {session_notif[s] : s \in gone} THEN NoNote ELSE screen[i]]
    BY DEF Display
  <1>4. closes' = [i \in Id |-> IF i \in {session_notif[s] : s \in gone} /\ screen[i] # NoNote
                                THEN closes[i] + 1 ELSE closes[i]]
    BY DEF Display
  <1>5. \A s \in posted : screen'[ids[s]] = NewNote(s, tool)
    BY <1>1, <1>2, <1>3 DEF NewNote
  <1> QED  BY <1>3, <1>4, <1>5

\* The types of the records after a post.
LEMMA PostType ==
    ASSUME TypeOK, NEW posted, NEW ids, NEW tool, NEW closed, Postable(posted, ids, tool, closed),
           NEW gone, Record(posted, ids, tool, closed), Display(posted, ids, tool, gone)
    PROVE  /\ active' \in [Id -> MaybeNote] /\ session_notif' \in [Session -> MaybeId]
           /\ screen' \in [Id -> MaybeNote] /\ closes' \in [Id -> Nat]
  <1>1. \A s \in posted : NewNote(s, tool) \in Note /\ ids[s] \in Id
    BY NullFacts DEF Postable, NewNote
  <1>2. \A i \in Id : active'[i] \in MaybeNote
    <2> SUFFICES ASSUME NEW i \in Id PROVE active'[i] \in MaybeNote
      OBVIOUS
    <2>1. CASE \E s \in posted : ids[s] = i
      BY <1>1, <2>1, RecordFacts DEF MaybeNote
    <2>2. CASE \A s \in posted : ids[s] # i
      <3>1. active'[i] \in {active[i], NoNote}
        BY <2>2, RecordFacts
      <3> QED  BY <3>1 DEF MaybeNote, TypeOK
    <2> QED  BY <2>1, <2>2
  <1>3. \A s \in Session : session_notif'[s] \in MaybeId
    BY <1>1, RecordFacts DEF MaybeId, TypeOK
  <1>4. \A i \in Id : screen'[i] \in MaybeNote
    <2> SUFFICES ASSUME NEW i \in Id PROVE screen'[i] \in MaybeNote
      OBVIOUS
    <2>1. CASE \E s \in posted : ids[s] = i
      BY <1>1, <2>1, DisplayFacts DEF MaybeNote
    <2>2. CASE \A s \in posted : ids[s] # i
      <3>1. screen'[i] \in {screen[i], NoNote}
        BY <2>2, DisplayFacts
      <3> QED  BY <3>1 DEF MaybeNote, TypeOK
    <2> QED  BY <2>1, <2>2
  <1>5. \A i \in Id : closes'[i] \in Nat
    <2> SUFFICES ASSUME NEW i \in Id PROVE closes'[i] \in Nat
      OBVIOUS
    <2>1. closes'[i] \in {closes[i], closes[i] + 1}
      BY DisplayFacts
    <2> QED  BY <2>1 DEF TypeOK
  <1> QED  BY <1>2, <1>3, <1>4, <1>5, RecordFacts, DisplayFacts

\* A post keeps the records in agreement with each other, the screen and the clicks.
LEMMA PostKeeps ==
    ASSUME TypeOK, NotifyInv, NEW posted, NEW ids, NEW tool, NEW closed,
           Postable(posted, ids, tool, closed), NEW gone, clicks' = clicks,
           Record(posted, ids, tool, closed), Display(posted, ids, tool, gone)
    PROVE  NotifyInv'
  <1>0. \A s \in posted : ids[s] \in Id /\ s \in Session /\ NewNote(s, tool) \in Note
                          /\ NewNote(s, tool).session = s
    BY NullFacts DEF Postable, NewNote
  <1>n. \A i \in Id : active[i] # NoNote => active[i].session \in Session
    BY NullFacts DEF TypeOK, MaybeNote
  \* An id for session s is its own slot or was on no record.
  <1>r. \A s \in posted : \/ ids[s] = session_notif[s]
                          \/ /\ active[ids[s]] = NoNote
                             /\ ids[s] \notin {c.id : c \in clicks}
    BY DEF Postable, Reply, Fresh
  <1>1. SlotsAgree'
    <2>1. ASSUME NEW i \in Id, active'[i] # NoNote PROVE session_notif'[active'[i].session] = i
      <3>1. CASE \E s \in posted : ids[s] = i
        BY <1>0, <3>1, RecordFacts
      <3>2. CASE \A s \in posted : ids[s] # i
        <4>1. active'[i] = active[i] /\ ~\E s \in posted \cup closed : session_notif[s] = i
          BY <2>1, <3>2, RecordFacts
        <4>2. active[i].session \in Session /\ session_notif[active[i].session] = i
          BY <1>n, <2>1, <4>1 DEF NotifyInv, SlotsAgree
        <4>3. active[i].session \in Session \ (posted \cup closed)
          BY <4>1, <4>2
        <4> QED  BY <4>1, <4>2, <4>3, RecordFacts
      <3> QED  BY <3>1, <3>2
    <2>2. ASSUME NEW s \in Session, session_notif'[s] # NoId
          PROVE  active'[session_notif'[s]] # NoNote /\ active'[session_notif'[s]].session = s
      <3>1. CASE s \in posted
        <4>1. session_notif'[s] = ids[s] /\ active'[ids[s]] = NewNote(s, tool)
          BY <3>1, RecordFacts
        <4> QED  BY <1>0, <3>1, <4>1, NullFacts
      <3>2. CASE s \notin posted
        <4>1. s \notin closed /\ session_notif'[s] = session_notif[s]
          BY <2>2, <3>2, RecordFacts
        <4> DEFINE i == session_notif[s]
        <4>2. i \in Id /\ active[i] # NoNote /\ active[i].session = s
          BY <2>2, <4>1 DEF NotifyInv, SlotsAgree, TypeOK, MaybeId
        <4>3. \A r \in Session : session_notif[r] = i => r = s
          BY <4>2, NullFacts DEF NotifyInv, SlotsAgree
        <4>4. \A r \in posted : ids[r] # i
          BY <1>0, <1>r, <3>2, <4>2, <4>3
        <4>5. ~\E r \in posted \cup closed : session_notif[r] = i
          BY <3>2, <4>1, <4>3 DEF Postable
        <4>6. active'[i] = active[i]
          BY <4>2, <4>4, <4>5, RecordFacts
        <4> QED  BY <4>1, <4>2, <4>6
      <3> QED  BY <3>1, <3>2
    <2> QED  BY <2>1, <2>2 DEF SlotsAgree
  <1>2. ClicksStayInSession'
    <2> SUFFICES ASSUME NEW c \in clicks, active'[c.id] # NoNote
                 PROVE  active'[c.id].session = c.seen.session
      BY DEF ClicksStayInSession
    <2>0. c.id \in Id
      BY DEF TypeOK
    <2>1. CASE \E s \in posted : ids[s] = c.id
      <3>1. PICK s \in posted : ids[s] = c.id
        BY <2>1
      <3>2. c.id = session_notif[s] /\ s \in Session /\ c.id # NoId
        BY <1>0, <1>r, <2>0, <3>1, NullFacts
      <3>3. active[c.id] # NoNote /\ active[c.id].session = s
        BY <3>2 DEF NotifyInv, SlotsAgree
      <3>4. active'[c.id].session = s
        BY <1>0, <3>1, RecordFacts
      <3> QED  BY <3>3, <3>4 DEF NotifyInv, ClicksStayInSession
    <2>2. CASE \A s \in posted : ids[s] # c.id
      <3>1. active'[c.id] = active[c.id]
        BY <2>0, <2>2, RecordFacts
      <3> QED  BY <3>1 DEF NotifyInv, ClicksStayInSession
    <2> QED  BY <2>1, <2>2
  <1>3. ScreenAgrees'
    <2> SUFFICES ASSUME NEW i \in Id, screen'[i] # NoNote, active'[i] # NoNote
                 PROVE  screen'[i].session = active'[i].session
      BY DEF ScreenAgrees
    <2>1. CASE \E s \in posted : ids[s] = i
      BY <2>1, RecordFacts, DisplayFacts
    <2>2. CASE \A s \in posted : ids[s] # i
      <3>1. active'[i] = active[i]
        BY <2>2, RecordFacts
      <3>2. screen'[i] = screen[i]
        BY <2>2, DisplayFacts
      <3> QED  BY <3>1, <3>2 DEF NotifyInv, ScreenAgrees
    <2> QED  BY <2>1, <2>2
  <1> QED  BY <1>1, <1>2, <1>3 DEF NotifyInv

-----------------------------------------------------------------------------
(* What the two posting handlers post. *)

LEMMA HeartbeatPosts ==
    ASSUME TypeOK, handle_heartbeat
    PROVE  \E failed \in SUBSET Session : \E posted, ids, gone :
              LET hb == Head(feed)
              IN  /\ Postable(posted, ids, hb, Stale(hb))
                  /\ Record(posted, ids, hb, Stale(hb))
                  /\ Display(posted, ids, hb, gone)
                  /\ Fail(failed) /\ Posted(hb, failed)
                  /\ hb \in Prompts /\ feed' = Tail(feed) /\ feed # <<>>
                  /\ dismissed' = StillDismissed(hb)
                  /\ posted = ToPost(hb) \ failed /\ \A s \in ToPost(hb) : hb[s] \in Tool
  <1> DEFINE hb == Head(feed)
  <1>1. hb \in Prompts /\ feed # <<>> /\ feed' = Tail(feed)
    BY DEF TypeOK, handle_heartbeat
  <1>2. PICK failed \in SUBSET (Stale(hb) \cup ToPost(hb)) :
          \E ids \in [ToPost(hb) \ failed -> Id] :
               /\ \A s \in DOMAIN ids : ids[s] \in Reply(s)
               /\ \A s, r \in DOMAIN ids : ids[s] = ids[r] => s = r
               /\ Fail(failed)
               /\ Record(DOMAIN ids, ids, hb, Stale(hb))
               /\ Display(DOMAIN ids, ids, hb, Stale(hb) \ failed)
               /\ Posted(hb, failed)
               /\ dismissed' = StillDismissed(hb)
    BY DEF handle_heartbeat
  <1>3. PICK ids \in [ToPost(hb) \ failed -> Id] :
               /\ \A s \in DOMAIN ids : ids[s] \in Reply(s)
               /\ \A s, r \in DOMAIN ids : ids[s] = ids[r] => s = r
               /\ Fail(failed)
               /\ Record(DOMAIN ids, ids, hb, Stale(hb))
               /\ Display(DOMAIN ids, ids, hb, Stale(hb) \ failed)
               /\ Posted(hb, failed)
               /\ dismissed' = StillDismissed(hb)
    BY <1>2
  <1>4. DOMAIN ids = ToPost(hb) \ failed
    OBVIOUS
  <1>5. Stale(hb) \subseteq Session /\ ToPost(hb) \subseteq Session
        /\ Stale(hb) \cap ToPost(hb) = {}
    BY DEF Stale, ToPost
  <1>6. \A s \in ToPost(hb) : hb[s] \in Tool
    BY <1>1 DEF ToPost, Prompts, MaybeTool
  <1>7. Postable(DOMAIN ids, ids, hb, Stale(hb))
    BY <1>3, <1>4, <1>5, <1>6 DEF Postable
  <1>8. failed \in SUBSET Session
    BY <1>5
  <1> QED  BY <1>1, <1>3, <1>4, <1>6, <1>7, <1>8

LEMMA TurnDonePosts ==
    ASSUME TypeOK, handle_turn_done
    PROVE  /\ Head(dones) \in Session /\ dones' \in Seq(Session)
           /\ \/ /\ Fail({Head(dones)})
                 /\ UNCHANGED <<screen, closes, active, session_notif>>
              \/ /\ \E posted, ids, tool :
                       /\ Postable(posted, ids, tool, {})
                       /\ Record(posted, ids, tool, {}) /\ Display(posted, ids, tool, {})
                       /\ \A s \in posted : tool[s] = Done
                 /\ UNCHANGED bounds
  <1> DEFINE s == Head(dones)
  <1>1. s \in Session /\ dones' \in Seq(Session)
    BY DEF TypeOK, handle_turn_done
  <1>2. CASE /\ Fail({s})
             /\ UNCHANGED <<screen, closes, active, session_notif>>
    BY <1>1, <1>2
  <1>3. CASE \E ids \in [{s} -> Reply(s)] :
                 /\ Record({s}, ids, [r \in {s} |-> Done], {})
                 /\ Display({s}, ids, [r \in {s} |-> Done], {})
                 /\ UNCHANGED bounds
    <2>1. PICK ids \in [{s} -> Reply(s)] :
                 /\ Record({s}, ids, [r \in {s} |-> Done], {})
                 /\ Display({s}, ids, [r \in {s} |-> Done], {})
                 /\ UNCHANGED bounds
      BY <1>3
    <2>2. Reply(s) \subseteq Id
      <3>1. Fresh \subseteq Id
        BY DEF Fresh
      <3>2. session_notif[s] # NoId => session_notif[s] \in Id
        BY <1>1 DEF TypeOK, MaybeId
      <3> QED  BY <3>1, <3>2 DEF Reply
    <2>3. Postable({s}, ids, [r \in {s} |-> Done], {})
      BY <1>1, <2>1, <2>2 DEF Postable
    <2> QED  BY <1>1, <2>1, <2>3
  <1> QED  BY <1>2, <1>3 DEF handle_turn_done

-----------------------------------------------------------------------------
(* Types. *)

LEMMA InitType == ASSUME Init PROVE TypeOK
  <1>1. prompts \in Prompts /\ session_notif \in [Session -> MaybeId]
        /\ last_prompt_ids \in [Session -> MaybeTool]
    BY DEF Init, Prompts, MaybeId, MaybeTool
  <1>2. screen \in [Id -> MaybeNote] /\ active \in [Id -> MaybeNote] /\ closes \in [Id -> Nat]
    BY DEF Init, MaybeNote
  <1>3. feed \in Seq(Prompts) /\ Len(feed) <= Capacity /\ dones \in Seq(Session)
        /\ orders \in Seq(Tool)
    BY CapacityAssumption DEF Init, CapacityAssumption
  <1> QED  BY <1>1, <1>2, <1>3, BoundsAssumption DEF Init, TypeOK, BoundsAssumption

LEMMA ShowType ==
    ASSUME TypeOK, NEW ps \in Prompts, ShowPrompts(ps)
    PROVE  prompts' \in Prompts /\ feed' \in Seq(Prompts) /\ Len(feed') <= Capacity
  <1>1. CASE Len(feed) < Capacity
    BY <1>1, CapacityAssumption DEF TypeOK, ShowPrompts, Enqueue, CapacityAssumption
  <1>2. CASE ~(Len(feed) < Capacity)
    <2>1. feed # <<>> /\ Len(feed) = Capacity
      BY <1>2, CapacityAssumption DEF TypeOK, CapacityAssumption
    <2>2. Tail(feed) \in Seq(Prompts) /\ Len(Tail(feed)) = Capacity - 1
      BY <2>1 DEF TypeOK
    <2> QED  BY <1>2, <2>2, CapacityAssumption DEF ShowPrompts, Enqueue, CapacityAssumption
  <1> QED  BY <1>1, <1>2

LEMMA FailType == ASSUME TypeOK, NEW failed \in SUBSET Session, Fail(failed)
                  PROVE  donesLeft' \in Nat /\ faultsLeft' \in Nat /\ restartsLeft' \in Nat
  <1>1. IsFiniteSet(failed)
    BY SessionsAreFinite, FS_Subset DEF SessionsAreFinite
  <1>2. Cardinality(failed) \in Nat
    BY <1>1, FS_CardinalityType
  <1> QED  BY <1>2 DEF Fail, TypeOK

LEMMA ReleaseType == ASSUME TypeOK, NEW i \in Id, Release(i)
                     PROVE  active' \in [Id -> MaybeNote] /\ session_notif' \in [Session -> MaybeId]
  BY DEF TypeOK, Release, MaybeNote, MaybeId

LEMMA PostedType == ASSUME TypeOK, NEW hb \in Prompts, NEW failed, Posted(hb, failed)
                    PROVE  last_prompt_ids' \in [Session -> MaybeTool]
  BY DEF TypeOK, Posted, Prompts, MaybeTool

\* The tool of the approval on record under an id.
LEMMA ApprovalTool == ASSUME TypeOK, NEW i \in Id, IsApproval(active[i])
                      PROVE  active[i].tool \in Tool
  BY NullFacts DEF TypeOK, MaybeNote, IsApproval

LEMMA ActionType == ASSUME TypeOK, NEW c \in clicks, handle_action(c) PROVE TypeOK'
  <1>0. c.id \in Id /\ c.seen \in Note
    BY DEF TypeOK
  <1>1. clicks' \subseteq [id : Id, seen : Note]
    BY DEF TypeOK, handle_action
  <1>2. CASE IsApproval(active[c.id]) /\ Release(c.id)
    <2>1. active[c.id].tool \in Tool
      BY <1>0, <1>2, ApprovalTool
    <2>2. active' \in [Id -> MaybeNote] /\ session_notif' \in [Session -> MaybeId]
      BY <1>0, <1>2, ReleaseType
    <2>3. active[c.id] # NoNote /\ active[c.id].tool # Done
      BY <1>2 DEF IsApproval
    <2>4. orders' = Append(orders, active[c.id].tool)
          /\ dismissed' = dismissed \cup {active[c.id].tool}
          /\ answered' = answered \cup {active[c.id].tool}
          /\ UNCHANGED first_stale_click_seen
      BY <2>3 DEF handle_action
    <2>5. orders' \in Seq(Tool)
      BY <1>0, <2>1, <2>4 DEF TypeOK
    <2> QED  BY <1>1, <2>1, <2>2, <2>4, <2>5
             DEF TypeOK, handle_action, aggregator, inputs, bounds
  <1>3. CASE UNCHANGED <<active, session_notif, orders, dismissed, answered>>
             /\ first_stale_click_seen' \in {TRUE, first_stale_click_seen}
    BY <1>1, <1>3 DEF TypeOK, handle_action, aggregator, inputs, bounds
  <1> QED  BY <1>2, <1>3 DEF handle_action

LEMMA ClosedType == ASSUME TypeOK, NEW i \in Id, handle_closed(i) PROVE TypeOK'
  <1>1. active' \in [Id -> MaybeNote] /\ session_notif' \in [Session -> MaybeId]
    BY ReleaseType DEF handle_closed, TypeOK
  <1>2. {active[j].tool : j \in {k \in {i} : IsApproval(active[k])}} \subseteq Tool
    BY ApprovalTool
  <1>3. closes' \in [Id -> Nat]
    BY DEF TypeOK, handle_closed
  <1> QED  BY <1>1, <1>2, <1>3 DEF TypeOK, handle_closed, aggregator, inputs, bounds

LEMMA TakeType == ASSUME TypeOK, NEW i \in Id, Take(i)
                  PROVE  screen' \in [Id -> MaybeNote] /\ closes' \in [Id -> Nat]
  BY DEF TypeOK, Take, MaybeNote

LEMMA NextType == ASSUME TypeOK, [Next]_vars PROVE TypeOK'
  <1> USE DEF aggregator, inputs, signals, emitter, bounds
  <1>1. CASE UNCHANGED vars
    BY <1>1 DEF TypeOK, vars
  <1>2. ASSUME NEW s \in Session, NEW t \in Tool, NewPrompt(s, t) PROVE TypeOK'
    <2>1. [prompts EXCEPT ![s] = t] \in Prompts
      BY DEF TypeOK, Prompts, MaybeTool
    <2> QED  BY <1>2, <2>1, ShowType DEF TypeOK, NewPrompt
  <1>3. ASSUME NEW s \in Session, ClearPrompt(s) PROVE TypeOK'
    <2>1. [prompts EXCEPT ![s] = NoTool] \in Prompts
      BY DEF TypeOK, Prompts, MaybeTool
    <2> QED  BY <1>3, <2>1, ShowType DEF TypeOK, ClearPrompt
  <1>4. ASSUME NEW s \in Session, TurnDone(s) PROVE TypeOK'
    BY <1>4 DEF TypeOK, TurnDone
  <1>5. CASE Keepalive
    <2>1. feed' \in Seq(Prompts) /\ Len(feed') = 1
      BY <1>5 DEF TypeOK, Keepalive
    <2> QED  BY <1>5, <2>1, CapacityAssumption DEF TypeOK, Keepalive, CapacityAssumption
  <1>6. CASE TakeOrder
    <2> DEFINE ps == [s \in Session |->
                        IF prompts[s] = Head(orders) THEN NoTool ELSE prompts[s]]
    <2>1. ps \in Prompts
      BY DEF TypeOK, Prompts, MaybeTool
    <2>2. orders' \in Seq(Tool)
      BY <1>6 DEF TypeOK, TakeOrder
    <2>3. ShowPrompts(ps)
      BY <1>6 DEF TakeOrder
    <2> QED  BY <1>6, <2>1, <2>2, <2>3, ShowType DEF TypeOK, TakeOrder
  <1>7. ASSUME NEW i \in Id, Click(i) PROVE TypeOK'
    <2>1. screen[i] \in Note
      BY <1>7 DEF TypeOK, MaybeNote, Click, Take
    <2>2. screen' \in [Id -> MaybeNote] /\ closes' \in [Id -> Nat]
      BY <1>7, TakeType DEF Click
    <2> QED  BY <1>7, <2>1, <2>2 DEF TypeOK, Click
  <1>8. ASSUME NEW i \in Id, Dismiss(i) PROVE TypeOK'
    <2>1. screen' \in [Id -> MaybeNote] /\ closes' \in [Id -> Nat]
      BY <1>8, TakeType DEF Dismiss
    <2> QED  BY <1>8, <2>1 DEF TypeOK, Dismiss
  <1>9. CASE handle_heartbeat
    <2> DEFINE hb == Head(feed)
    <2>1. PICK failed \in SUBSET Session : \E posted, ids, gone :
                  /\ Postable(posted, ids, hb, Stale(hb))
                  /\ Record(posted, ids, hb, Stale(hb))
                  /\ Display(posted, ids, hb, gone)
                  /\ Fail(failed) /\ Posted(hb, failed)
                  /\ hb \in Prompts /\ feed' = Tail(feed) /\ feed # <<>>
                  /\ dismissed' = StillDismissed(hb)
      BY <1>9, HeartbeatPosts
    <2>2. active' \in [Id -> MaybeNote] /\ session_notif' \in [Session -> MaybeId]
          /\ screen' \in [Id -> MaybeNote] /\ closes' \in [Id -> Nat]
      BY <2>1, PostType
    <2>3. donesLeft' \in Nat /\ faultsLeft' \in Nat /\ restartsLeft' \in Nat
      BY <2>1, FailType
    <2>4. last_prompt_ids' \in [Session -> MaybeTool]
      BY <2>1, PostedType
    <2>5. feed' \in Seq(Prompts) /\ Len(feed') <= Capacity
      BY <2>1, CapacityAssumption DEF TypeOK, CapacityAssumption
    <2>6. dismissed' \subseteq Tool
      BY <2>1 DEF TypeOK, StillDismissed
    <2> QED  BY <1>9, <2>2, <2>3, <2>4, <2>5, <2>6 DEF TypeOK, handle_heartbeat
  <1>10. CASE handle_turn_done
    <2>1. active' \in [Id -> MaybeNote] /\ session_notif' \in [Session -> MaybeId]
          /\ screen' \in [Id -> MaybeNote] /\ closes' \in [Id -> Nat]
      BY <1>10, TurnDonePosts, PostType DEF TypeOK
    <2>2. donesLeft' \in Nat /\ faultsLeft' \in Nat /\ restartsLeft' \in Nat
      BY <1>10, TurnDonePosts, FailType DEF TypeOK
    <2> QED  BY <1>10, <2>1, <2>2, TurnDonePosts DEF TypeOK, handle_turn_done
  <1>11. ASSUME NEW c \in clicks, handle_action(c) PROVE TypeOK'
    BY <1>11, ActionType
  <1>12. ASSUME NEW i \in Id, handle_closed(i) PROVE TypeOK'
    BY <1>12, ClosedType
  <1>13. CASE Restart
    <2>1. screen' \in [Id -> MaybeNote]
      BY <1>13 DEF TypeOK, Restart, MaybeNote
    <2>2. active' \in [Id -> MaybeNote] /\ closes' \in [Id -> Nat]
          /\ session_notif' \in [Session -> MaybeId]
          /\ last_prompt_ids' \in [Session -> MaybeTool] /\ prompts' \in Prompts
      BY <1>13 DEF Restart, MaybeNote, MaybeId, MaybeTool, Prompts
    <2>3. feed' \in Seq(Prompts) /\ Len(feed') <= Capacity /\ dones' \in Seq(Session)
          /\ orders' \in Seq(Tool)
      BY <1>13, CapacityAssumption DEF Restart, CapacityAssumption
    <2>4. donesLeft' \in Nat /\ faultsLeft' \in Nat /\ restartsLeft' \in Nat
      BY <1>13 DEF TypeOK, Restart
    <2> QED  BY <1>13, <2>1, <2>2, <2>3, <2>4 DEF TypeOK, Restart
  <1> QED  BY <1>1, <1>2, <1>3, <1>4, <1>5, <1>6, <1>7, <1>8, <1>9, <1>10, <1>11, <1>12, <1>13
           DEF Next, Emit

\* Every variable keeps its type.
THEOREM TypeCorrect == Spec => []TypeOK
  <1> QED  BY InitType, NextType, PTL DEF Spec

-----------------------------------------------------------------------------
(* The invariant. *)

LEMMA InitInv == ASSUME Init PROVE NotifyInv
  BY DEF Init, NotifyInv, SlotsAgree, ClicksStayInSession, ScreenAgrees

\* What a step that leaves the records alone must not do.
LEMMA RecordsUnchanged ==
    ASSUME TypeOK, NotifyInv, UNCHANGED <<active, session_notif>>, clicks' \subseteq clicks,
           \A i \in Id : screen'[i] \in {screen[i], NoNote}
    PROVE  NotifyInv'
  BY DEF TypeOK, NotifyInv, SlotsAgree, ClicksStayInSession, ScreenAgrees

\* A record goes together with its slot.
LEMMA ReleaseKeeps ==
    ASSUME TypeOK, NotifyInv, NEW i \in Id, active[i] # NoNote, Release(i),
           screen' = screen, clicks' \subseteq clicks
    PROVE  NotifyInv'
  <1> DEFINE s == active[i].session
  <1>1. s \in Session /\ session_notif[s] = i /\ i # NoId
    BY NullFacts DEF TypeOK, MaybeNote, NotifyInv, SlotsAgree
  <1>2. active' = [active EXCEPT ![i] = NoNote] /\ session_notif' = [session_notif EXCEPT ![s] = NoId]
    BY <1>1 DEF Release
  <1>3. \A j \in Id : active'[j] = IF j = i THEN NoNote ELSE active[j]
    BY <1>2 DEF TypeOK
  <1>4. \A r \in Session : session_notif'[r] = IF r = s THEN NoId ELSE session_notif[r]
    BY <1>2 DEF TypeOK
  <1>5. \A j \in Id : active[j] # NoNote => active[j].session \in Session
    BY NullFacts DEF TypeOK, MaybeNote
  <1>6. \A r \in Session : session_notif[r] # NoId => session_notif[r] \in Id
    BY DEF TypeOK, MaybeId
  <1>7. SlotsAgree'
    <2>1. ASSUME NEW j \in Id, active'[j] # NoNote PROVE session_notif'[active'[j].session] = j
      <3>1. j # i /\ active'[j] = active[j] /\ session_notif[active[j].session] = j
        BY <1>3, <2>1 DEF NotifyInv, SlotsAgree
      <3>2. active[j].session # s
        BY <1>1, <3>1
      <3> QED  BY <1>4, <1>5, <2>1, <3>1, <3>2
    <2>2. ASSUME NEW r \in Session, session_notif'[r] # NoId
          PROVE  active'[session_notif'[r]] # NoNote /\ active'[session_notif'[r]].session = r
      <3>1. r # s /\ session_notif'[r] = session_notif[r]
        BY <1>4, <2>2
      <3>2. active[session_notif[r]] # NoNote /\ active[session_notif[r]].session = r
        BY <2>2, <3>1 DEF NotifyInv, SlotsAgree
      <3>3. session_notif[r] \in Id /\ session_notif[r] # i
        BY <1>6, <2>2, <3>1, <3>2
      <3> QED  BY <1>3, <3>1, <3>2, <3>3
    <2> QED  BY <2>1, <2>2 DEF SlotsAgree
  <1>8. ClicksStayInSession'
    <2>1. \A c \in clicks : c.id \in Id
      BY DEF TypeOK
    <2> QED  BY <1>3, <2>1 DEF NotifyInv, ClicksStayInSession
  <1>9. ScreenAgrees'
    BY <1>3 DEF NotifyInv, ScreenAgrees
  <1> QED  BY <1>7, <1>8, <1>9 DEF NotifyInv

LEMMA NextInv == ASSUME TypeOK, NotifyInv, [Next]_vars PROVE NotifyInv'
  <1> USE DEF aggregator, inputs, signals, emitter, bounds
  <1>0. \A i \in Id : screen[i] \in {screen[i], NoNote}
    OBVIOUS
  <1>1. CASE UNCHANGED vars
    BY <1>1, RecordsUnchanged DEF vars
  <1>2. ASSUME NEW s \in Session, \/ \E t \in Tool : NewPrompt(s, t)
                                  \/ ClearPrompt(s) \/ TurnDone(s)
        PROVE  NotifyInv'
    BY <1>2, RecordsUnchanged DEF NewPrompt, ClearPrompt, TurnDone
  <1>3. CASE Keepalive \/ TakeOrder
    BY <1>3, RecordsUnchanged DEF Keepalive, TakeOrder
  <1>4. ASSUME NEW i \in Id, Click(i) PROVE NotifyInv'
    <2> DEFINE c == [id |-> i, seen |-> screen[i]]
    <2>1. screen[i] # NoNote /\ screen' = [screen EXCEPT ![i] = NoNote]
          /\ clicks' = clicks \cup {c} /\ UNCHANGED <<active, session_notif>>
      BY <1>4 DEF Click, Take
    <2>2. SlotsAgree'
      BY <2>1 DEF NotifyInv, SlotsAgree
    <2>3. active[i] # NoNote => active[i].session = screen[i].session
      BY <2>1 DEF NotifyInv, ScreenAgrees
    <2>4. ClicksStayInSession'
      BY <2>1, <2>3 DEF NotifyInv, ClicksStayInSession
    <2>5. ScreenAgrees'
      BY <2>1 DEF TypeOK, NotifyInv, ScreenAgrees
    <2> QED  BY <2>2, <2>4, <2>5 DEF NotifyInv
  <1>5. ASSUME NEW i \in Id, Dismiss(i) PROVE NotifyInv'
    <2>1. \A j \in Id : screen'[j] \in {screen[j], NoNote}
      BY <1>5 DEF TypeOK, Dismiss, Take
    <2> QED  BY <1>5, <2>1, RecordsUnchanged DEF Dismiss
  <1>6. CASE handle_heartbeat
    <2> DEFINE hb == Head(feed)
    <2>1. PICK posted, ids, gone :
                  /\ Postable(posted, ids, hb, Stale(hb))
                  /\ Record(posted, ids, hb, Stale(hb))
                  /\ Display(posted, ids, hb, gone)
      BY <1>6, HeartbeatPosts
    <2>2. clicks' = clicks
      BY <1>6 DEF handle_heartbeat
    <2> QED  BY <2>1, <2>2, PostKeeps
  <1>7. CASE handle_turn_done
    <2>1. clicks' = clicks
      BY <1>7 DEF handle_turn_done
    <2>2. CASE UNCHANGED <<screen, closes, active, session_notif>>
      BY <2>1, <2>2, RecordsUnchanged
    <2>3. CASE \E posted, ids, tool :
                  /\ Postable(posted, ids, tool, {})
                  /\ Record(posted, ids, tool, {}) /\ Display(posted, ids, tool, {})
      BY <2>1, <2>3, PostKeeps
    <2> QED  BY <1>7, <2>2, <2>3, TurnDonePosts
  <1>8. ASSUME NEW c \in clicks, handle_action(c) PROVE NotifyInv'
    <2>1. c.id \in Id /\ clicks' \subseteq clicks /\ screen' = screen
      BY <1>8 DEF TypeOK, handle_action
    <2>2. CASE IsApproval(active[c.id]) /\ Release(c.id)
      BY <2>1, <2>2, ReleaseKeeps DEF IsApproval
    <2>3. CASE UNCHANGED <<active, session_notif>>
      BY <2>1, <2>3, RecordsUnchanged
    <2> QED  BY <1>8, <2>2, <2>3 DEF handle_action
  <1>9. ASSUME NEW i \in Id, handle_closed(i) PROVE NotifyInv'
    <2>1. clicks' = clicks /\ screen' = screen
      BY <1>9 DEF handle_closed
    <2>2. CASE active[i] = NoNote
      BY <1>9, <2>1, <2>2, RecordsUnchanged DEF handle_closed
    <2>3. CASE active[i] # NoNote
      BY <1>9, <2>1, <2>3, ReleaseKeeps DEF handle_closed
    <2> QED  BY <2>2, <2>3
  <1>10. CASE Restart
    BY <1>10 DEF Restart, NotifyInv, SlotsAgree, ClicksStayInSession, ScreenAgrees
  <1> QED  BY <1>1, <1>2, <1>3, <1>4, <1>5, <1>6, <1>7, <1>8, <1>9, <1>10 DEF Next, Emit

\* The records, the slots, the screen and the clicks under way agree.
THEOREM InvCorrect == Spec => []NotifyInv
  <1> QED  BY TypeCorrect, InitInv, NextInv, PTL DEF Spec

\* The slots of the sessions and the records of the notifications agree, whatever
\* the order in which heartbeats, turn-done events and signals are taken.
THEOREM SlotsCorrect == Spec => []SlotsAgree
  <1>1. NotifyInv => SlotsAgree
    BY DEF NotifyInv
  <1> QED  BY <1>1, InvCorrect, PTL

\* No click is ever taken for a prompt of another session.
THEOREM ClicksCorrect == Spec => []ClicksStayInSession
  <1>1. NotifyInv => ClicksStayInSession
    BY DEF NotifyInv
  <1> QED  BY <1>1, InvCorrect, PTL

-----------------------------------------------------------------------------
(* The heartbeats under way, and the prompts behind them. *)

\* The q-th heartbeat the emitter will take; after the last of the feed come the prompts.
Heartbeat(q) == IF q \in 1..Len(feed) THEN feed[q] ELSE prompts
Shows(q, t, C) == \E s \in C : Heartbeat(q)[s] = t

\* From the p-th on, a prompt that has gone does not come back.
From(p, t, C) == \A r \in 1..Len(feed) + 1 : \A q \in p..r : Shows(r, t, C) => Shows(q, t, C)

OnRecord(t) == \E i \in Id : active[i] # NoNote /\ active[i].tool = t

KnownInv == \A t \in Tool \ asked : /\ t \notin answered /\ ~OnRecord(t)
                                    /\ \A q \in 1..Len(feed) + 1 : ~Shows(q, t, Session)
OnceInv == \A t \in Tool, C \in SUBSET Session : \A p \in 1..Len(feed) + 1 :
              Shows(p, t, C) => From(p, t, C)
SeenInv == /\ \A t \in Tool : t \in answered \/ OnRecord(t) => From(1, t, Session)
           /\ \A i \in Id : IsApproval(active[i]) => From(1, active[i].tool, {active[i].session})
GoneInv == \A t \in answered \ dismissed : \A q \in 1..Len(feed) + 1 : ~Shows(q, t, Session)
LastInv == \A i \in Id : IsApproval(active[i]) => last_prompt_ids[active[i].session] = active[i].tool

PastInv == KnownInv /\ OnceInv /\ SeenInv /\ GoneInv /\ LastInv

\* How a step moves the heartbeats: the first k of the new ones were there, the others are ps.
Moved(d, k, ps) ==
    /\ k <= Len(feed') + 1 /\ k + d <= Len(feed) + 1
    /\ \A q \in 1..k : Heartbeat(q)' = Heartbeat(q + d)
    /\ \A q \in k + 1..Len(feed') + 1 : Heartbeat(q)' = ps

\* What a step that shows nothing new does to a prompt.
Carried(t, C) ==
    /\ \A q \in 1..Len(feed') + 1 :
          Shows(q, t, C)' => \E x \in 1..Len(feed) + 1 : Shows(x, t, C)
    /\ From(1, t, C) => From(1, t, C)'
    /\ (\A p \in 1..Len(feed) + 1 : Shows(p, t, C) => From(p, t, C))
          => (\A p \in 1..Len(feed') + 1 : Shows(p, t, C)' => From(p, t, C)')

LEMMA Lengths == ASSUME TypeOK, TypeOK' PROVE Len(feed) \in Nat /\ Len(feed') \in Nat
  BY DEF TypeOK

LEMMA MovedCarries ==
    ASSUME TypeOK, TypeOK', NEW t, NEW C, NEW d \in Nat, NEW k \in Nat, NEW ps, Moved(d, k, ps),
           (\E s \in C : ps[s] = t) => Shows(Len(feed) + 1, t, C)
    PROVE  Carried(t, C)
  <1>1. PICK n \in Nat : n = Len(feed)
    BY Lengths
  <1>2. PICK m \in Nat : m = Len(feed')
    BY Lengths
  <1>3. k <= m + 1 /\ k + d <= n + 1
    BY <1>1, <1>2 DEF Moved
  <1>4. ASSUME NEW q \in 1..k PROVE Shows(q, t, C)' <=> Shows(q + d, t, C)
    BY DEF Moved, Shows
  <1>5. ASSUME NEW q \in k + 1..m + 1 PROVE Shows(q, t, C)' <=> \E s \in C : ps[s] = t
    BY <1>2 DEF Moved, Shows
  <1>6. ASSUME NEW p \in 1..m + 1, NEW x \in 1..n + 1, p <= k => x <= p + d /\ From(x, t, C)
        PROVE  From(p, t, C)'
    <2> SUFFICES ASSUME NEW r \in 1..m + 1, NEW q \in p..r, Shows(r, t, C)'
                 PROVE  Shows(q, t, C)'
      BY <1>2 DEF From
    <2>1. CASE q > k
      <3>1. q \in k + 1..m + 1 /\ r \in k + 1..m + 1
        BY <1>3, <2>1
      <3> QED
        BY <1>5, <3>1
    <2>2. CASE q <= k
      <3>1. q \in 1..k /\ p <= k /\ x <= p + d
        BY <1>3, <1>6, <2>2
      <3>2. PICK z \in 1..n + 1 : q + d <= z /\ Shows(z, t, C)
        <4>1. CASE r <= k
          <5>1. r \in 1..k /\ r + d \in 1..n + 1 /\ q + d <= r + d
            BY <1>3, <4>1
          <5> QED
            BY <1>4, <5>1
        <4>2. CASE r > k
          <5>1. r \in k + 1..m + 1 /\ n + 1 \in 1..n + 1 /\ q + d <= n + 1
            BY <1>3, <2>2, <4>2
          <5> QED
            BY <1>1, <1>5, <5>1
        <4> QED
          BY <4>1, <4>2
      <3>3. q + d \in x..z
        BY <3>1, <3>2
      <3>4. Shows(q + d, t, C)
        BY <1>1, <1>6, <3>1, <3>2, <3>3 DEF From
      <3> QED
        BY <1>4, <3>1, <3>4
    <2> QED
      BY <2>1, <2>2
  <1>7. ASSUME NEW q \in 1..m + 1, Shows(q, t, C)' PROVE \E x \in 1..n + 1 : Shows(x, t, C)
    <2>1. CASE q \in 1..k
      <3>1. q + d \in 1..n + 1
        BY <1>3, <2>1
      <3> QED
        BY <1>4, <1>7, <2>1, <3>1
    <2>2. CASE q \in k + 1..m + 1
      <3>1. n + 1 \in 1..n + 1
        OBVIOUS
      <3> QED
        BY <1>1, <1>5, <1>7, <2>2, <3>1
    <2> QED
      BY <1>3, <2>1, <2>2
  <1>8. From(1, t, C) => From(1, t, C)'
    <2>1. 1 \in 1..m + 1 /\ 1 \in 1..n + 1 /\ 1 <= 1 + d
      OBVIOUS
    <2> QED
      BY <1>6, <2>1
  <1>9. ASSUME \A p \in 1..n + 1 : Shows(p, t, C) => From(p, t, C),
               NEW p \in 1..m + 1, Shows(p, t, C)'
        PROVE  From(p, t, C)'
    <2>1. CASE p <= k
      <3>1. p \in 1..k /\ p + d \in 1..n + 1 /\ p + d <= p + d
        BY <1>3, <2>1
      <3>2. From(p + d, t, C)
        BY <1>4, <1>9, <3>1
      <3> QED
        BY <1>6, <3>1, <3>2
    <2>2. CASE ~(p <= k)
      <3>1. 1 \in 1..n + 1
        OBVIOUS
      <3> QED
        BY <1>6, <2>2, <3>1
    <2> QED
      BY <2>1, <2>2
  <1> QED
    BY <1>1, <1>2, <1>7, <1>8, <1>9 DEF Carried

\* The prompts of the last heartbeat are the aggregator's, until it shows others.
LEMMA Latest == ASSUME TypeOK PROVE Heartbeat(Len(feed) + 1) = prompts
  <1>1. PICK n \in Nat : n = Len(feed)
    BY DEF TypeOK
  <1>2. ~(n + 1 \in 1..n)
    OBVIOUS
  <1> QED
    BY <1>1, <1>2 DEF Heartbeat

LEMMA ShowMoves ==
    ASSUME TypeOK, TypeOK', NEW ps, ShowPrompts(ps)
    PROVE  \E d \in Nat, k \in Nat : Moved(d, k, ps)
  <1>1. PICK n \in Nat : n = Len(feed)
    BY DEF TypeOK
  <1>2. CASE n < Capacity
    <2>1. feed' = Append(feed, ps) /\ prompts' = ps
      BY <1>1, <1>2 DEF ShowPrompts, Enqueue
    <2>2. PICK new : new = feed'
      OBVIOUS
    <2>3. Len(new) = n + 1 /\ new[n + 1] = ps /\ \A q \in 1..n : new[q] = feed[q]
      BY <1>1, <2>1, <2>2 DEF TypeOK
    <2>4. \A q \in 1..n : Heartbeat(q)' = Heartbeat(q + 0)
      <3>1. ASSUME NEW q \in 1..n PROVE q \in 1..n + 1 /\ q + 0 = q
        OBVIOUS
      <3> QED
        BY <1>1, <2>2, <2>3, <3>1 DEF Heartbeat
    <2>5. \A q \in n + 1..n + 2 : Heartbeat(q)' = ps
      <3>1. ASSUME NEW q \in n + 1..n + 2 PROVE q \in 1..n + 1 => q = n + 1
        OBVIOUS
      <3> QED
        BY <2>1, <2>2, <2>3, <3>1 DEF Heartbeat
    <2>6. n <= n + 1 + 1 /\ n + 0 <= n + 1 /\ n + 1 + 1 = n + 2
      OBVIOUS
    <2>7. Moved(0, n, ps)
      BY <1>1, <2>2, <2>3, <2>4, <2>5, <2>6 DEF Moved
    <2> QED
      BY <2>7
  <1>3. CASE ~(n < Capacity)
    <2>1. feed' = Append(Tail(feed), ps) /\ prompts' = ps
      BY <1>1, <1>3 DEF ShowPrompts, Enqueue
    <2>2. n >= 1 /\ feed \in Seq(Prompts)
      BY <1>1, <1>3, CapacityAssumption DEF CapacityAssumption, TypeOK
    <2>3. PICK m \in Nat : m = n - 1
      BY <2>2
    <2>4. Tail(feed) \in Seq(Prompts) /\ Len(Tail(feed)) = m /\ \A q \in 1..m : Tail(feed)[q] = feed[q + 1]
      BY <1>1, <2>2, <2>3
    <2>5. PICK new : new = feed'
      OBVIOUS
    <2>6. Len(new) = m + 1 /\ new[m + 1] = ps /\ \A q \in 1..m : new[q] = feed[q + 1]
      BY <2>1, <2>4, <2>5
    <2>7. \A q \in 1..m : Heartbeat(q)' = Heartbeat(q + 1)
      <3>1. ASSUME NEW q \in 1..m PROVE q \in 1..m + 1 /\ q + 1 \in 1..n
        BY <2>3
      <3> QED
        BY <1>1, <2>5, <2>6, <3>1 DEF Heartbeat
    <2>8. \A q \in m + 1..m + 2 : Heartbeat(q)' = ps
      <3>1. ASSUME NEW q \in m + 1..m + 2 PROVE q \in 1..m + 1 => q = m + 1
        OBVIOUS
      <3> QED
        BY <2>1, <2>5, <2>6, <3>1 DEF Heartbeat
    <2>9. m <= m + 1 + 1 /\ m + 1 <= n + 1 /\ m + 1 + 1 = m + 2
      BY <2>3
    <2>10. Moved(1, m, ps)
      BY <1>1, <2>5, <2>6, <2>7, <2>8, <2>9 DEF Moved
    <2> QED
      BY <2>10
  <1> QED
    BY <1>2, <1>3

LEMMA ShowCarries ==
    ASSUME TypeOK, TypeOK', NEW t, NEW C, NEW ps, ShowPrompts(ps),
           (\E s \in C : ps[s] = t) => \E s \in C : prompts[s] = t
    PROVE  Carried(t, C)
  <1>1. PICK d \in Nat, k \in Nat : Moved(d, k, ps)
    BY ShowMoves
  <1>2. (\E s \in C : ps[s] = t) => Shows(Len(feed) + 1, t, C)
    BY Latest DEF Shows
  <1> QED
    BY <1>1, <1>2, MovedCarries

LEMMA TakeCarries ==
    ASSUME TypeOK, TypeOK', NEW t, NEW C, feed # <<>>, feed' = Tail(feed), prompts' = prompts
    PROVE  Carried(t, C)
  <1>1. PICK n \in Nat : n = Len(feed)
    BY DEF TypeOK
  <1>2. n >= 1 /\ feed \in Seq(Prompts)
    BY <1>1 DEF TypeOK
  <1>3. PICK m \in Nat : m = n - 1
    BY <1>2
  <1>4. PICK new : new = feed'
    OBVIOUS
  <1>5. Len(new) = m /\ \A q \in 1..m : new[q] = feed[q + 1]
    BY <1>1, <1>2, <1>3, <1>4
  <1>6. \A q \in 1..n : Heartbeat(q)' = Heartbeat(q + 1)
    <2>1. ASSUME NEW q \in 1..n PROVE Heartbeat(q)' = Heartbeat(q + 1)
      <3>1. CASE q \in 1..m
        <4>1. q + 1 \in 1..n
          BY <1>3, <3>1
        <4> QED
          BY <1>1, <1>4, <1>5, <3>1, <4>1 DEF Heartbeat
      <3>2. CASE q \notin 1..m
        <4>1. ~(q + 1 \in 1..n)
          BY <1>3, <3>2
        <4> QED
          BY <1>1, <1>4, <1>5, <3>2, <4>1 DEF Heartbeat
      <3> QED
        BY <3>1, <3>2
    <2> QED
      BY <2>1
  <1>7. n <= m + 1 /\ n + 1 <= n + 1
    BY <1>3
  <1>9. \A q \in n + 1..m + 1 : Heartbeat(q)' = prompts
    <2>1. ASSUME NEW q \in n + 1..m + 1 PROVE FALSE
      BY <1>3
    <2> QED
      BY <2>1
  <1>10. Moved(1, n, prompts)
    BY <1>1, <1>4, <1>5, <1>6, <1>7, <1>9 DEF Moved
  <1>11. (\E s \in C : prompts[s] = t) => Shows(Len(feed) + 1, t, C)
    BY Latest DEF Shows
  <1> QED
    BY <1>10, <1>11, MovedCarries

LEMMA KeepaliveCarries ==
    ASSUME TypeOK, TypeOK', NEW t, NEW C, Keepalive
    PROVE  Carried(t, C)
  <1>1. Len(feed) = 0 /\ feed' = <<prompts>> /\ prompts' = prompts
    BY DEF Keepalive, aggregator
  <1>2. PICK new : new = feed'
    OBVIOUS
  <1>3. Len(new) = 1 /\ new[1] = prompts
    BY <1>1, <1>2
  <1>4. \A q \in 0 + 1..Len(new) + 1 : Heartbeat(q)' = prompts
    <2>1. ASSUME NEW q \in 1..1 PROVE q = 1
      OBVIOUS
    <2> QED
      BY <1>1, <1>2, <1>3, <2>1 DEF Heartbeat
  <1>5. \A q \in 1..0 : Heartbeat(q)' = Heartbeat(q + 0)
    OBVIOUS
  <1>6. 0 <= Len(new) + 1 /\ 0 + 0 <= Len(feed) + 1
    BY <1>1, <1>3
  <1>7. Moved(0, 0, prompts)
    BY <1>2, <1>4, <1>5, <1>6 DEF Moved
  <1>8. (\E s \in C : prompts[s] = t) => Shows(Len(feed) + 1, t, C)
    BY Latest DEF Shows
  <1> QED
    BY <1>7, <1>8, MovedCarries

\* A restart shows nothing.
LEMMA RestartShows ==
    ASSUME Restart, NEW t \in Tool, NEW C \in SUBSET Session
    PROVE  /\ \A q \in 1..Len(feed') + 1 : ~Shows(q, t, C)'
           /\ \A p : From(p, t, C)'
  <1>1. feed' = <<>> /\ prompts' = [s \in Session |-> NoTool] /\ t # NoTool
    BY NullsAreFresh DEF Restart, NullsAreFresh
  <1>2. PICK new : new = feed'
    OBVIOUS
  <1>3. Len(new) = 0 /\ \A q : q \notin 1..0
    BY <1>1, <1>2
  <1>4. \A q : Heartbeat(q)' = prompts'
    BY <1>2, <1>3 DEF Heartbeat
  <1>5. \A q : ~Shows(q, t, C)'
    BY <1>1, <1>4 DEF Shows
  <1> QED
    BY <1>5 DEF From

LEMMA StepCarries ==
    ASSUME TypeOK, TypeOK', [Next]_vars, ~Restart, NEW t \in Tool, NEW C \in SUBSET Session,
           t \notin asked' \ asked
    PROVE  Carried(t, C)
  <1> USE DEF aggregator, inputs
  <1>1. CASE UNCHANGED <<feed, prompts>>
    BY <1>1 DEF Carried, From, Shows, Heartbeat
  <1>2. ASSUME NEW s \in Session, NEW u \in Tool, NewPrompt(s, u) PROVE Carried(t, C)
    <2>1. u # t
      BY <1>2 DEF NewPrompt
    <2>2. (\E r \in C : [prompts EXCEPT ![s] = u][r] = t) => \E r \in C : prompts[r] = t
      BY <2>1 DEF TypeOK, Prompts
    <2> QED
      BY <1>2, <2>2, ShowCarries DEF NewPrompt
  <1>3. ASSUME NEW s \in Session, ClearPrompt(s) PROVE Carried(t, C)
    <2>1. t # NoTool
      BY NullsAreFresh DEF NullsAreFresh
    <2>2. (\E r \in C : [prompts EXCEPT ![s] = NoTool][r] = t) => \E r \in C : prompts[r] = t
      BY <2>1 DEF TypeOK, Prompts
    <2> QED
      BY <1>3, <2>2, ShowCarries DEF ClearPrompt
  <1>4. CASE TakeOrder
    <2> DEFINE ps == [s \in Session |-> IF prompts[s] = Head(orders) THEN NoTool ELSE prompts[s]]
    <2>1. t # NoTool
      BY NullsAreFresh DEF NullsAreFresh
    <2>2. (\E r \in C : ps[r] = t) => \E r \in C : prompts[r] = t
      BY <2>1
    <2>3. ShowPrompts(ps)
      BY <1>4 DEF TakeOrder
    <2> QED
      BY <2>2, <2>3, ShowCarries
  <1>5. CASE handle_heartbeat
    BY <1>5, TakeCarries DEF handle_heartbeat
  <1>6. CASE Keepalive
    BY <1>6, KeepaliveCarries
  <1>7. ASSUME NEW s \in Session, TurnDone(s) PROVE UNCHANGED <<feed, prompts>>
    BY <1>7 DEF TurnDone
  <1>8. ASSUME NEW i \in Id, Click(i) \/ Dismiss(i) \/ handle_closed(i) PROVE UNCHANGED <<feed, prompts>>
    BY <1>8 DEF Click, Dismiss, handle_closed
  <1>9. ASSUME NEW c \in clicks, handle_action(c) PROVE UNCHANGED <<feed, prompts>>
    BY <1>9 DEF handle_action
  <1>10. handle_turn_done => UNCHANGED <<feed, prompts>>
    BY DEF handle_turn_done
  <1>11. UNCHANGED vars => UNCHANGED <<feed, prompts>>
    BY DEF vars
  <1> QED
    BY <1>1, <1>2, <1>3, <1>4, <1>5, <1>6, <1>7, <1>8, <1>9, <1>10, <1>11 DEF Next, Emit

\* A new prompt is in the newest heartbeat only.
LEMMA NewIsOnce ==
    ASSUME TypeOK, TypeOK', KnownInv, NEW s \in Session, NEW t \in Tool, NewPrompt(s, t),
           NEW C \in SUBSET Session, NEW p \in 1..Len(feed') + 1, Shows(p, t, C)'
    PROVE  From(p, t, C)'
  <1> DEFINE ps == [prompts EXCEPT ![s] = t]
  <1>1. PICK d \in Nat, k \in Nat : Moved(d, k, ps)
    BY ShowMoves DEF NewPrompt
  <1>2. PICK n \in Nat : n = Len(feed)
    BY Lengths
  <1>3. PICK m \in Nat : m = Len(feed')
    BY Lengths
  <1>4. k <= m + 1 /\ k + d <= n + 1
    BY <1>1, <1>2, <1>3 DEF Moved
  <1>5. ASSUME NEW q \in 1..k PROVE ~Shows(q, t, C)'
    <2>1. q + d \in 1..n + 1
      BY <1>4
    <2>2. ~Shows(q + d, t, Session)
      BY <1>2, <2>1 DEF KnownInv, NewPrompt
    <2> QED
      BY <1>1, <2>2 DEF Moved, Shows
  <1>6. p \in k + 1..m + 1
    BY <1>3, <1>4, <1>5
  <1>7. ASSUME NEW r \in 1..m + 1, NEW q \in p..r PROVE Shows(q, t, C)'
    <2>1. q \in k + 1..m + 1
      BY <1>6
    <2>2. Heartbeat(q)' = Heartbeat(p)'
      BY <1>1, <1>3, <1>6, <2>1 DEF Moved
    <2> QED
      BY <2>2 DEF Shows
  <1> QED
    BY <1>3, <1>7 DEF From

LEMMA OnceStep == ASSUME TypeOK, TypeOK', KnownInv, OnceInv, [Next]_vars PROVE OnceInv'
  <1> SUFFICES ASSUME NEW t \in Tool, NEW C \in SUBSET Session, NEW p \in 1..Len(feed') + 1, Shows(p, t, C)'
               PROVE  From(p, t, C)'
    BY DEF OnceInv
  <1>1. CASE Restart
    BY <1>1, RestartShows
  <1>2. CASE ~Restart /\ t \notin asked' \ asked
    <2>1. Carried(t, C)
      BY <1>2, StepCarries
    <2> QED
      BY <2>1 DEF Carried, OnceInv
  <1>3. CASE t \in asked' \ asked
    <2>1. \E s \in Session : NewPrompt(s, t)
      BY <1>3 DEF Next, Emit, vars, NewPrompt, ClearPrompt, TurnDone, Keepalive, TakeOrder, Click, Dismiss,
                  handle_heartbeat, handle_turn_done, handle_action, handle_closed, Restart, aggregator
    <2> QED
      BY <2>1, NewIsOnce
  <1> QED
    BY <1>1, <1>2, <1>3

\* What a heartbeat does to the record under an id.
LEMMA HeartbeatRecords ==
    ASSUME TypeOK, SlotsAgree, handle_heartbeat, NEW i \in Id
    PROVE  \/ \E s \in ToPost(Head(feed)) : /\ active'[i] = NewNote(s, Head(feed))
                                            /\ last_prompt_ids'[s] = Head(feed)[s]
                                            /\ active[i] # NoNote => active[i].session = s
           \/ active'[i] = NoNote /\ (active[i] # NoNote =>
                  active[i].session \in ToPost(Head(feed)) \cup Stale(Head(feed)))
           \/ /\ active'[i] = active[i]
              /\ active[i] # NoNote =>
                    last_prompt_ids'[active[i].session] = last_prompt_ids[active[i].session]
  <1> DEFINE hb == Head(feed)
  <1>1. PICK failed \in SUBSET Session : \E posted, ids, gone :
                  /\ Postable(posted, ids, hb, Stale(hb))
                  /\ Record(posted, ids, hb, Stale(hb))
                  /\ Display(posted, ids, hb, gone)
                  /\ Posted(hb, failed) /\ posted = ToPost(hb) \ failed
    BY HeartbeatPosts
  <1>2. PICK posted, ids :
                  /\ Postable(posted, ids, hb, Stale(hb))
                  /\ Record(posted, ids, hb, Stale(hb))
                  /\ Posted(hb, failed) /\ posted = ToPost(hb) \ failed
    BY <1>1
  <1>3. posted \subseteq Session /\ posted \cap Stale(hb) = {} /\ posted \subseteq ToPost(hb)
    BY <1>2 DEF Postable
  <1>4. CASE \E s \in posted : ids[s] = i
    <2>1. PICK s \in posted : ids[s] = i
      BY <1>4
    <2>2. active'[i] = NewNote(s, hb)
      BY <1>2, <2>1, RecordFacts
    <2>3. last_prompt_ids'[s] = hb[s]
      BY <1>2, <1>3, <2>1 DEF Posted
    <2>4. i = session_notif[s] \/ active[i] = NoNote
      BY <1>2, <2>1 DEF Postable, Reply, Fresh
    <2>5. active[i] # NoNote => active[i].session = s
      BY <1>3, <2>1, <2>4, NullFacts DEF SlotsAgree
    <2> QED
      BY <1>3, <2>1, <2>2, <2>3, <2>5
  <1>5. CASE \A s \in posted : ids[s] # i
    <2>1. active'[i] = IF \E s \in posted \cup Stale(hb) : session_notif[s] = i THEN NoNote ELSE active[i]
      BY <1>2, <1>5, RecordFacts
    <2>2. CASE \E s \in posted \cup Stale(hb) : session_notif[s] = i
      <3>1. PICK s \in posted \cup Stale(hb) : session_notif[s] = i
        BY <2>2
      <3>2. s \in Session /\ s \in ToPost(hb) \cup Stale(hb)
        BY <1>3, <3>1 DEF Stale
      <3>3. active[i] # NoNote => active[i].session = s
        BY <3>1, <3>2, NullFacts DEF SlotsAgree
      <3> QED
        BY <2>1, <2>2, <3>2, <3>3
    <2>3. CASE ~\E s \in posted \cup Stale(hb) : session_notif[s] = i
      <3>1. ASSUME active[i] # NoNote
            PROVE  last_prompt_ids'[active[i].session] = last_prompt_ids[active[i].session]
        <4>1. active[i].session \in Session /\ session_notif[active[i].session] = i
          BY <3>1, NullFacts DEF SlotsAgree, TypeOK, MaybeNote
        <4>2. active[i].session \notin posted \cup Stale(hb)
          BY <2>3, <4>1
        <4> QED
          BY <1>2, <4>1, <4>2 DEF Posted
      <3> QED
        BY <2>1, <2>3, <3>1
    <2> QED
      BY <2>2, <2>3
  <1> QED
    BY <1>4, <1>5

\* A turn-done notice is a record of its own.
LEMMA TurnDoneRecords ==
    ASSUME TypeOK, handle_turn_done, NEW i \in Id
    PROVE  \/ active'[i] \in {active[i], NoNote}
           \/ active'[i] # NoNote /\ active'[i].tool = Done
  <1>1. CASE active' = active
    BY <1>1
  <1>2. CASE \E posted, ids, tool : /\ Postable(posted, ids, tool, {}) /\ Record(posted, ids, tool, {})
                                    /\ \A s \in posted : tool[s] = Done
    <2>1. PICK posted, ids, tool : /\ Postable(posted, ids, tool, {}) /\ Record(posted, ids, tool, {})
                                   /\ \A s \in posted : tool[s] = Done
      BY <1>2
    <2>2. CASE \E s \in posted : ids[s] = i
      <3>1. PICK s \in posted : ids[s] = i
        BY <2>2
      <3>2. active'[i] = NewNote(s, tool) /\ tool[s] = Done /\ s \in Session
        BY <2>1, <3>1, RecordFacts DEF Postable
      <3>3. NewNote(s, tool) \in Note /\ NewNote(s, tool).tool = Done
        BY <3>2, NullFacts DEF NewNote
      <3> QED
        BY <3>2, <3>3, NullFacts
    <2>3. CASE \A s \in posted : ids[s] # i
      BY <2>1, <2>3, RecordFacts
    <2> QED
      BY <2>2, <2>3
  <1> QED
    BY <1>1, <1>2, TurnDonePosts

LEMMA OtherRecords ==
    ASSUME TypeOK, [Next]_vars, ~handle_heartbeat, ~handle_turn_done, NEW i \in Id
    PROVE  active'[i] \in {active[i], NoNote} /\ (last_prompt_ids' = last_prompt_ids \/ Restart)
  <1> USE DEF emitter
  <1>1. ASSUME NEW c \in clicks, handle_action(c)
        PROVE  active'[i] \in {active[i], NoNote} /\ last_prompt_ids' = last_prompt_ids
    BY <1>1 DEF handle_action, Release, TypeOK
  <1>2. ASSUME NEW j \in Id, handle_closed(j)
        PROVE  active'[i] \in {active[i], NoNote} /\ last_prompt_ids' = last_prompt_ids
    BY <1>2 DEF handle_closed, Release, TypeOK
  <1>3. Restart => active'[i] = NoNote
    BY DEF Restart
  <1>4. ASSUME NEW s \in Session, \/ \E t \in Tool : NewPrompt(s, t)
                                  \/ ClearPrompt(s) \/ TurnDone(s)
        PROVE  UNCHANGED <<active, last_prompt_ids>>
    BY <1>4 DEF NewPrompt, ClearPrompt, TurnDone
  <1>5. Keepalive \/ TakeOrder => UNCHANGED <<active, last_prompt_ids>>
    BY DEF Keepalive, TakeOrder
  <1>6. ASSUME NEW j \in Id, Click(j) \/ Dismiss(j) PROVE UNCHANGED <<active, last_prompt_ids>>
    BY <1>6 DEF Click, Dismiss
  <1>7. UNCHANGED vars => UNCHANGED <<active, last_prompt_ids>>
    BY DEF vars
  <1> QED
    BY <1>1, <1>2, <1>3, <1>4, <1>5, <1>6, <1>7 DEF Next, Emit

LEMMA LastStep == ASSUME TypeOK, SlotsAgree, LastInv, [Next]_vars PROVE LastInv'
  <1> SUFFICES ASSUME NEW i \in Id, IsApproval(active'[i])
               PROVE  last_prompt_ids'[active'[i].session] = active'[i].tool
    BY DEF LastInv, IsApproval
  <1>0. active'[i] # NoNote /\ active'[i].tool # Done
    BY DEF IsApproval
  <1>1. CASE handle_heartbeat
    <2>1. ASSUME NEW s \in ToPost(Head(feed)), active'[i] = NewNote(s, Head(feed)),
                 last_prompt_ids'[s] = Head(feed)[s]
          PROVE  last_prompt_ids'[active'[i].session] = active'[i].tool
      BY <2>1 DEF NewNote
    <2>2. ASSUME active'[i] = active[i],
                 last_prompt_ids'[active[i].session] = last_prompt_ids[active[i].session]
          PROVE  last_prompt_ids'[active'[i].session] = active'[i].tool
      BY <2>2 DEF LastInv
    <2> QED
      BY <1>0, <1>1, <2>1, <2>2, HeartbeatRecords
  <1>2. CASE handle_turn_done
    <2>1. active'[i] = active[i]
      BY <1>0, <1>2, TurnDoneRecords
    <2>2. last_prompt_ids' = last_prompt_ids
      BY <1>2 DEF handle_turn_done
    <2> QED
      BY <2>1, <2>2 DEF LastInv
  <1>3. CASE ~handle_heartbeat /\ ~handle_turn_done
    <2>1. active'[i] = active[i]
      BY <1>0, <1>3, OtherRecords
    <2>2. ~Restart
      BY <1>0 DEF Restart
    <2>3. last_prompt_ids' = last_prompt_ids
      BY <1>3, <2>2, OtherRecords
    <2> QED
      BY <2>1, <2>3 DEF LastInv
  <1> QED
    BY <1>1, <1>2, <1>3

\* The heartbeat that is taken is the first.
LEMMA FirstIs == ASSUME TypeOK, feed # <<>>
                 PROVE  Heartbeat(1) = Head(feed) /\ Head(feed) \in Prompts
  BY DEF TypeOK, Heartbeat

LEMMA AskedStays == ASSUME [Next]_vars PROVE asked \subseteq asked'
  BY DEF Next, Emit, vars, NewPrompt, ClearPrompt, TurnDone, Keepalive, TakeOrder, Click, Dismiss,
         handle_heartbeat, handle_turn_done, handle_action, handle_closed, Restart, aggregator

\* A record is old, or of the heartbeat that is taken.
LEMMA RecordIsShown ==
    ASSUME TypeOK, SlotsAgree, [Next]_vars, NEW i \in Id, IsApproval(active'[i])
    PROVE  \/ active'[i] = active[i]
           \/ /\ handle_heartbeat /\ active'[i].session \in Session
              /\ Heartbeat(1)[active'[i].session] = active'[i].tool
  <1>0. active'[i] # NoNote /\ active'[i].tool # Done
    BY DEF IsApproval
  <1>1. CASE handle_heartbeat
    <2>1. ASSUME NEW s \in ToPost(Head(feed)), active'[i] = NewNote(s, Head(feed))
          PROVE  active'[i].session \in Session /\ Heartbeat(1)[active'[i].session] = active'[i].tool
      BY <1>1, <2>1, FirstIs DEF NewNote, ToPost, handle_heartbeat
    <2> QED
      BY <1>0, <1>1, <2>1, HeartbeatRecords
  <1> QED
    BY <1>0, <1>1, TurnDoneRecords, OtherRecords

\* An answer is for a prompt on record, and dismisses it; only a heartbeat and a restart forget one.
LEMMA Answers ==
    ASSUME TypeOK, [Next]_vars, NEW t \in Tool
    PROVE  /\ t \in answered' => t \in answered \/ (OnRecord(t) /\ t \in dismissed')
           /\ t \in dismissed => t \in dismissed' \/ handle_heartbeat \/ Restart
  <1> USE DEF emitter
  <1>1. ASSUME NEW c \in clicks, handle_action(c)
        PROVE  /\ t \in answered' => t \in answered \/ (OnRecord(t) /\ t \in dismissed')
               /\ dismissed \subseteq dismissed'
    <2>1. c.id \in Id
      BY DEF TypeOK
    <2>2. CASE IsApproval(active[c.id])
      <3>1. answered' = answered \cup {active[c.id].tool} /\ dismissed' = dismissed \cup {active[c.id].tool}
        BY <1>1, <2>2 DEF handle_action, IsApproval
      <3> QED
        BY <2>1, <2>2, <3>1 DEF OnRecord, IsApproval
    <2>3. CASE ~IsApproval(active[c.id])
      BY <1>1, <2>3 DEF handle_action
    <2> QED
      BY <2>2, <2>3
  <1>2. ASSUME NEW j \in Id, handle_closed(j)
        PROVE  /\ t \in answered' => t \in answered \/ (OnRecord(t) /\ t \in dismissed')
               /\ dismissed \subseteq dismissed'
    <2>1. PICK gone : /\ gone = {active[k].tool : k \in {k \in {j} : IsApproval(active[k])}}
                      /\ dismissed' = dismissed \cup gone /\ answered' = answered \cup gone
      BY <1>2 DEF handle_closed
    <2>2. \A u \in gone : active[j] # NoNote /\ active[j].tool = u
      BY <2>1 DEF IsApproval
    <2> QED
      BY <2>1, <2>2 DEF OnRecord
  <1>3. Restart => answered' = answered
    BY DEF Restart
  <1>4. handle_heartbeat => answered' = answered
    BY DEF handle_heartbeat
  <1>5. ASSUME NEW s \in Session, \/ \E u \in Tool : NewPrompt(s, u)
                                  \/ ClearPrompt(s) \/ TurnDone(s)
        PROVE  UNCHANGED <<answered, dismissed>>
    BY <1>5 DEF NewPrompt, ClearPrompt, TurnDone
  <1>6. Keepalive \/ TakeOrder \/ handle_turn_done => UNCHANGED <<answered, dismissed>>
    BY DEF Keepalive, TakeOrder, handle_turn_done
  <1>7. ASSUME NEW j \in Id, Click(j) \/ Dismiss(j) PROVE UNCHANGED <<answered, dismissed>>
    BY <1>7 DEF Click, Dismiss
  <1>8. UNCHANGED vars => UNCHANGED <<answered, dismissed>>
    BY DEF vars
  <1> QED
    BY <1>1, <1>2, <1>3, <1>4, <1>5, <1>6, <1>7, <1>8 DEF Next, Emit

\* A prompt that is on record now was on record, or is shown by the heartbeat that is taken.
LEMMA OnRecordIsShown ==
    ASSUME TypeOK, SlotsAgree, [Next]_vars, NEW t \in Tool, OnRecord(t)'
    PROVE  OnRecord(t) \/ (Shows(1, t, Session) /\ handle_heartbeat)
  <1>1. PICK i \in Id : active'[i] # NoNote /\ active'[i].tool = t
    BY DEF OnRecord
  <1>2. IsApproval(active'[i])
    <2>1. t # Done
      BY NullsAreFresh DEF NullsAreFresh
    <2> QED
      BY <1>1, <2>1 DEF IsApproval
  <1>3. CASE active'[i] = active[i]
    BY <1>1, <1>3 DEF OnRecord
  <1>4. CASE handle_heartbeat /\ active'[i].session \in Session
             /\ Heartbeat(1)[active'[i].session] = active'[i].tool
    BY <1>1, <1>4 DEF Shows
  <1> QED
    BY <1>2, <1>3, <1>4, RecordIsShown

LEMMA FirstCounts == ASSUME TypeOK
                     PROVE  /\ 1 \in 1..Len(feed) + 1
                            /\ \A x \in 1..Len(feed) + 1 : x \in 1..Len(feed) + 1 /\ 1 \in 1..x
  <1>1. PICK n \in Nat : n = Len(feed)
    BY DEF TypeOK
  <1>2. 1 \in 1..n + 1 /\ \A x \in 1..n + 1 : 1 \in 1..x
    OBVIOUS
  <1> QED
    BY <1>1, <1>2

LEMMA KnownStep == ASSUME TypeOK, TypeOK', SlotsAgree, KnownInv, [Next]_vars PROVE KnownInv'
  <1> SUFFICES ASSUME NEW t \in Tool \ asked'
               PROVE  /\ t \notin answered' /\ ~OnRecord(t)'
                      /\ \A q \in 1..Len(feed') + 1 : ~Shows(q, t, Session)'
    BY DEF KnownInv
  <1>1. t \notin asked /\ t \notin answered /\ ~OnRecord(t)
        /\ \A q \in 1..Len(feed) + 1 : ~Shows(q, t, Session)
    BY AskedStays DEF KnownInv
  <1>2. ~Shows(1, t, Session)
    BY <1>1, FirstCounts
  <1>3. t \notin answered' /\ ~OnRecord(t)'
    BY <1>1, <1>2, Answers, OnRecordIsShown
  <1>4. ASSUME NEW q \in 1..Len(feed') + 1, Shows(q, t, Session)' PROVE FALSE
    <2>1. CASE Restart
      BY <1>4, <2>1, RestartShows
    <2>2. CASE ~Restart
      <3>1. Carried(t, Session)
        BY <2>2, StepCarries
      <3> QED
        BY <1>1, <1>4, <3>1 DEF Carried
    <2> QED
      BY <2>1, <2>2
  <1> QED
    BY <1>3, <1>4

LEMMA SeenStep ==
    ASSUME TypeOK, TypeOK', SlotsAgree, KnownInv, OnceInv, SeenInv, [Next]_vars
    PROVE  SeenInv'
  <1>1. ASSUME NEW t \in Tool, NEW C \in SUBSET Session, t \in asked, From(1, t, C)
        PROVE  From(1, t, C)'
    <2>1. CASE Restart
      BY <2>1, RestartShows
    <2>2. CASE ~Restart
      <3>1. Carried(t, C)
        BY <1>1, <2>2, StepCarries
      <3> QED
        BY <1>1, <3>1 DEF Carried
    <2> QED
      BY <2>1, <2>2
  <1>2. ASSUME NEW t \in Tool, NEW C \in SUBSET Session, Shows(1, t, C)
        PROVE  t \in asked /\ From(1, t, C)
    <2>1. Shows(1, t, Session)
      BY <1>2 DEF Shows
    <2> QED
      BY <1>2, <2>1, FirstCounts DEF KnownInv, OnceInv
  <1>3. ASSUME NEW t \in Tool, t \in answered' \/ OnRecord(t)'
        PROVE  From(1, t, Session)'
    <2>1. t \in answered \/ OnRecord(t) \/ Shows(1, t, Session)
      BY <1>3, Answers, OnRecordIsShown
    <2>2. t \in answered \/ OnRecord(t) => t \in asked /\ From(1, t, Session)
      BY DEF KnownInv, SeenInv
    <2>3. t \in asked /\ From(1, t, Session)
      BY <1>2, <2>1, <2>2
    <2> QED
      BY <1>1, <2>3
  <1>4. ASSUME NEW i \in Id, IsApproval(active'[i])
        PROVE  From(1, active[i].tool, {active[i].session})'
    <2>1. PICK n : n = active'[i]
      OBVIOUS
    <2>2. n \in Note /\ n.tool \in Tool /\ n.session \in Session
      BY <1>4, <2>1, NullFacts DEF TypeOK, MaybeNote, IsApproval
    <2>3. {n.session} \in SUBSET Session
      BY <2>2
    <2>4. CASE active'[i] = active[i]
      <3>1. IsApproval(active[i]) /\ active[i] = n
        BY <1>4, <2>1, <2>4
      <3>2. From(1, n.tool, {n.session})
        BY <3>1 DEF SeenInv
      <3>3. n.tool \in asked
        BY <2>2, <3>1 DEF KnownInv, OnRecord, IsApproval
      <3>4. From(1, n.tool, {n.session})'
        BY <1>1, <2>2, <2>3, <3>2, <3>3
      <3> QED
        BY <2>1, <3>4 DEF From, Shows
    <2>5. CASE handle_heartbeat /\ Heartbeat(1)[active'[i].session] = active'[i].tool
      <3>1. Shows(1, n.tool, {n.session})
        BY <2>1, <2>5 DEF Shows
      <3>2. n.tool \in asked /\ From(1, n.tool, {n.session})
        BY <1>2, <2>2, <2>3, <3>1
      <3>3. From(1, n.tool, {n.session})'
        BY <1>1, <2>2, <2>3, <3>2
      <3> QED
        BY <2>1, <3>3 DEF From, Shows
    <2> QED
      BY <1>4, <2>4, <2>5, RecordIsShown
  <1> QED
    BY <1>3, <1>4 DEF SeenInv, IsApproval

LEMMA GoneStep ==
    ASSUME TypeOK, TypeOK', SlotsAgree, KnownInv, SeenInv, GoneInv, [Next]_vars
    PROVE  GoneInv'
  <1> SUFFICES ASSUME NEW t \in answered' \ dismissed', NEW q \in 1..Len(feed') + 1, Shows(q, t, Session)'
               PROVE  FALSE
    BY DEF GoneInv
  <1>0. t \in Tool
    BY DEF TypeOK
  <1>1. t \in answered
    BY <1>0, Answers
  <1>2. t \in asked
    BY <1>0, <1>1 DEF KnownInv
  <1>3. ~Restart
    BY <1>0, RestartShows
  <1>4. Carried(t, Session)
    BY <1>0, <1>2, <1>3, StepCarries
  <1>5. PICK x \in 1..Len(feed) + 1 : Shows(x, t, Session)
    BY <1>4 DEF Carried
  <1>6. t \in dismissed
    BY <1>1, <1>5 DEF GoneInv
  <1>7. handle_heartbeat
    BY <1>0, <1>3, <1>6, Answers
  <1>8. ~Shows(1, t, Session)
    BY <1>6, <1>7, FirstIs DEF handle_heartbeat, StillDismissed, Shows
  <1>9. From(1, t, Session)
    BY <1>0, <1>1 DEF SeenInv
  <1> QED
    BY <1>5, <1>8, <1>9, FirstCounts DEF From

LEMMA InitPast == ASSUME Init PROVE PastInv
  <1>1. feed = <<>> /\ prompts = [s \in Session |-> NoTool] /\ answered = {}
        /\ \A i \in Id : active[i] = NoNote
    BY DEF Init
  <1>2. Len(feed) = 0 /\ NoTool \notin Tool
    BY <1>1, NullsAreFresh DEF NullsAreFresh
  <1>3. \A q : Heartbeat(q) = prompts
    BY <1>2 DEF Heartbeat
  <1>4. ASSUME NEW t \in Tool, NEW C \in SUBSET Session, NEW q PROVE ~Shows(q, t, C)
    BY <1>1, <1>2, <1>3 DEF Shows
  <1>5. KnownInv /\ OnceInv
    BY <1>1, <1>4 DEF KnownInv, OnceInv, OnRecord
  <1>6. SeenInv /\ GoneInv /\ LastInv
    BY <1>1 DEF SeenInv, GoneInv, LastInv, OnRecord, IsApproval
  <1> QED
    BY <1>5, <1>6 DEF PastInv

LEMMA PastHolds == Spec => []PastInv
  <1>1. TypeOK /\ TypeOK' /\ NotifyInv /\ PastInv /\ [Next]_vars => PastInv'
    BY KnownStep, OnceStep, SeenStep, GoneStep, LastStep DEF PastInv, NotifyInv
  <1> QED
    BY <1>1, InitPast, TypeCorrect, InvCorrect, PTL DEF Spec

\* What comes onto the screen comes from a heartbeat or a turn-done notice.
LEMMA ScreenShows ==
    ASSUME TypeOK, [Next]_vars, NEW i \in Id, screen'[i] # NoNote, screen'[i] # screen[i]
    PROVE  \/ screen'[i].tool = Done
           \/ handle_heartbeat /\ \E s \in ToPost(Head(feed)) : screen'[i].tool = Head(feed)[s]
  <1> USE DEF signals
  <1>1. CASE handle_heartbeat
    <2> DEFINE hb == Head(feed)
    <2>1. PICK posted, ids, gone : /\ Postable(posted, ids, hb, Stale(hb))
                                   /\ Display(posted, ids, hb, gone)
                                   /\ posted \subseteq ToPost(hb)
      BY <1>1, HeartbeatPosts
    <2>2. PICK s \in posted : ids[s] = i
      BY <2>1, DisplayFacts
    <2>3. screen'[i] = NewNote(s, hb)
      BY <2>1, <2>2, DisplayFacts
    <2> QED
      BY <1>1, <2>1, <2>3 DEF NewNote
  <1>2. CASE handle_turn_done
    <2>1. PICK posted, ids, tool : /\ Postable(posted, ids, tool, {}) /\ Display(posted, ids, tool, {})
                                   /\ \A s \in posted : tool[s] = Done
      BY <1>2, TurnDonePosts
    <2>2. PICK s \in posted : ids[s] = i
      BY <2>1, DisplayFacts
    <2>3. screen'[i] = NewNote(s, tool) /\ tool[s] = Done
      BY <2>1, <2>2, DisplayFacts
    <2> QED
      BY <2>3 DEF NewNote
  <1>3. ~(\E j \in Id : Click(j) \/ Dismiss(j))
    BY DEF Click, Dismiss, Take, TypeOK
  <1>4. ~Restart
    BY DEF Restart
  <1>5. ASSUME NEW c \in clicks, handle_action(c) PROVE FALSE
    BY <1>5 DEF handle_action
  <1>6. ASSUME NEW j \in Id, handle_closed(j) PROVE FALSE
    BY <1>6 DEF handle_closed
  <1>7. ASSUME NEW s \in Session, \/ \E u \in Tool : NewPrompt(s, u)
                                  \/ ClearPrompt(s) \/ TurnDone(s)
        PROVE  FALSE
    BY <1>7 DEF NewPrompt, ClearPrompt, TurnDone
  <1>8. ~Keepalive /\ ~TakeOrder /\ ~UNCHANGED vars
    BY DEF Keepalive, TakeOrder, vars
  <1> QED
    BY <1>1, <1>2, <1>3, <1>4, <1>5, <1>6, <1>7, <1>8 DEF Next, Emit

\* A prompt the emitter has seen answered or closed is not shown again: it stays
\* dismissed as long as a heartbeat under way may show it, and once one does not, none
\* after it does.
THEOREM NeverReposted == Spec => NoRepostAfterAnswer
  <1>1. ASSUME TypeOK, PastInv, [Next]_vars
        PROVE  [\A t \in answered : \A i \in Id :
                   screen'[i] # NoNote /\ screen'[i].tool = t => screen[i] = screen'[i]]_vars
    <2> SUFFICES ASSUME NEW t \in answered, NEW i \in Id, screen'[i] # NoNote, screen'[i].tool = t,
                        screen'[i] # screen[i]
                 PROVE  FALSE
      OBVIOUS
    <2>1. t \in Tool /\ t # Done
      BY <1>1, NullsAreFresh DEF TypeOK, NullsAreFresh
    <2>2. PICK s \in ToPost(Head(feed)) : handle_heartbeat /\ Head(feed)[s] = t
      BY <1>1, <2>1, ScreenShows
    <2>3. s \in Session /\ t \notin dismissed
      BY <2>2 DEF ToPost, StillDismissed
    <2>4. Shows(1, t, Session)
      BY <1>1, <2>2, <2>3, FirstIs DEF handle_heartbeat, Shows
    <2> QED
      BY <1>1, <2>3, <2>4, FirstCounts DEF PastInv, GoneInv
  <1> QED
    BY <1>1, TypeCorrect, PastHolds, PTL DEF Spec, NoRepostAfterAnswer

\* A heartbeat, old as it may be, closes or replaces an approval only if its prompt has
\* gone: the heartbeat shows something else for the session, so does each that follows,
\* and what it shows itself is what was posted last.
THEOREM OnlyResolvedClosed == Spec => HeartbeatClosesOnlyResolved
  <1>1. ASSUME TypeOK, SlotsAgree, PastInv
        PROVE  \A i \in Id : handle_heartbeat /\ IsApproval(active[i]) /\ active'[i] # active[i]
                                => prompts[active[i].session] # active[i].tool
    <2> SUFFICES ASSUME NEW i \in Id, handle_heartbeat, IsApproval(active[i]), active'[i] # active[i],
                        prompts[active[i].session] = active[i].tool
                 PROVE  FALSE
      OBVIOUS
    <2>1. PICK n : n = active[i]
      OBVIOUS
    <2>2. n # NoNote /\ n \in Note /\ n.tool \in Tool /\ n.session \in Session
      BY <1>1, <2>1, NullFacts DEF TypeOK, MaybeNote, IsApproval
    <2>3. n.session \in ToPost(Head(feed)) \cup Stale(Head(feed))
      BY <1>1, <2>1, <2>2, HeartbeatRecords
    <2>4. session_notif[n.session] = i /\ i # NoId
      BY <1>1, <2>1, <2>2, NullFacts DEF SlotsAgree
    <2>5. last_prompt_ids[n.session] = n.tool
      BY <1>1, <2>1 DEF PastInv, LastInv
    <2>6. Head(feed)[n.session] # n.tool
      BY <2>2, <2>3, <2>4, <2>5, NullsAreFresh DEF ToPost, Stale, NullsAreFresh
    <2>7. ~Shows(1, n.tool, {n.session})
      BY <1>1, <2>6, FirstIs DEF handle_heartbeat, Shows
    <2>8. Shows(Len(feed) + 1, n.tool, {n.session})
      BY <1>1, <2>1, Latest DEF Shows
    <2>9. From(1, n.tool, {n.session})
      BY <1>1, <2>1 DEF PastInv, SeenInv
    <2>10. PICK m \in Nat : m = Len(feed)
      BY <1>1 DEF TypeOK
    <2>11. m + 1 \in 1..m + 1 /\ 1 \in 1..m + 1
      OBVIOUS
    <2> QED
      BY <2>7, <2>8, <2>9, <2>10, <2>11 DEF From
  <1>2. TypeOK /\ SlotsAgree /\ PastInv
           => [\A i \in Id : handle_heartbeat /\ IsApproval(active[i]) /\ active'[i] # active[i]
                                => prompts[active[i].session] # active[i].tool]_vars
    BY <1>1
  <1> QED
    BY <1>2, TypeCorrect, SlotsCorrect, PastHolds, PTL DEF HeartbeatClosesOnlyResolved
=============================================================================
