------------------------ MODULE SettingsFilesProofs ------------------------
(***************************************************************************)
(* Theorems about the settings files, for any projects, patterns, hooks,   *)
(* processes and numbers of edits and faults.                              *)
(*                                                                         *)
(* That a file is never partial is not inductive by itself: it needs that  *)
(* the one process which saves it has the temporary file to itself and,    *)
(* once it has written, has its whole copy there (Prepared).               *)
(*                                                                         *)
(* That a save keeps the rest of the file needs what the copy was made     *)
(* from: a file nobody has touched since it was read is still that one     *)
(* (Intended), in a process that does the job its place is part of         *)
(* (Role).                                                                 *)
(*                                                                         *)
(* The walk through the log from its end is right because its counts are,  *)
(* at each line, what the later lines undo of each key and do not add      *)
(* (Balance).                                                              *)
(*                                                                         *)
(* An addition in a file can be undone while its key is known: its last    *)
(* line in the log is live and nobody has taken it (Spare), or a process   *)
(* that has taken it, or is about to log it, holds it (Reserved).          *)
(***************************************************************************)
EXTENDS SettingsFiles, FiniteSetTheorems, SequenceTheorems, WellFoundedInduction, TLAPS

Held(f) == spoiled[f] \subseteq {"edited"}

Whole(f) == /\ file[f].kind # "broken"
            /\ f # Config => \A c \in durable[f] : c.kind # "broken"
Alone(f) == \A p, q \in Process : Saving(p, f) /\ Saving(q, f) => p = q
Prepared(f) ==
    \A p \in Process : Saving(p, f) =>
       /\ job[p].copy.kind = "object"
       /\ pc[p] = "opened" => fd[p] = "tmp" /\ tmp[f] = Empty("broken")
       /\ pc[p] = "written" => tmp[f].kind = "object"

Safe(f) == Held(f) => Whole(f) /\ Alone(f) /\ Prepared(f)
SettingsInv == \A f \in File : Safe(f)

-----------------------------------------------------------------------------
(* Types. *)

LEMMA ContentFacts ==
    /\ \A kind \in Kind : Empty(kind) \in Content /\ Empty(kind).kind = kind
                          /\ Empty(kind).allow = {}
    /\ \A a \in SUBSET Pattern, h \in SUBSET HookEvent :
         Object(a, h) \in Content /\ Object(a, h).kind = "object"
    /\ \A c \in Content : c.kind \in Kind /\ c.allow \subseteq Pattern /\ c.hooks \subseteq HookEvent
    /\ "absent" \in Kind /\ "broken" \in Kind
  BY DEF Content, Empty, Object, Kind

LEMMA FileFacts == User \in File /\ Config \in File /\ Root \subseteq File
                   /\ Daemon \in Process /\ Cli \subseteq Process
  BY DEF File, Process

LEMMA JobFacts ==
    /\ NoJob \in Job /\ NoJob.file = User /\ NoJob.pattern \in Pattern
    /\ \A op \in {"none", "add", "undo", "setup", "config"}, f \in File,
          p \in Pattern, id \in Id, c \in Content :
         [op |-> op, file |-> f, pattern |-> p, id |-> id, copy |-> c] \in Job
    /\ \A j \in Job : /\ j.file \in File /\ j.pattern \in Pattern
                      /\ j.id \in Id /\ j.copy \in Content
    /\ 0 \in Id
  <1>1. NoJob.pattern \in Pattern
    BY PatternsAssumption DEF NoJob
  <1>2. 0 \in Id
    BY BoundsAssumption DEF Id
  <1>3. NoJob = [op |-> "none", file |-> User, pattern |-> NoJob.pattern, id |-> 0,
                 copy |-> Empty("absent")]
    BY DEF NoJob
  <1>4. NoJob \in Job
    BY <1>1, <1>2, <1>3, ContentFacts, FileFacts DEF Job
  <1> QED
    BY <1>1, <1>2, <1>4, FileFacts DEF Job, NoJob

LEMMA RowFacts ==
    ASSUME TypeOK, NEW op \in {"added", "undone", "fragment", "unreadable"}, NEW j \in Job
    PROVE  /\ Row(op, j) \in AuditLogRow
           /\ Append(log, Row(op, j)) \in Seq(AuditLogRow)
           /\ Glued => Append(Front(log), Row(op, j)) \in Seq(AuditLogRow)
  <1>1. Row(op, j) \in AuditLogRow
    BY JobFacts DEF Row, AuditLogRow, AuditTarget
  <1>2. log \in Seq(AuditLogRow)
    BY DEF TypeOK
  <1>3. ASSUME log # <<>> PROVE Front(log) \in Seq(AuditLogRow)
    <2>1. Len(log) \in Nat /\ Len(log) > 0
      BY <1>2, <1>3
    <2>2. SubSeq(log, 1, Len(log) - 1) \in Seq(AuditLogRow)
      BY <1>2, <2>1, SubSeqProperties
    <2> QED
      BY <2>2 DEF Front
  <1> QED
    BY <1>1, <1>2, <1>3 DEF Glued

\* The parts of TypeOK that the steps of one process may change.
JobsOK == pc' \in [Process -> Place] /\ job' \in [Process -> Job]
FilesOK == /\ file' \in [File -> Content] /\ tmp' \in [File -> Content]
           /\ durable' \in [File -> SUBSET Content]
           /\ fd' \in [Process -> {"none", "tmp", "file", "lost"}]

LEMMA GotoFacts ==
    ASSUME TypeOK, NEW p \in Process, NEW place \in Place
    PROVE  /\ goto(p, place) => JobsOK
           /\ \A j \in Job : start(p, j, place) => JobsOK
  BY DEF TypeOK, goto, start, JobsOK

LEMMA StopFacts ==
    ASSUME TypeOK, NEW p \in Process, stop(p)
    PROVE  JobsOK
  <1>1. "idle" \in Place
    BY DEF Place
  <1> QED
    BY <1>1, JobFacts, GotoFacts DEF stop

LEMMA SpendFacts ==
    ASSUME TypeOK, NEW b \in Bound, spend(b)
    PROVE  left' \in [Bound -> Nat]
  <1>1. left \in [Bound -> Nat] /\ left' = [left EXCEPT ![b] = @ - 1] /\ left[b] > 0
    BY DEF TypeOK, spend
  <1>2. left[b] \in Nat
    BY <1>1
  <1>3. left[b] - 1 \in Nat
    BY <1>1, <1>2
  <1> QED
    BY <1>1, <1>3

LEMMA SpoilFacts ==
    ASSUME TypeOK, NEW f \in File, NEW cause \in Cause, NEW when, spoil(f, cause, when)
    PROVE  spoiled' \in [File -> SUBSET Cause]
  <1>1. (IF when THEN spoiled[f] \cup {cause} ELSE spoiled[f]) \in SUBSET Cause
    BY DEF TypeOK
  <1> QED
    BY <1>1 DEF TypeOK, spoil

LEMMA LoadFacts ==
    ASSUME TypeOK, NEW p \in Process, NEW op \in {"add", "undo", "setup", "config"},
           NEW f \in File, NEW pattern \in Pattern, NEW id \in Id, NEW c \in Content,
           load(p, op, f, pattern, id, c)
    PROVE  JobsOK /\ spoiled' \in [File -> SUBSET Cause]
  <1>1. [op |-> op, file |-> f, pattern |-> pattern, id |-> id, copy |-> c] \in Job
    BY JobFacts
  <1>2. "loaded" \in Place /\ "overlap" \in Cause
    BY DEF Place, Cause
  <1>3. JobsOK
    BY <1>1, <1>2, GotoFacts DEF load
  <1>4. spoiled' \in [File -> SUBSET Cause]
    BY <1>2, SpoilFacts DEF load
  <1> QED
    BY <1>3, <1>4

LEMMA PutFacts ==
    ASSUME TypeOK, NEW p \in Process, NEW new \in Content, put(p, new)
    PROVE  FilesOK
  <1>1. job[p].file \in File /\ durable[job[p].file] \cup {new} \in SUBSET Content
    BY JobFacts DEF TypeOK
  <1>2. tmp' \in [File -> Content] /\ file' \in [File -> Content]
    BY <1>1 DEF TypeOK, put
  <1>3. durable' \in [File -> SUBSET Content]
    BY <1>1 DEF TypeOK, put
  <1>4. fd' \in [Process -> {"none", "tmp", "file", "lost"}]
    BY DEF TypeOK, put
  <1> QED
    BY <1>2, <1>3, <1>4 DEF FilesOK

LEMMA OverwrittenFacts ==
    ASSUME TypeOK, NEW p \in Process, NEW old
    PROVE  overwritten(p, old) \subseteq Content
  BY JobFacts, ContentFacts DEF TypeOK, overwritten

\* Every variable keeps its type.
THEOREM TypeCorrect == Spec => []TypeOK
<1>1. Init => TypeOK
  <2> SUFFICES ASSUME Init PROVE TypeOK
    OBVIOUS
  <2>1. log \in Seq(AuditLogRow)
    BY LogsAssumption DEF Init
  <2>2. \A f \in File : Logged(f) \subseteq Pattern
    <3>1. \A i \in DOMAIN log : log[i] \in AuditLogRow
      BY <2>1
    <3> QED
      BY <3>1 DEF Logged, AuditLogRow
  <2>3. file \in [File -> Content]
    BY <2>2, ContentFacts DEF Init
  <2>4. tmp \in [File -> Content] /\ durable \in [File -> SUBSET Content]
    BY <2>3, ContentFacts DEF Init
  <2>5. left \in [Bound -> Nat]
    BY BoundsAssumption DEF Init, Bound
  <2>6. pc \in [Process -> Place] /\ job \in [Process -> Job]
        /\ fd \in [Process -> {"none", "tmp", "file", "lost"}]
    BY JobFacts DEF Init, Place
  <2>7. spoiled \in [File -> SUBSET Cause] /\ byHand \in [File -> SUBSET Pattern]
        /\ unlogged \subseteq Pattern
    BY DEF Init
  <2> QED
    BY <2>1, <2>3, <2>4, <2>5, <2>6, <2>7 DEF TypeOK
<1>2. ASSUME TypeOK, [Next]_vars PROVE TypeOK'
  <2> USE <1>2
  <2>0. \A p \in Process : job[p] \in Job
    BY DEF TypeOK
  <2>1. ASSUME NEW r \in Root, NEW p \in Pattern, NEW id \in Id \ {0}, Always(r, p, id)
        PROVE  TypeOK'
    <3>1. r \in File /\ "always" \in Bound /\ Daemon \in Process
      BY FileFacts DEF Bound
    <3>2. Object(file[r].allow \cup {p}, file[r].hooks) \in Content
      BY <3>1, ContentFacts DEF TypeOK
    <3>3. JobsOK /\ spoiled' \in [File -> SUBSET Cause]
      BY <2>1, <3>1, <3>2, LoadFacts DEF Always
    <3>4. left' \in [Bound -> Nat]
      BY <2>1, <3>1, SpendFacts DEF Always
    <3> QED
      BY <2>1, <3>3, <3>4 DEF TypeOK, Always, JobsOK
  <2>2. ASSUME AppendAdded PROVE TypeOK'
    <3>1. JobsOK
      BY <2>2, FileFacts, StopFacts DEF AppendAdded
    <3>2. log' \in Seq(AuditLogRow)
      BY <2>2, <2>0, FileFacts, RowFacts DEF AppendAdded, append_audit_entry
    <3>3. unlogged' \subseteq Pattern
      BY <2>2, <2>0, FileFacts, JobFacts DEF AppendAdded, TypeOK
    <3> QED
      BY <2>2, <3>1, <3>2, <3>3 DEF AppendAdded, TypeOK, JobsOK
  <2>3. ASSUME NEW c \in Cli, Command(c) PROVE TypeOK'
    <3>0. c \in Process /\ job[c] \in Job /\ "commands" \in Bound /\ file[job[c].file] \in Content
          /\ file[User] \in Content
      BY <2>0, FileFacts, JobFacts DEF Bound, TypeOK
    <3>1. ASSUME Undo(c) PROVE TypeOK'
      <4>1. PICK row \in AuditLogRow :
              /\ validate_audit_root(row.target)
              /\ start(c, [op |-> "undo", file |-> row.target, pattern |-> row.pattern,
                           id |-> row.id, copy |-> Empty("absent")], "found")
        BY <3>1 DEF Undo
      <4>2. row.target \in File /\ row.pattern \in Pattern /\ row.id \in Id
        BY <4>1 DEF AuditLogRow, validate_audit_root
      <4>3. [op |-> "undo", file |-> row.target, pattern |-> row.pattern,
             id |-> row.id, copy |-> Empty("absent")] \in Job
        BY <4>2, JobFacts, ContentFacts
      <4>4. "found" \in Place
        BY DEF Place
      <4>5. JobsOK
        BY <3>0, <4>1, <4>3, <4>4, GotoFacts
      <4>6. left' \in [Bound -> Nat]
        BY <3>0, <3>1, SpendFacts DEF Undo
      <4> QED
        BY <3>1, <4>5, <4>6 DEF Undo, TypeOK, JobsOK, history
    <3>2. ASSUME UndoRefuses(c) PROVE TypeOK'
      BY <3>0, <3>2, StopFacts DEF UndoRefuses, TypeOK, JobsOK, history
    <3>3. ASSUME UndoFindsNothing(c) PROVE TypeOK'
      <4>1. "append" \in Place
        BY DEF Place
      <4> QED
        BY <3>0, <3>3, <4>1, GotoFacts DEF UndoFindsNothing, TypeOK, JobsOK, history
    <3>4. ASSUME UndoLoads(c) PROVE TypeOK'
      <4>1. Object(file[job[c].file].allow \ {job[c].pattern}, file[job[c].file].hooks) \in Content
        BY <3>0, ContentFacts
      <4>2. JobsOK /\ spoiled' \in [File -> SUBSET Cause]
        BY <3>0, <3>4, <4>1, JobFacts, LoadFacts DEF UndoLoads
      <4> QED
        BY <3>4, <4>2 DEF UndoLoads, TypeOK, JobsOK
    <3>5. ASSUME AppendUndone(c) PROVE TypeOK'
      <4>1. JobsOK
        BY <3>0, <3>5, StopFacts DEF AppendUndone
      <4>2. log' \in Seq(AuditLogRow)
        BY <3>0, <3>5, RowFacts DEF AppendUndone, append_audit_entry
      <4>3. unlogged' \subseteq Pattern
        BY <3>0, <3>5, JobFacts DEF AppendUndone, TypeOK
      <4> QED
        BY <3>5, <4>1, <4>2, <4>3 DEF AppendUndone, TypeOK, JobsOK
    <3>6. ASSUME Setup(c) PROVE TypeOK'
      <4>1. Object(file[User].allow, HookEvent) \in Content
        BY <3>0, ContentFacts
      <4>2. JobsOK /\ spoiled' \in [File -> SUBSET Cause]
        BY <3>0, <3>6, <4>1, JobFacts, FileFacts, LoadFacts DEF Setup
      <4>3. left' \in [Bound -> Nat]
        BY <3>0, <3>6, SpendFacts DEF Setup
      <4> QED
        BY <3>6, <4>2, <4>3 DEF Setup, TypeOK, JobsOK
    <3>7. ASSUME SetupHasHooks(c) PROVE TypeOK'
      <4>1. JobsOK
        BY <3>0, <3>7, GotoFacts DEF SetupHasHooks, Place
      <4>2. left' \in [Bound -> Nat]
        BY <3>0, <3>7, SpendFacts DEF SetupHasHooks
      <4> QED
        BY <3>7, <4>1, <4>2 DEF SetupHasHooks, TypeOK, JobsOK, history
    <3>8. ASSUME WriteConfig(c) PROVE TypeOK'
      <4>1. Object({}, {}) \in Content
        BY ContentFacts
      <4>2. JobsOK /\ spoiled' \in [File -> SUBSET Cause]
        BY <3>0, <3>8, <4>1, JobFacts, FileFacts, LoadFacts DEF WriteConfig
      <4> QED
        BY <3>8, <4>2 DEF WriteConfig, TypeOK, JobsOK
    <3>9. ASSUME KeepConfig(c) PROVE TypeOK'
      BY <3>0, <3>9, StopFacts DEF KeepConfig, TypeOK, JobsOK, history
    <3> QED
      BY <2>3, <3>1, <3>2, <3>3, <3>4, <3>5, <3>6, <3>7, <3>8, <3>9 DEF Command
  <2>4. ASSUME NEW p \in Process, Save(p) PROVE TypeOK'
    <3>0. job[p] \in Job /\ job[p].file \in File /\ "troubles" \in Bound
          /\ {"opened", "written", "renamed", "config", "append"} \subseteq Place
          /\ Empty("broken") \in Content /\ Empty("absent") \in Content
      BY <2>0, JobFacts, ContentFacts DEF Bound, Place
    <3>1. ASSUME OpenTmp(p) PROVE TypeOK'
      <4>1. JobsOK
        BY <3>0, <3>1, GotoFacts DEF OpenTmp
      <4>2. tmp' \in [File -> Content] /\ fd' \in [Process -> {"none", "tmp", "file", "lost"}]
        BY <3>0, <3>1 DEF OpenTmp, TypeOK
      <4> QED
        BY <3>1, <4>1, <4>2 DEF OpenTmp, TypeOK, JobsOK, history
    <3>2. ASSUME WriteTmp(p) PROVE TypeOK'
      <4>1. FilesOK
        BY <3>2, OverwrittenFacts, PutFacts DEF WriteTmp
      <4>2. JobsOK
        BY <3>0, <3>2, GotoFacts DEF WriteTmp
      <4> QED
        BY <3>2, <4>1, <4>2 DEF WriteTmp, TypeOK, JobsOK, FilesOK, history
    <3>3. ASSUME WriteFails(p) PROVE TypeOK'
      <4>1. FilesOK
        BY <3>0, <3>3, PutFacts DEF WriteFails
      <4>2. JobsOK
        BY <3>3, StopFacts DEF WriteFails
      <4>3. left' \in [Bound -> Nat]
        BY <3>0, <3>3, SpendFacts DEF WriteFails
      <4> QED
        BY <3>3, <4>1, <4>2, <4>3 DEF WriteFails, TypeOK, JobsOK, FilesOK, history
    <3>4. ASSUME Rename(p) PROVE TypeOK'
      <4>1. JobsOK
        BY <3>0, <3>4, GotoFacts, StopFacts DEF Rename
      <4>2. tmp' \in [File -> Content] /\ file' \in [File -> Content]
        BY <3>0, <3>4 DEF Rename, TypeOK
      <4>3. durable' \in [File -> SUBSET Content]
        BY <3>0, <3>4 DEF Rename, TypeOK
      <4>4. fd' \in [Process -> {"none", "tmp", "file", "lost"}]
        BY <3>4 DEF Rename, TypeOK
      <4> QED
        BY <3>4, <4>1, <4>2, <4>3, <4>4 DEF Rename, TypeOK, JobsOK, history
    <3>5. ASSUME RenameFails(p) PROVE TypeOK'
      BY <3>5, StopFacts DEF RenameFails, TypeOK, JobsOK, history
    <3>6. ASSUME SyncDir(p) PROVE TypeOK'
      <4>1. JobsOK
        BY <3>0, <3>6, GotoFacts DEF SyncDir, saved
      <4>2. durable' \in [File -> SUBSET Content]
        BY <3>0, <3>6 DEF SyncDir, TypeOK
      <4> QED
        BY <3>6, <4>1, <4>2 DEF SyncDir, TypeOK, JobsOK, history
    <3>7. ASSUME SyncFails(p) PROVE TypeOK'
      <4>1. JobsOK
        BY <3>0, <3>7, GotoFacts DEF SyncFails, saved
      <4>2. left' \in [Bound -> Nat]
        BY <3>0, <3>7, SpendFacts DEF SyncFails
      <4> QED
        BY <3>7, <4>1, <4>2 DEF SyncFails, TypeOK, JobsOK, history
    <3>8. ASSUME AppendFails(p) PROVE TypeOK'
      <4>1. JobsOK
        BY <3>8, StopFacts DEF AppendFails
      <4>2. left' \in [Bound -> Nat]
        BY <3>0, <3>8, SpendFacts DEF AppendFails
      <4>3. log' \in Seq(AuditLogRow)
        <5>1. log \in Seq(AuditLogRow) /\ Append(log, Row("fragment", job[p])) \in Seq(AuditLogRow)
          BY <3>0, RowFacts DEF TypeOK
        <5> QED
          BY <3>8, <5>1 DEF AppendFails
      <4>4. unlogged' \subseteq Pattern
        BY <3>0, <3>8, JobFacts DEF AppendFails, TypeOK
      <4> QED
        BY <3>8, <4>1, <4>2, <4>3, <4>4 DEF AppendFails, TypeOK, JobsOK
    <3>9. ASSUME Dies(p) PROVE TypeOK'
      <4>1. JobsOK
        BY <3>9, StopFacts DEF Dies
      <4>2. left' \in [Bound -> Nat]
        BY <3>0, <3>9, SpendFacts DEF Dies
      <4>3. unlogged' \subseteq Pattern
        BY <3>0, <3>9, JobFacts DEF Dies, TypeOK
      <4>4. fd' \in [Process -> {"none", "tmp", "file", "lost"}]
        BY <3>9 DEF Dies, TypeOK
      <4> QED
        BY <3>9, <4>1, <4>2, <4>3, <4>4 DEF Dies, TypeOK, JobsOK
    <3> QED
      BY <2>4, <3>1, <3>2, <3>3, <3>4, <3>5, <3>6, <3>7, <3>8, <3>9 DEF Save
  <2>5. ASSUME PowerLoss PROVE TypeOK'
    <3>0. PICK f \in File : \E c \in durable[f] :
            file' = [file EXCEPT ![f] = c] /\ spoil(f, "unsynced", f = Config /\ c.kind = "broken")
      BY <2>5 DEF PowerLoss
    <3>1. PICK c \in durable[f] :
            file' = [file EXCEPT ![f] = c] /\ spoil(f, "unsynced", f = Config /\ c.kind = "broken")
      BY <3>0
    <3>2. c \in Content
      BY DEF TypeOK
    <3>3. file' \in [File -> Content]
      BY <3>1, <3>2 DEF TypeOK
    <3>4. durable' \in [File -> SUBSET Content]
      BY <2>5, <3>3 DEF PowerLoss
    <3>5. spoiled' \in [File -> SUBSET Cause]
      BY <3>1, SpoilFacts DEF Cause
    <3>6. log' \in Seq(AuditLogRow)
      <4>1. PICK n \in 0..Len(log) : log' = SubSeq(log, 1, n)
        BY <2>5 DEF PowerLoss
      <4>2. log \in Seq(AuditLogRow) /\ Len(log) \in Nat
        BY DEF TypeOK
      <4> QED
        BY <4>1, <4>2, SubSeqProperties
    <3>7. unlogged' \subseteq Pattern
      <4>1. \A i \in DOMAIN log : log[i].pattern \in Pattern
        <5>1. \A i \in DOMAIN log : log[i] \in AuditLogRow
          BY DEF TypeOK
        <5> QED
          BY <5>1 DEF AuditLogRow
      <4>2. \A p \in Process : job[p].pattern \in Pattern
        BY <2>0, JobFacts
      <4>3. UNION {file'[g].allow \ file[g].allow : g \in File} \subseteq Pattern
        BY <3>3, ContentFacts
      <4> QED
        BY <2>5, <4>1, <4>2, <4>3 DEF PowerLoss, TypeOK
    <3>8. JobsOK /\ fd' \in [Process -> {"none", "tmp", "file", "lost"}]
      BY <2>5, JobFacts DEF PowerLoss, JobsOK, Place
    <3>9. left' \in [Bound -> Nat]
      BY <2>5, SpendFacts DEF PowerLoss, Bound
    <3> QED
      BY <2>5, <3>3, <3>4, <3>5, <3>6, <3>7, <3>8, <3>9 DEF PowerLoss, TypeOK, JobsOK
  <2>6. ASSUME NEW f \in File, UserEdits(f) PROVE TypeOK'
    <3>1. file[f] \in Content
      BY DEF TypeOK
    <3>2. \A new \in Revised(f, file[f]) : new \in Content
      <4>1. \A S \in SUBSET Pattern, x \in Pattern : toggle(S, x) \in SUBSET Pattern
        BY DEF toggle
      <4>2. \A S \in SUBSET HookEvent, x \in HookEvent : toggle(S, x) \in SUBSET HookEvent
        BY DEF toggle
      <4> QED
        BY <3>1, <4>1, <4>2, ContentFacts DEF Revised
    <3>3. PICK new \in Content :
            /\ file' = [file EXCEPT ![f] = new] /\ durable' = [durable EXCEPT ![f] = {new}]
            /\ byHand' = [byHand EXCEPT ![f] = @ \cup (new.allow \ file[f].allow)]
            /\ spoiled' = [spoiled EXCEPT ![f] =
                   @ \cup (IF new.kind = "broken" THEN {"user"} ELSE {})
                     \cup (IF \E p \in Process : Saving(p, f) THEN {"edited"} ELSE {})]
      BY <2>6, <3>2 DEF UserEdits
    <3>4. file' \in [File -> Content] /\ durable' \in [File -> SUBSET Content]
      BY <3>3 DEF TypeOK
    <3>5. byHand' \in [File -> SUBSET Pattern]
      BY <3>3, ContentFacts DEF TypeOK
    <3>6. spoiled' \in [File -> SUBSET Cause]
      BY <3>3 DEF TypeOK, Cause
    <3>7. left' \in [Bound -> Nat]
      BY <2>6, SpendFacts DEF UserEdits, Bound
    <3> QED
      BY <2>6, <3>4, <3>5, <3>6, <3>7 DEF UserEdits, TypeOK
  <2>7. ASSUME UNCHANGED vars PROVE TypeOK'
    BY <2>7 DEF vars, history, TypeOK
  <2> QED
    BY <2>1, <2>2, <2>3, <2>4, <2>5, <2>6, <2>7 DEF Next
<1> QED
  BY <1>1, <1>2, PTL DEF Spec

-----------------------------------------------------------------------------
(* Files stay whole. *)

\* A step that leaves f and its temporary file alone, and makes nobody save f,
\* keeps f safe.
LEMMA Frame ==
    ASSUME NEW f \in File, Safe(f), spoiled[f] \subseteq spoiled'[f],
           file'[f] = file[f], durable'[f] = durable[f], tmp'[f] = tmp[f],
           \A p \in Process : Saving(p, f)' =>
              Saving(p, f) /\ pc'[p] = pc[p] /\ job'[p] = job[p] /\ fd'[p] = fd[p]
    PROVE  Safe(f)'
  <1> SUFFICES ASSUME Held(f)' PROVE (Whole(f) /\ Alone(f) /\ Prepared(f))'
    BY DEF Safe
  <1>1. Whole(f) /\ Alone(f) /\ Prepared(f)
    BY DEF Safe, Held
  <1>2. Whole(f)'
    BY <1>1 DEF Whole
  <1>3. Alone(f)'
    BY <1>1 DEF Alone
  <1>4. Prepared(f)'
    BY <1>1 DEF Prepared
  <1> QED
    BY <1>2, <1>3, <1>4

\* What a step of p does to the other processes, and to who saves what.
LEMMA Others ==
    ASSUME TypeOK, NEW p \in Process, NEW place \in Place, NEW j \in Job
    PROVE  /\ start(p, j, place) =>
                /\ pc'[p] = place /\ job'[p] = j
                /\ \A q \in Process \ {p} : pc'[q] = pc[q] /\ job'[q] = job[q]
           /\ goto(p, place) =>
                /\ pc'[p] = place /\ job' = job
                /\ \A q \in Process \ {p} : pc'[q] = pc[q]
  BY DEF TypeOK, start, goto

LEMMA Stopped ==
    ASSUME TypeOK, NEW p \in Process, stop(p)
    PROVE  /\ \A q \in Process \ {p} : pc'[q] = pc[q] /\ job'[q] = job[q]
           /\ \A f \in File : ~Saving(p, f)'
  <1>1. "idle" \in Place /\ NoJob \in Job
    BY JobFacts DEF Place
  <1>2. pc'[p] = "idle" /\ \A q \in Process \ {p} : pc'[q] = pc[q] /\ job'[q] = job[q]
    BY <1>1, Others DEF stop
  <1> QED
    BY <1>2 DEF Saving

\* A load makes p save f, and spoils f when another saves it.
LEMMA LoadSafe ==
    ASSUME TypeOK, NEW p \in Process, NEW op \in {"add", "undo", "setup", "config"},
           NEW f0 \in File, NEW pattern \in Pattern, NEW id \in Id, NEW c \in Content,
           c.kind = "object", load(p, op, f0, pattern, id, c),
           UNCHANGED <<file, durable, tmp, fd>>, NEW f \in File, Safe(f)
    PROVE  Safe(f)'
  <1>1. "loaded" \in Place
        /\ [op |-> op, file |-> f0, pattern |-> pattern, id |-> id, copy |-> c] \in Job
    BY JobFacts DEF Place
  <1>2. /\ pc'[p] = "loaded"
        /\ job'[p] = [op |-> op, file |-> f0, pattern |-> pattern, id |-> id, copy |-> c]
        /\ \A q \in Process \ {p} : pc'[q] = pc[q] /\ job'[q] = job[q]
    BY <1>1, Others DEF load
  <1>3. \A q \in Process \ {p} : Saving(q, f)' <=> Saving(q, f)
    BY <1>2 DEF Saving
  <1>4. spoiled[f] \subseteq spoiled'[f]
    BY DEF load, spoil, TypeOK
  <1>5. CASE f # f0
    <2>1. ~Saving(p, f)'
      BY <1>2, <1>5 DEF Saving
    <2> QED
      BY <1>2, <1>3, <1>4, <2>1, Frame
  <1>6. CASE f = f0
    <2> SUFFICES ASSUME Held(f)' PROVE (Whole(f) /\ Alone(f) /\ Prepared(f))'
      BY DEF Safe
    <2>1. Whole(f) /\ Prepared(f)
      BY <1>4 DEF Safe, Held
    <2>2. \A q \in Process \ {p} : ~Saving(q, f)
      BY <1>6 DEF load, spoil, Held, TypeOK
    <2>3. Whole(f)'
      BY <2>1 DEF Whole
    <2>4. Alone(f)'
      BY <1>3, <2>2 DEF Alone
    <2>5. Prepared(f)'
      <3>1. job'[p].copy.kind = "object" /\ pc'[p] # "opened" /\ pc'[p] # "written"
        BY <1>2
      <3> QED
        BY <1>3, <2>2, <3>1 DEF Prepared
    <2> QED
      BY <2>3, <2>4, <2>5
  <1> QED
    BY <1>5, <1>6

\* A step of p in which p saves nothing afterwards and no file is touched.
LEMMA Idle ==
    ASSUME TypeOK, NEW p \in Process, UNCHANGED <<file, durable, tmp, spoiled>>,
           \A q \in Process \ {p} : pc'[q] = pc[q] /\ job'[q] = job[q] /\ fd'[q] = fd[q],
           NEW f \in File, Safe(f), ~Saving(p, f)'
    PROVE  Safe(f)'
  <1>1. \A q \in Process \ {p} : Saving(q, f)' <=> Saving(q, f)
    BY DEF Saving
  <1> QED
    BY <1>1, Frame

\* The steps of a save, for the file of p and for any other.
LEMMA SaveSafe ==
    ASSUME TypeOK, NEW p \in Process, OpenTmp(p) \/ WriteTmp(p) \/ WriteFails(p) \/ Rename(p),
           NEW f \in File, Safe(f)
    PROVE  Safe(f)'
  <1>0. job[p] \in Job /\ job[p].file \in File /\ spoiled' = spoiled
        /\ {"opened", "written", "renamed"} \subseteq Place
    BY JobFacts DEF TypeOK, OpenTmp, WriteTmp, WriteFails, Rename, history, Place
  <1>1. \A q \in Process \ {p} : pc'[q] = pc[q] /\ job'[q] = job[q]
    BY <1>0, Others, Stopped DEF OpenTmp, WriteTmp, WriteFails, Rename
  <1>2. \A q \in Process \ {p} : Saving(q, f)' <=> Saving(q, f)
    BY <1>1 DEF Saving
  <1>3. pc[p] \in {"loaded", "opened", "written"}
    BY DEF OpenTmp, WriteTmp, WriteFails, Rename
  <1>4. CASE f # job[p].file
    <2>1. file'[f] = file[f] /\ durable'[f] = durable[f] /\ tmp'[f] = tmp[f]
      BY <1>0, <1>4 DEF TypeOK, OpenTmp, WriteTmp, WriteFails, Rename, put
    <2>2. \A q \in Process \ {p} : job[q].file = f => fd'[q] = fd[q]
      BY <1>0, <1>4 DEF TypeOK, OpenTmp, WriteTmp, WriteFails, Rename, put
    <2>3. ~Saving(p, f)'
      <3>1. job'[p] = job[p] \/ stop(p)
        BY DEF OpenTmp, WriteTmp, WriteFails, Rename, goto
      <3> QED
        BY <1>4, <3>1, Stopped DEF Saving
    <2>4. \A q \in Process : Saving(q, f)' =>
             Saving(q, f) /\ pc'[q] = pc[q] /\ job'[q] = job[q] /\ fd'[q] = fd[q]
      BY <1>1, <1>2, <2>2, <2>3 DEF Saving
    <2> QED
      BY <1>0, <2>1, <2>4, Frame
  <1>5. CASE f = job[p].file
    <2> SUFFICES ASSUME Held(f) PROVE (Whole(f) /\ Alone(f) /\ Prepared(f))'
      BY <1>0 DEF Safe, Held
    <2>1. Whole(f) /\ Alone(f) /\ Prepared(f)
      BY DEF Safe
    <2>2. Saving(p, f)
      BY <1>3, <1>5 DEF Saving
    <2>3. \A q \in Process \ {p} : ~Saving(q, f) /\ ~Saving(q, f)'
      BY <1>2, <2>1, <2>2 DEF Alone
    <2>4. Alone(f)'
      BY <2>3 DEF Alone
    <2>5. job[p].copy.kind = "object"
      BY <2>1, <2>2 DEF Prepared
    <2>6. ASSUME OpenTmp(p) PROVE Whole(f)' /\ Prepared(f)'
      <3>1. Whole(f)'
        BY <2>1, <2>6 DEF OpenTmp, Whole
      <3>2. pc'[p] = "opened" /\ job'[p] = job[p]
        BY <1>0, <2>6, Others DEF OpenTmp
      <3>3. fd'[p] = "tmp" /\ tmp'[f] = Empty("broken")
        BY <1>5, <2>6 DEF OpenTmp, TypeOK
      <3> QED
        BY <2>3, <2>5, <3>1, <3>2, <3>3 DEF Prepared
    <2>7. ASSUME WriteTmp(p) PROVE Whole(f)' /\ Prepared(f)'
      <3>1. pc[p] = "opened" /\ fd[p] = "tmp" /\ tmp[f] = Empty("broken")
        BY <2>1, <2>2, <2>7 DEF WriteTmp, Prepared
      <3>2. put(p, job[p].copy)
        BY <1>5, <2>7, <3>1 DEF WriteTmp, overwritten
      <3>3. file' = file /\ durable' = durable /\ tmp'[f] = job[p].copy
        BY <1>5, <3>1, <3>2 DEF put, TypeOK
      <3>4. pc'[p] = "written" /\ job'[p] = job[p]
        BY <1>0, <2>7, Others DEF WriteTmp
      <3> QED
        BY <2>1, <2>3, <2>5, <3>3, <3>4 DEF Whole, Prepared
    <2>8. ASSUME WriteFails(p) PROVE Whole(f)' /\ Prepared(f)'
      <3>1. fd[p] = "tmp"
        BY <2>1, <2>2, <2>8 DEF WriteFails, Prepared
      <3>2. file' = file /\ durable' = durable
        BY <2>8, <3>1 DEF WriteFails, put
      <3>3. ~Saving(p, f)'
        BY <2>8, Stopped DEF WriteFails
      <3> QED
        BY <2>1, <2>3, <3>2, <3>3 DEF Whole, Prepared
    <2>9. ASSUME Rename(p) PROVE Whole(f)' /\ Prepared(f)'
      <3>1. tmp[f].kind = "object"
        BY <2>1, <2>2, <2>9 DEF Rename, Prepared
      <3>2. file'[f] = tmp[f]
        BY <1>5, <2>9 DEF Rename, TypeOK
      <3>3. f # Config => durable'[f] = durable[f] \cup {tmp[f]}
        BY <1>5, <2>9 DEF Rename, TypeOK
      <3>4. ~Saving(p, f)'
        <4>1. ASSUME goto(p, "renamed") PROVE ~Saving(p, f)'
          BY <1>0, <4>1, Others DEF Saving
        <4> QED
          BY <2>9, <4>1, Stopped DEF Rename
      <3>5. Whole(f)'
        BY <2>1, <3>1, <3>2, <3>3 DEF Whole
      <3> QED
        BY <2>3, <3>4, <3>5 DEF Prepared
    <2> QED
      BY <2>4, <2>6, <2>7, <2>8, <2>9
  <1> QED
    BY <1>4, <1>5

\* The inductive invariant: a file that only whole saves have touched is whole,
\* and so is what a power loss may leave and what is about to be renamed.
THEOREM SettingsInvariant == Spec => []SettingsInv
<1>1. Init => SettingsInv
  <2> SUFFICES ASSUME Init, NEW f \in File PROVE Safe(f)
    BY DEF SettingsInv
  <2>1. file[f].kind # "broken" /\ durable[f] = {file[f]}
    BY ContentFacts DEF Init, Empty, Object
  <2>2. \A p \in Process : ~Saving(p, f)
    BY DEF Init, Saving
  <2> QED
    BY <2>1, <2>2 DEF Safe, Whole, Alone, Prepared
<1>2. ASSUME TypeOK, SettingsInv, [Next]_vars PROVE SettingsInv'
  <2> SUFFICES ASSUME NEW f \in File PROVE Safe(f)'
    BY DEF SettingsInv
  <2> USE <1>2
  <2>0. Safe(f) /\ \A p \in Process : job[p] \in Job
    BY DEF SettingsInv, TypeOK
  <2>1. ASSUME NEW r \in Root, NEW p \in Pattern, NEW id \in Id \ {0}, Always(r, p, id)
        PROVE  Safe(f)'
    <3>1. r \in File /\ Daemon \in Process
      BY FileFacts
    <3>2. /\ Object(file[r].allow \cup {p}, file[r].hooks) \in Content
          /\ Object(file[r].allow \cup {p}, file[r].hooks).kind = "object"
      BY <3>1, ContentFacts DEF TypeOK
    <3> QED
      BY <2>0, <2>1, <3>1, <3>2, LoadSafe DEF Always
  <2>2. ASSUME AppendAdded PROVE Safe(f)'
    BY <2>0, <2>2, FileFacts, Stopped, Idle DEF AppendAdded
  <2>3. ASSUME NEW c \in Cli, Command(c) PROVE Safe(f)'
    <3>0. c \in Process /\ file[job[c].file] \in Content /\ file[User] \in Content
          /\ job[c].file \in File /\ job[c].pattern \in Pattern /\ job[c].id \in Id
      BY <2>0, FileFacts, JobFacts DEF TypeOK
    <3>1. ASSUME Undo(c) PROVE Safe(f)'
      <4>1. PICK row \in AuditLogRow :
              /\ validate_audit_root(row.target)
              /\ start(c, [op |-> "undo", file |-> row.target, pattern |-> row.pattern,
                           id |-> row.id, copy |-> Empty("absent")], "found")
        BY <3>1 DEF Undo
      <4>2. row.target \in File /\ row.pattern \in Pattern /\ row.id \in Id
        BY <4>1 DEF AuditLogRow, validate_audit_root
      <4>3. [op |-> "undo", file |-> row.target, pattern |-> row.pattern,
             id |-> row.id, copy |-> Empty("absent")] \in Job
        BY <4>2, JobFacts, ContentFacts
      <4>4. "found" \in Place
        BY DEF Place
      <4>5. /\ pc'[c] = "found"
            /\ \A q \in Process \ {c} : pc'[q] = pc[q] /\ job'[q] = job[q]
        BY <3>0, <4>1, <4>3, <4>4, Others
      <4>6. ~Saving(c, f)'
        BY <4>5 DEF Saving
      <4> QED
        BY <2>0, <3>0, <3>1, <4>5, <4>6, Idle DEF Undo, history
    <3>2. ASSUME UndoRefuses(c) \/ KeepConfig(c) PROVE Safe(f)'
      BY <2>0, <3>0, <3>2, Stopped, Idle DEF UndoRefuses, KeepConfig, history
    <3>3. ASSUME UndoFindsNothing(c) \/ SetupHasHooks(c) PROVE Safe(f)'
      <4>1. "append" \in Place /\ "config" \in Place
        BY DEF Place
      <4>2. /\ pc'[c] \in {"append", "config"}
            /\ \A q \in Process \ {c} : pc'[q] = pc[q] /\ job'[q] = job[q]
        BY <2>0, <3>0, <3>3, <4>1, Others DEF UndoFindsNothing, SetupHasHooks
      <4>3. ~Saving(c, f)'
        BY <4>2 DEF Saving
      <4> QED
        BY <2>0, <3>0, <3>3, <4>2, <4>3, Idle DEF UndoFindsNothing, SetupHasHooks, history
    <3>4. ASSUME UndoLoads(c) PROVE Safe(f)'
      <4>1. /\ Object(file[job[c].file].allow \ {job[c].pattern}, file[job[c].file].hooks) \in Content
            /\ Object(file[job[c].file].allow \ {job[c].pattern}, file[job[c].file].hooks).kind = "object"
        BY <3>0, ContentFacts
      <4> QED
        BY <2>0, <3>0, <3>4, <4>1, LoadSafe DEF UndoLoads
    <3>5. ASSUME AppendUndone(c) PROVE Safe(f)'
      BY <2>0, <3>0, <3>5, Stopped, Idle DEF AppendUndone
    <3>6. ASSUME Setup(c) PROVE Safe(f)'
      <4>1. Object(file[User].allow, HookEvent) \in Content
            /\ Object(file[User].allow, HookEvent).kind = "object"
        BY <3>0, ContentFacts
      <4> QED
        BY <2>0, <3>0, <3>6, <4>1, JobFacts, FileFacts, LoadSafe DEF Setup
    <3>7. ASSUME WriteConfig(c) PROVE Safe(f)'
      <4>1. Object({}, {}) \in Content /\ Object({}, {}).kind = "object"
        BY ContentFacts
      <4> QED
        BY <2>0, <3>0, <3>7, <4>1, JobFacts, FileFacts, LoadSafe DEF WriteConfig
    <3> QED
      BY <2>3, <3>1, <3>2, <3>3, <3>4, <3>5, <3>6, <3>7 DEF Command
  <2>4. ASSUME NEW p \in Process, Save(p) PROVE Safe(f)'
    <3>1. ASSUME OpenTmp(p) \/ WriteTmp(p) \/ WriteFails(p) \/ Rename(p) PROVE Safe(f)'
      BY <2>0, <3>1, SaveSafe
    <3>2. ASSUME RenameFails(p) \/ AppendFails(p) PROVE Safe(f)'
      BY <2>0, <3>2, Stopped, Idle DEF RenameFails, AppendFails, history
    <3>3. ASSUME Dies(p) PROVE Safe(f)'
      <4>1. \A q \in Process \ {p} : fd'[q] = fd[q]
        BY <3>3 DEF Dies, TypeOK
      <4> QED
        BY <2>0, <3>3, <4>1, Stopped, Idle DEF Dies
    <3>4. ASSUME SyncDir(p) \/ SyncFails(p) PROVE Safe(f)'
      <4>1. saved(p)
        BY <3>4 DEF SyncDir, SyncFails
      <4>2. "append" \in Place /\ "config" \in Place
        BY DEF Place
      <4>3. /\ pc'[p] \in {"append", "config"}
            /\ job' = job /\ \A q \in Process \ {p} : pc'[q] = pc[q]
        BY <2>0, <4>1, <4>2, Others DEF saved
      <4>4. ~Saving(p, f)'
        BY <4>3 DEF Saving
      <4>5. \A q \in Process \ {p} : Saving(q, f)' <=> Saving(q, f)
        BY <4>3 DEF Saving
      <4>6. Alone(f)' \/ ~Held(f)
        BY <2>0, <4>4, <4>5 DEF Safe, Alone
      <4>7. file' = file /\ tmp' = tmp /\ fd' = fd /\ spoiled' = spoiled
        BY <3>4 DEF SyncDir, SyncFails, history
      <4>8. durable'[f] = durable[f] \/ durable'[f] = {file[f]}
        BY <3>4 DEF SyncDir, SyncFails, TypeOK
      <4> SUFFICES ASSUME Held(f) PROVE (Whole(f) /\ Alone(f) /\ Prepared(f))'
        BY <4>7 DEF Safe, Held
      <4>9. Whole(f)'
        BY <2>0, <4>7, <4>8 DEF Safe, Whole
      <4>10. Prepared(f)'
        BY <2>0, <4>3, <4>4, <4>5, <4>7 DEF Safe, Prepared
      <4> QED
        BY <4>6, <4>9, <4>10
    <3> QED
      BY <2>4, <3>1, <3>2, <3>3, <3>4 DEF Save
  <2>5. ASSUME PowerLoss PROVE Safe(f)'
    <3>0. PICK g \in File : \E c \in durable[g] :
            file' = [file EXCEPT ![g] = c] /\ spoil(g, "unsynced", g = Config /\ c.kind = "broken")
      BY <2>5 DEF PowerLoss
    <3>1. PICK c \in durable[g] :
            file' = [file EXCEPT ![g] = c] /\ spoil(g, "unsynced", g = Config /\ c.kind = "broken")
      BY <3>0
    <3> SUFFICES ASSUME Held(f)' PROVE (Whole(f) /\ Alone(f) /\ Prepared(f))'
      BY DEF Safe
    <3>2. spoiled[f] \subseteq spoiled'[f]
      BY <3>1 DEF spoil, TypeOK
    <3>3. Whole(f)
      BY <2>0, <3>2 DEF Safe, Held
    <3>4. file'[f].kind # "broken"
      <4>1. CASE f # g
        BY <3>1, <3>3, <4>1 DEF Whole, TypeOK
      <4>2. CASE f = g
        <5>1. file'[f] = c
          BY <3>1, <4>2 DEF TypeOK
        <5>2. f = Config /\ c.kind = "broken" => "unsynced" \in spoiled'[f]
          BY <3>1, <4>2 DEF spoil, TypeOK
        <5> QED
          BY <3>3, <4>2, <5>1, <5>2 DEF Whole, Held
      <4> QED
        BY <4>1, <4>2
    <3>5. Whole(f)'
      BY <2>5, <3>4 DEF PowerLoss, Whole
    <3>6. \A p \in Process : ~Saving(p, f)'
      BY <2>5 DEF PowerLoss, Saving
    <3> QED
      BY <3>5, <3>6 DEF Alone, Prepared
  <2>6. ASSUME NEW g \in File, UserEdits(g) PROVE Safe(f)'
    <3>1. PICK new \in Revised(g, file[g]) :
            /\ file' = [file EXCEPT ![g] = new] /\ durable' = [durable EXCEPT ![g] = {new}]
            /\ spoiled' = [spoiled EXCEPT ![g] =
                   @ \cup (IF new.kind = "broken" THEN {"user"} ELSE {})
                     \cup (IF \E p \in Process : Saving(p, g) THEN {"edited"} ELSE {})]
      BY <2>6 DEF UserEdits
    <3>2. UNCHANGED <<tmp, pc, job, fd>>
      BY <2>6 DEF UserEdits
    <3>3. \A p \in Process : Saving(p, f)' <=> Saving(p, f)
      BY <3>2 DEF Saving
    <3>4. CASE f # g
      <4>1. file'[f] = file[f] /\ durable'[f] = durable[f] /\ spoiled'[f] = spoiled[f]
        BY <3>1, <3>4 DEF TypeOK
      <4> QED
        BY <2>0, <3>2, <3>3, <4>1, Frame
    <3>5. CASE f = g
      <4>1. file'[f] = new /\ durable'[f] = {new} /\ spoiled[f] \subseteq spoiled'[f]
            /\ (new.kind = "broken" => "user" \in spoiled'[f])
        BY <3>1, <3>5 DEF TypeOK
      <4> SUFFICES ASSUME Held(f)' PROVE (Whole(f) /\ Alone(f) /\ Prepared(f))'
        BY DEF Safe
      <4>2. Alone(f) /\ Prepared(f)
        BY <2>0, <4>1 DEF Safe, Held
      <4>3. Whole(f)'
        BY <4>1 DEF Whole, Held
      <4> QED
        BY <3>2, <3>3, <4>2, <4>3 DEF Alone, Prepared
    <3> QED
      BY <3>4, <3>5
  <2>7. ASSUME UNCHANGED vars PROVE Safe(f)'
    BY <2>0, <2>7, Frame DEF vars, history, Saving
  <2> QED
    BY <2>1, <2>2, <2>3, <2>4, <2>5, <2>6, <2>7 DEF Next
<1> QED
  BY <1>1, <1>2, TypeCorrect, PTL DEF Spec

\* A settings file is never left with part of its content, whatever fails or
\* dies and whenever the power goes, unless the user broke it or two programs
\* saved it at once.
THEOREM NeverPartial == Spec => []NoPartialSettings
<1>1. SettingsInv => NoPartialSettings
  BY DEF SettingsInv, Safe, Held, Whole, NoPartialSettings
<1> QED
  BY <1>1, SettingsInvariant, PTL

-----------------------------------------------------------------------------
(* Saves keep the rest. *)

\* What a process may be doing, and for which job.
Role(p, place, j) ==
    /\ place \in {"loaded", "opened", "written", "renamed"} => j.op # "none"
    /\ place = "found" => j.op = "undo"
    /\ place = "renamed" => j.op # "config"
    /\ place = "append" => j.op \in {"add", "undo"}
    /\ j.op = "setup" => j.file = User
    /\ j.op = "config" => j.file = Config
    /\ j.op = "add" => p = Daemon /\ j.file \in Root
    /\ p = Daemon => j.op \in {"none", "add"} /\ place # "config"
Roles == \A p \in Process : Role(p, pc[p], job[p])

\* What a job has made of the content c, and that nobody has changed it since.
Meant(j, c) ==
    /\ j.op = "add"    => j.copy = Object(c.allow \cup {j.pattern}, c.hooks)
    /\ j.op = "undo"   => j.copy = Object(c.allow \ {j.pattern}, c.hooks)
    /\ j.op = "setup"  => j.copy = Object(c.allow, HookEvent)
    /\ j.op = "config" => c.kind = "absent"
Intended(f) ==
    spoiled[f] = {} => \A p \in Process : Saving(p, f) =>
       /\ Meant(job[p], file[f])
       /\ pc[p] = "written" => tmp[f] = job[p].copy

AllIntended == \A f \in File : Intended(f)

SavesInv == TypeOK /\ SettingsInv /\ Roles /\ AllIntended

LEMMA RoleMoves ==
    ASSUME TypeOK, Roles, NEW p \in Process, NEW place \in Place
    PROVE  /\ \A j \in Job : start(p, j, place) /\ Role(p, place, j) => Roles'
           /\ goto(p, place) /\ Role(p, place, job[p]) => Roles'
           /\ stop(p) => Roles'
  <1>1. ASSUME NEW j \in Job, start(p, j, place), Role(p, place, j) PROVE Roles'
    <2>1. /\ pc'[p] = place /\ job'[p] = j
          /\ \A q \in Process \ {p} : pc'[q] = pc[q] /\ job'[q] = job[q]
      BY <1>1, Others
    <2>2. ASSUME NEW q \in Process PROVE Role(q, pc'[q], job'[q])
      <3>1. CASE q = p
        BY <1>1, <2>1, <3>1
      <3>2. CASE q # p
        BY <2>1, <3>2 DEF Roles
      <3> QED
        BY <3>1, <3>2
    <2> QED
      BY <2>2 DEF Roles
  <1>2. ASSUME goto(p, place), Role(p, place, job[p]) PROVE Roles'
    <2>1. pc'[p] = place /\ job' = job /\ \A q \in Process \ {p} : pc'[q] = pc[q]
      BY <1>2, JobFacts, Others
    <2>2. ASSUME NEW q \in Process PROVE Role(q, pc'[q], job'[q])
      <3>1. CASE q = p
        BY <1>2, <2>1, <3>1
      <3>2. CASE q # p
        BY <2>1, <3>2 DEF Roles
      <3> QED
        BY <3>1, <3>2
    <2> QED
      BY <2>2 DEF Roles
  <1>3. ASSUME stop(p) PROVE Roles'
    <2>1. "idle" \in Place /\ NoJob \in Job
      BY JobFacts DEF Place
    <2>2. /\ pc'[p] = "idle" /\ job'[p] = NoJob
          /\ \A q \in Process \ {p} : pc'[q] = pc[q] /\ job'[q] = job[q]
      BY <1>3, <2>1, Others DEF stop
    <2>3. Role(p, "idle", NoJob)
      BY DEF Role, NoJob
    <2>4. ASSUME NEW q \in Process PROVE Role(q, pc'[q], job'[q])
      <3>1. CASE q = p
        BY <2>2, <2>3, <3>1
      <3>2. CASE q # p
        BY <2>2, <3>2 DEF Roles
      <3> QED
        BY <3>1, <3>2
    <2> QED
      BY <2>4 DEF Roles
  <1> QED
    BY <1>1, <1>2, <1>3

LEMMA RolesStep == ASSUME TypeOK, Roles, [Next]_vars PROVE Roles'
  <1>0. /\ \A p \in Process : job[p] \in Job /\ Role(p, pc[p], job[p])
        /\ Place = {"idle", "found", "loaded", "opened", "written", "renamed", "append", "config"}
        /\ User \notin Root /\ Config \notin Root /\ User # Config /\ Daemon \notin Cli
    BY NamesAssumption DEF TypeOK, Roles, Place, User, Config
  <1>1. ASSUME NEW r \in Root, NEW p \in Pattern, NEW id \in Id \ {0}, Always(r, p, id)
        PROVE  Roles'
    <2>1. PICK j : j = [op |-> "add", file |-> r, pattern |-> p, id |-> id,
                        copy |-> Object(file[r].allow \cup {p}, file[r].hooks)]
      OBVIOUS
    <2>2. j \in Job
      <3>1. r \in File /\ file[r] \in Content
        BY FileFacts DEF TypeOK
      <3> QED
        BY <2>1, <3>1, JobFacts, ContentFacts
    <2>3. start(Daemon, j, "loaded")
      BY <1>1, <2>1 DEF Always, load
    <2>4. Role(Daemon, "loaded", j)
      BY <2>1 DEF Role
    <2> QED
      BY <1>0, <2>2, <2>3, <2>4, FileFacts, RoleMoves
  <1>2. ASSUME NEW c \in Cli, Command(c) PROVE Roles'
    <2>0. c \in Process /\ c # Daemon /\ file[job[c].file] \in Content /\ file[User] \in Content
          /\ job[c].file \in File /\ job[c].pattern \in Pattern /\ job[c].id \in Id
      BY <1>0, FileFacts, JobFacts DEF TypeOK
    <2>1. ASSUME Undo(c) PROVE Roles'
      <3>1. PICK row \in AuditLogRow :
              /\ validate_audit_root(row.target)
              /\ start(c, [op |-> "undo", file |-> row.target, pattern |-> row.pattern,
                           id |-> row.id, copy |-> Empty("absent")], "found")
        BY <2>1 DEF Undo
      <3>2. PICK j : j = [op |-> "undo", file |-> row.target, pattern |-> row.pattern,
                          id |-> row.id, copy |-> Empty("absent")]
        OBVIOUS
      <3>3. row.target \in File /\ row.pattern \in Pattern /\ row.id \in Id
        BY <3>1 DEF AuditLogRow, validate_audit_root
      <3>4. j \in Job
        BY <3>2, <3>3, JobFacts, ContentFacts
      <3>5. Role(c, "found", j)
        BY <2>0, <3>2 DEF Role
      <3> QED
        BY <1>0, <2>0, <3>1, <3>2, <3>4, <3>5, RoleMoves
    <2>2. ASSUME UndoRefuses(c) \/ KeepConfig(c) \/ AppendUndone(c) PROVE Roles'
      BY <1>0, <2>0, <2>2, RoleMoves DEF UndoRefuses, KeepConfig, AppendUndone
    <2>3. ASSUME UndoFindsNothing(c) PROVE Roles'
      <3>1. Role(c, "append", job[c])
        BY <1>0, <2>0, <2>3 DEF UndoFindsNothing, Role
      <3> QED
        BY <1>0, <2>0, <2>3, <3>1, RoleMoves DEF UndoFindsNothing
    <2>4. ASSUME UndoLoads(c) PROVE Roles'
      <3>1. PICK j : j = [op |-> "undo", file |-> job[c].file, pattern |-> job[c].pattern,
                          id |-> job[c].id, copy |-> Object(file[job[c].file].allow \ {job[c].pattern},
                                                            file[job[c].file].hooks)]
        OBVIOUS
      <3>2. j \in Job
        BY <2>0, <3>1, JobFacts, ContentFacts
      <3>3. start(c, j, "loaded")
        BY <2>4, <3>1 DEF UndoLoads, load
      <3>4. Role(c, "loaded", j)
        BY <2>0, <3>1 DEF Role
      <3> QED
        BY <1>0, <2>0, <3>2, <3>3, <3>4, RoleMoves
    <2>5. ASSUME Setup(c) PROVE Roles'
      <3>1. PICK j : j = [op |-> "setup", file |-> User, pattern |-> NoJob.pattern, id |-> 0,
                          copy |-> Object(file[User].allow, HookEvent)]
        OBVIOUS
      <3>2. j \in Job
        BY <2>0, <3>1, JobFacts, FileFacts, ContentFacts
      <3>3. start(c, j, "loaded")
        BY <2>5, <3>1 DEF Setup, load
      <3>4. Role(c, "loaded", j)
        BY <2>0, <3>1 DEF Role
      <3> QED
        BY <1>0, <2>0, <3>2, <3>3, <3>4, RoleMoves
    <2>6. ASSUME SetupHasHooks(c) PROVE Roles'
      <3>1. Role(c, "config", job[c])
        BY <1>0, <2>0 DEF Role
      <3> QED
        BY <1>0, <2>0, <2>6, <3>1, RoleMoves DEF SetupHasHooks
    <2>7. ASSUME WriteConfig(c) PROVE Roles'
      <3>1. PICK j : j = [op |-> "config", file |-> Config, pattern |-> NoJob.pattern, id |-> 0,
                          copy |-> Object({}, {})]
        OBVIOUS
      <3>2. j \in Job
        BY <2>0, <3>1, JobFacts, FileFacts, ContentFacts
      <3>3. start(c, j, "loaded")
        BY <2>7, <3>1 DEF WriteConfig, load
      <3>4. Role(c, "loaded", j)
        BY <2>0, <3>1 DEF Role
      <3> QED
        BY <1>0, <2>0, <3>2, <3>3, <3>4, RoleMoves
    <2> QED
      BY <1>2, <2>1, <2>2, <2>3, <2>4, <2>5, <2>6, <2>7 DEF Command
  <1>3. ASSUME NEW p \in Process, Save(p) PROVE Roles'
    <2>1. ASSUME OpenTmp(p) PROVE Roles'
      <3>1. Role(p, "opened", job[p])
        BY <1>0, <2>1 DEF OpenTmp, Role
      <3> QED
        BY <1>0, <2>1, <3>1, RoleMoves DEF OpenTmp
    <2>2. ASSUME WriteTmp(p) PROVE Roles'
      <3>1. Role(p, "written", job[p])
        BY <1>0, <2>2 DEF WriteTmp, Role
      <3> QED
        BY <1>0, <2>2, <3>1, RoleMoves DEF WriteTmp
    <2>3. ASSUME Rename(p) PROVE Roles'
      <3>1. CASE job[p].op = "config"
        BY <1>0, <2>3, <3>1, RoleMoves DEF Rename
      <3>2. CASE job[p].op # "config"
        <4>1. Role(p, "renamed", job[p])
          BY <1>0, <2>3, <3>2 DEF Rename, Role
        <4> QED
          BY <1>0, <2>3, <3>2, <4>1, RoleMoves DEF Rename
      <3> QED
        BY <3>1, <3>2
    <2>4. ASSUME SyncDir(p) \/ SyncFails(p) PROVE Roles'
      <3>1. saved(p) /\ pc[p] = "renamed"
        BY <2>4 DEF SyncDir, SyncFails
      <3>2. job[p].op \in {"add", "undo", "setup"}
        BY <1>0, <3>1 DEF Job, Role
      <3>3. CASE job[p].op = "setup"
        <4>1. Role(p, "config", job[p])
          BY <1>0, <3>1, <3>3 DEF Role
        <4> QED
          BY <1>0, <3>1, <3>3, <4>1, RoleMoves DEF saved
      <3>4. CASE job[p].op # "setup"
        <4>1. Role(p, "append", job[p])
          BY <1>0, <3>1, <3>2, <3>4 DEF Role
        <4> QED
          BY <1>0, <3>1, <3>4, <4>1, RoleMoves DEF saved
      <3> QED
        BY <3>3, <3>4
    <2>5. ASSUME WriteFails(p) \/ RenameFails(p) \/ AppendFails(p) \/ Dies(p) PROVE Roles'
      BY <1>0, <2>5, RoleMoves DEF WriteFails, RenameFails, AppendFails, Dies
    <2> QED
      BY <1>3, <2>1, <2>2, <2>3, <2>4, <2>5 DEF Save
  <1>4. ASSUME AppendAdded PROVE Roles'
    BY <1>0, <1>4, FileFacts, RoleMoves DEF AppendAdded
  <1>5. ASSUME PowerLoss PROVE Roles'
    <2>1. \A p \in Process : Role(p, "idle", NoJob)
      BY DEF Role, NoJob
    <2>2. \A p \in Process : pc'[p] = "idle" /\ job'[p] = NoJob
      BY <1>5 DEF PowerLoss
    <2> QED
      BY <2>1, <2>2 DEF Roles
  <1>6. ASSUME UNCHANGED <<pc, job>> PROVE Roles'
    BY <1>6 DEF Roles
  <1>7. ASSUME NEW f \in File, UserEdits(f) PROVE Roles'
    BY <1>6, <1>7 DEF UserEdits
  <1>8. ASSUME UNCHANGED vars PROVE Roles'
    BY <1>6, <1>8 DEF vars
  <1> QED
    BY <1>1, <1>2, <1>3, <1>4, <1>5, <1>7, <1>8 DEF Next

\* A step that leaves f and its temporary file alone, and makes nobody save f.
LEMMA IntentFrame ==
    ASSUME NEW f \in File, Intended(f), spoiled[f] \subseteq spoiled'[f],
           file'[f] = file[f], tmp'[f] = tmp[f],
           \A p \in Process : Saving(p, f)' =>
              Saving(p, f) /\ pc'[p] = pc[p] /\ job'[p] = job[p]
    PROVE  Intended(f)'
  <1> SUFFICES ASSUME spoiled'[f] = {}, NEW p \in Process, Saving(p, f)'
               PROVE  /\ Meant(job'[p], file'[f])
                      /\ pc'[p] = "written" => tmp'[f] = job'[p].copy
    BY DEF Intended, Meant
  <1>1. spoiled[f] = {} /\ Saving(p, f) /\ pc'[p] = pc[p] /\ job'[p] = job[p]
    OBVIOUS
  <1> QED
    BY <1>1 DEF Intended

LEMMA LoadIntends ==
    ASSUME TypeOK, NEW p \in Process, NEW op \in {"add", "undo", "setup", "config"},
           NEW f0 \in File, NEW pattern \in Pattern, NEW id \in Id, NEW c \in Content,
           NEW j \in Job, j = [op |-> op, file |-> f0, pattern |-> pattern, id |-> id, copy |-> c],
           Meant(j, file[f0]), load(p, op, f0, pattern, id, c),
           UNCHANGED <<file, tmp>>, NEW f \in File, Intended(f)
    PROVE  Intended(f)'
  <1>1. "loaded" \in Place
    BY DEF Place
  <1>2. /\ pc'[p] = "loaded" /\ job'[p] = j
        /\ \A q \in Process \ {p} : pc'[q] = pc[q] /\ job'[q] = job[q]
    BY <1>1, Others DEF load
  <1>3. \A q \in Process \ {p} : Saving(q, f)' <=> Saving(q, f)
    BY <1>2 DEF Saving
  <1>4. spoiled[f] \subseteq spoiled'[f]
    BY DEF load, spoil, TypeOK
  <1>5. CASE f # f0
    <2>1. ~Saving(p, f)'
      BY <1>2, <1>5 DEF Saving
    <2> QED
      BY <1>2, <1>3, <1>4, <2>1, IntentFrame
  <1>6. CASE f = f0
    <2> SUFFICES ASSUME spoiled'[f] = {}, NEW q \in Process, Saving(q, f)'
                 PROVE  /\ Meant(job'[q], file'[f])
                        /\ pc'[q] = "written" => tmp'[f] = job'[q].copy
      BY DEF Intended, Meant
    <2>1. \A r \in Process \ {p} : ~Saving(r, f)
      BY <1>6 DEF load, spoil, TypeOK
    <2>2. q = p
      BY <1>3, <2>1
    <2> QED
      BY <1>2, <1>6, <2>2
  <1> QED
    BY <1>5, <1>6

LEMMA IdleIntends ==
    ASSUME TypeOK, NEW p \in Process, UNCHANGED <<file, tmp, spoiled>>,
           \A q \in Process \ {p} : pc'[q] = pc[q] /\ job'[q] = job[q],
           NEW f \in File, Intended(f), ~Saving(p, f)'
    PROVE  Intended(f)'
  <1>1. \A q \in Process \ {p} : Saving(q, f)' <=> Saving(q, f)
    BY DEF Saving
  <1> QED
    BY <1>1, IntentFrame

LEMMA SaveIntends ==
    ASSUME SavesInv, NEW p \in Process, OpenTmp(p) \/ WriteTmp(p) \/ WriteFails(p) \/ Rename(p),
           NEW f \in File
    PROVE  Intended(f)'
  <1>0. /\ TypeOK /\ Intended(f) /\ Safe(f)
        /\ job[p] \in Job /\ job[p].file \in File /\ spoiled' = spoiled
        /\ {"opened", "written", "renamed"} \subseteq Place
    BY JobFacts DEF SavesInv, AllIntended, SettingsInv, TypeOK, OpenTmp, WriteTmp, WriteFails, Rename, history, Place
  <1>1. \A q \in Process \ {p} : pc'[q] = pc[q] /\ job'[q] = job[q]
    BY <1>0, Others, Stopped DEF OpenTmp, WriteTmp, WriteFails, Rename
  <1>2. \A q \in Process \ {p} : Saving(q, f)' <=> Saving(q, f)
    BY <1>1 DEF Saving
  <1>3. pc[p] \in {"loaded", "opened", "written"}
    BY DEF OpenTmp, WriteTmp, WriteFails, Rename
  <1>4. CASE f # job[p].file
    <2>1. file'[f] = file[f] /\ tmp'[f] = tmp[f]
      BY <1>0, <1>4 DEF TypeOK, OpenTmp, WriteTmp, WriteFails, Rename, put
    <2>2. ~Saving(p, f)'
      <3>1. job'[p] = job[p] \/ stop(p)
        BY DEF OpenTmp, WriteTmp, WriteFails, Rename, goto
      <3> QED
        BY <1>0, <1>4, <3>1, Stopped DEF Saving
    <2> QED
      BY <1>0, <1>1, <1>2, <2>1, <2>2, IntentFrame
  <1>5. CASE f = job[p].file
    <2> SUFFICES ASSUME spoiled'[f] = {}, NEW q \in Process, Saving(q, f)'
                 PROVE  /\ Meant(job'[q], file'[f])
                        /\ pc'[q] = "written" => tmp'[f] = job'[q].copy
      BY DEF Intended, Meant
    <2>1. Alone(f) /\ Prepared(f) /\ Saving(p, f)
      BY <1>0, <1>3, <1>5 DEF Safe, Held, Saving
    <2>2. q = p
      BY <1>2, <2>1 DEF Alone
    <2>3. Meant(job[p], file[f])
      BY <1>0, <2>1 DEF Intended
    <2>4. CASE OpenTmp(p)
      <3>1. pc'[p] = "opened" /\ job' = job /\ file' = file
        BY <1>0, <2>4, JobFacts, Others DEF OpenTmp
      <3> QED
        BY <2>2, <2>3, <3>1
    <2>5. CASE WriteTmp(p)
      <3>1. pc[p] = "opened" /\ fd[p] = "tmp" /\ tmp[f] = Empty("broken")
        BY <2>1, <2>5 DEF WriteTmp, Prepared
      <3>2. put(p, job[p].copy)
        BY <1>5, <2>5, <3>1 DEF WriteTmp, overwritten
      <3>3. file' = file /\ tmp'[f] = job[p].copy
        BY <1>0, <1>5, <3>1, <3>2 DEF put, TypeOK
      <3>4. job' = job
        BY <2>5 DEF WriteTmp, goto
      <3> QED
        BY <2>2, <2>3, <3>3, <3>4
    <2>6. CASE WriteFails(p)
      BY <1>0, <2>2, <2>6, Stopped DEF WriteFails
    <2>7. CASE Rename(p)
      <3>1. ASSUME goto(p, "renamed") PROVE ~Saving(p, f)'
        BY <1>0, <3>1, JobFacts, Others DEF Saving
      <3> QED
        BY <1>0, <2>2, <2>7, <3>1, Stopped DEF Rename
    <2> QED
      BY <2>4, <2>5, <2>6, <2>7
  <1> QED
    BY <1>4, <1>5

LEMMA IntendedStep == ASSUME SavesInv, [Next]_vars, NEW f \in File PROVE Intended(f)'
  <1>0. /\ TypeOK /\ Intended(f) /\ \A p \in Process : job[p] \in Job
        /\ {"idle", "found", "config", "append"} \subseteq Place
    BY DEF SavesInv, AllIntended, TypeOK, Place
  <1>1. ASSUME NEW r \in Root, NEW p \in Pattern, NEW id \in Id \ {0}, Always(r, p, id)
        PROVE  Intended(f)'
    <2>1. r \in File /\ Daemon \in Process /\ file[r] \in Content
      BY <1>0, FileFacts DEF TypeOK
    <2>2. PICK c \in Content : c = Object(file[r].allow \cup {p}, file[r].hooks)
      BY <2>1, ContentFacts
    <2>3. PICK j \in Job : j = [op |-> "add", file |-> r, pattern |-> p, id |-> id, copy |-> c]
      BY <2>1, JobFacts
    <2>4. Meant(j, file[r])
      BY <2>2, <2>3 DEF Meant
    <2> QED
      BY <1>0, <1>1, <2>1, <2>2, <2>3, <2>4, LoadIntends DEF Always
  <1>2. ASSUME AppendAdded PROVE Intended(f)'
    BY <1>0, <1>2, FileFacts, Stopped, IdleIntends DEF AppendAdded
  <1>3. ASSUME NEW c \in Cli, Command(c) PROVE Intended(f)'
    <2>0. /\ c \in Process /\ User \in File /\ Config \in File
          /\ file[job[c].file] \in Content /\ file[User] \in Content /\ NoJob.pattern \in Pattern
          /\ job[c].file \in File /\ job[c].pattern \in Pattern /\ job[c].id \in Id /\ 0 \in Id
      BY <1>0, FileFacts, JobFacts DEF TypeOK
    <2>1. ASSUME Undo(c) PROVE Intended(f)'
      <3>1. PICK row \in AuditLogRow :
              /\ validate_audit_root(row.target)
              /\ start(c, [op |-> "undo", file |-> row.target, pattern |-> row.pattern,
                           id |-> row.id, copy |-> Empty("absent")], "found")
        BY <2>1 DEF Undo
      <3>2. row.target \in File /\ row.pattern \in Pattern /\ row.id \in Id
        BY <3>1 DEF AuditLogRow, validate_audit_root
      <3>3. [op |-> "undo", file |-> row.target, pattern |-> row.pattern,
             id |-> row.id, copy |-> Empty("absent")] \in Job
        BY <3>2, JobFacts, ContentFacts
      <3>4. /\ pc'[c] = "found"
            /\ \A q \in Process \ {c} : pc'[q] = pc[q] /\ job'[q] = job[q]
        BY <1>0, <2>0, <3>1, <3>3, Others
      <3> QED
        BY <1>0, <2>0, <2>1, <3>4, IdleIntends DEF Undo, history, Saving
    <2>2. ASSUME UndoRefuses(c) \/ KeepConfig(c) \/ AppendUndone(c) PROVE Intended(f)'
      BY <1>0, <2>0, <2>2, Stopped, IdleIntends DEF UndoRefuses, KeepConfig, AppendUndone, history
    <2>3. ASSUME UndoFindsNothing(c) \/ SetupHasHooks(c) PROVE Intended(f)'
      <3>1. /\ pc'[c] \in {"append", "config"}
            /\ \A q \in Process \ {c} : pc'[q] = pc[q] /\ job'[q] = job[q]
        BY <1>0, <2>0, <2>3, Others DEF UndoFindsNothing, SetupHasHooks
      <3>2. ~Saving(c, f)'
        BY <3>1 DEF Saving
      <3> QED
        BY <1>0, <2>0, <2>3, <3>1, <3>2, IdleIntends DEF UndoFindsNothing, SetupHasHooks, history
    <2>4. ASSUME UndoLoads(c) PROVE Intended(f)'
      <3>1. PICK d \in Content : d = Object(file[job[c].file].allow \ {job[c].pattern},
                                            file[job[c].file].hooks)
        BY <2>0, ContentFacts
      <3>2. PICK j \in Job : j = [op |-> "undo", file |-> job[c].file, pattern |-> job[c].pattern,
                                  id |-> job[c].id, copy |-> d]
        BY <2>0, JobFacts
      <3>3. Meant(j, file[job[c].file])
        BY <3>1, <3>2 DEF Meant
      <3> QED
        BY <1>0, <2>0, <2>4, <3>1, <3>2, <3>3, LoadIntends DEF UndoLoads, history
    <2>5. ASSUME Setup(c) PROVE Intended(f)'
      <3>1. PICK d \in Content : d = Object(file[User].allow, HookEvent)
        BY <2>0, ContentFacts
      <3>2. PICK j \in Job : j = [op |-> "setup", file |-> User, pattern |-> NoJob.pattern,
                                  id |-> 0, copy |-> d]
        BY <2>0, JobFacts
      <3>3. Meant(j, file[User])
        BY <3>1, <3>2 DEF Meant
      <3> QED
        BY <1>0, <2>0, <2>5, <3>1, <3>2, <3>3, LoadIntends DEF Setup
    <2>6. ASSUME WriteConfig(c) PROVE Intended(f)'
      <3>1. PICK d \in Content : d = Object({}, {})
        BY ContentFacts
      <3>2. PICK j \in Job : j = [op |-> "config", file |-> Config, pattern |-> NoJob.pattern,
                                  id |-> 0, copy |-> d]
        BY <2>0, JobFacts
      <3>3. Meant(j, file[Config])
        BY <2>6, <3>1, <3>2 DEF Meant, WriteConfig
      <3> QED
        BY <1>0, <2>0, <2>6, <3>1, <3>2, <3>3, LoadIntends DEF WriteConfig
    <2> QED
      BY <1>3, <2>1, <2>2, <2>3, <2>4, <2>5, <2>6 DEF Command
  <1>4. ASSUME NEW p \in Process, Save(p) PROVE Intended(f)'
    <2>1. ASSUME OpenTmp(p) \/ WriteTmp(p) \/ WriteFails(p) \/ Rename(p) PROVE Intended(f)'
      BY <2>1, SaveIntends
    <2>2. ASSUME RenameFails(p) \/ AppendFails(p) \/ Dies(p) PROVE Intended(f)'
      BY <1>0, <2>2, Stopped, IdleIntends DEF RenameFails, AppendFails, Dies, history
    <2>3. ASSUME SyncDir(p) \/ SyncFails(p) PROVE Intended(f)'
      <3>1. saved(p)
        BY <2>3 DEF SyncDir, SyncFails
      <3>2. /\ pc'[p] \in {"append", "config"}
            /\ job' = job /\ \A q \in Process \ {p} : pc'[q] = pc[q]
        BY <1>0, <3>1, Others DEF saved
      <3>3. ~Saving(p, f)'
        BY <3>2 DEF Saving
      <3> QED
        BY <1>0, <2>3, <3>2, <3>3, IdleIntends DEF SyncDir, SyncFails, history
    <2> QED
      BY <1>4, <2>1, <2>2, <2>3 DEF Save
  <1>5. ASSUME PowerLoss PROVE Intended(f)'
    <2>1. \A p \in Process : ~Saving(p, f)'
      BY <1>5 DEF PowerLoss, Saving
    <2> QED
      BY <2>1 DEF Intended
  <1>6. ASSUME NEW g \in File, UserEdits(g) PROVE Intended(f)'
    <2>1. PICK new :
            /\ file' = [file EXCEPT ![g] = new]
            /\ spoiled' = [spoiled EXCEPT ![g] =
                   @ \cup (IF new.kind = "broken" THEN {"user"} ELSE {})
                     \cup (IF \E p \in Process : Saving(p, g) THEN {"edited"} ELSE {})]
      BY <1>6 DEF UserEdits
    <2>2. UNCHANGED <<tmp, pc, job>>
      BY <1>6 DEF UserEdits
    <2>3. \A p \in Process : Saving(p, f)' <=> Saving(p, f)
      BY <2>2 DEF Saving
    <2>4. CASE f # g
      <3>1. file'[f] = file[f] /\ spoiled'[f] = spoiled[f]
        BY <1>0, <2>1, <2>4 DEF TypeOK
      <3> QED
        BY <1>0, <2>2, <2>3, <3>1, IntentFrame
    <2>5. CASE f = g
      <3>1. ASSUME NEW p \in Process, Saving(p, f) PROVE "edited" \in spoiled'[f]
        <4>1. PICK s : s = IF \E q \in Process : Saving(q, f) THEN {"edited"} ELSE {}
          OBVIOUS
        <4>2. spoiled'[f] = spoiled[f] \cup (IF new.kind = "broken" THEN {"user"} ELSE {}) \cup s
          BY <1>0, <2>1, <2>5, <4>1 DEF TypeOK
        <4> QED
          BY <3>1, <4>1, <4>2
      <3> QED
        BY <2>3, <3>1 DEF Intended
    <2> QED
      BY <2>4, <2>5
  <1>7. ASSUME UNCHANGED vars PROVE Intended(f)'
    BY <1>0, <1>7, IntentFrame DEF vars, history, Saving
  <1> QED
    BY <1>1, <1>2, <1>3, <1>4, <1>5, <1>6, <1>7 DEF Next

LEMMA SavesInvHolds == Spec => []SavesInv
<1>1. Init => Roles /\ AllIntended
  <2>1. \A p \in Process : Role(p, "idle", NoJob)
    BY DEF Role, NoJob
  <2> QED
    BY <2>1 DEF Init, Roles, AllIntended, Intended, Saving
<1>2. ASSUME TypeOK, SettingsInv, Roles, AllIntended, [Next]_vars
      PROVE  Roles' /\ AllIntended'
  <2>1. SavesInv
    BY <1>2 DEF SavesInv
  <2> QED
    BY <1>2, <2>1, RolesStep, IntendedStep DEF AllIntended
<1>3. SavesInv <=> TypeOK /\ SettingsInv /\ Roles /\ AllIntended
  BY DEF SavesInv
<1> QED
  BY <1>1, <1>2, <1>3, TypeCorrect, SettingsInvariant, PTL DEF Spec

\* A save changes what it was made for and nothing else: what the user, Claude
\* Code or another of ccbridge's programs wrote before it is still in the file,
\* unless they wrote between its load and its rename.
THEOREM RestIsKept == Spec => SavesKeepTheRest
<1>1. ASSUME SavesInv, [Next]_vars
      PROVE  [\A p \in Process : pc[p] = "written" /\ Rename(p) /\ spoiled[job[p].file] = {}
                => Keeps(p)]_vars
  <2> SUFFICES ASSUME NEW p \in Process, pc[p] = "written", Rename(p), spoiled[job[p].file] = {}
               PROVE  Keeps(p)
    OBVIOUS
  <2>1. PICK f \in File : f = job[p].file
    BY <1>1, JobFacts DEF SavesInv, TypeOK
  <2>2. Saving(p, f) /\ Intended(f)
    BY <1>1, <2>1 DEF SavesInv, AllIntended, Saving
  <2>3. Meant(job[p], file[f]) /\ tmp[f] = job[p].copy
    BY <2>1, <2>2 DEF Intended
  <2>4. file'[f] = tmp[f]
    BY <1>1, <2>1 DEF Rename, SavesInv, TypeOK
  <2> QED
    BY <2>1, <2>3, <2>4 DEF Keeps, Meant
<1> QED
  BY <1>1, SavesInvHolds, PTL DEF Spec, SavesKeepTheRest

-----------------------------------------------------------------------------
(* Folds.                                                                  *)

Below == {p \in Nat \X Nat : p[1] < p[2]}

LEMMA Least ==
  ASSUME NEW S, S \subseteq Nat, S # {}
  PROVE  \E x \in S : \A y \in S : x =< y
<1>1. IsWellFoundedOn(Below, Nat)
  BY NatLessThanWellFounded DEF OpToRel, Below
<1>2. PICK x \in S : \A y \in S : ~(<<y, x>> \in Below)
  BY <1>1, WFMin
<1>3. \A y \in S : <<y, x>> \in Nat \X Nat
  OBVIOUS
<1>4. \A y \in S : ~(y < x)
  BY <1>2, <1>3 DEF Below
<1> QED
  BY <1>4

\* Induction, for a set of numbers.
LEMMA Induction ==
  ASSUME NEW S, 0 \in S, \A n \in Nat : n \in S => n + 1 \in S
  PROVE  Nat \subseteq S
<1> SUFFICES ASSUME ~(Nat \subseteq S) PROVE FALSE
  OBVIOUS
<1>1. PICK x \in Nat \ S : \A y \in Nat \ S : x =< y
  BY Least
<1>2. x - 1 \in Nat /\ x - 1 \in S
  BY <1>1
<1> QED
  BY <1>1, <1>2

LEMMA MinFrom ==
  ASSUME NEW j \in Nat, NEW n \in Nat
  PROVE  /\ \A s \in SUBSET (1..n) : s # {} => Min(s) \in s
         /\ 1 <= j /\ j <= n => /\ Min(j..n) = j /\ (j..n) \ {j} = j + 1..n
                                /\ j..n \in SUBSET (1..n) /\ j..n # {}
<1>1. ASSUME NEW s \in SUBSET (1..n), s # {} PROVE Min(s) \in s /\ \A y \in s : Min(s) =< y
  <2>1. \E x \in s : \A y \in s : x =< y
    <3>1. s \subseteq Nat
      OBVIOUS
    <3> QED
      BY <1>1, <3>1, Least
  <2> QED
    BY <2>1 DEF Min
<1>2. ASSUME 1 <= j, j <= n PROVE Min(j..n) = j
  <2>1. j..n \in SUBSET (1..n) /\ j..n # {} /\ j \in j..n
    BY <1>2
  <2>2. Min(j..n) \in j..n /\ Min(j..n) <= j
    BY <1>1, <2>1
  <2> QED
    BY <2>2
<1>3. ASSUME 1 <= j, j <= n
      PROVE  (j..n) \ {j} = j + 1..n /\ j..n \in SUBSET (1..n) /\ j..n # {}
  BY <1>3
<1> QED
  BY <1>1, <1>2, <1>3

\* A fold over a set whose elements c takes one by one is defined.
Chooses(c, S) == \A s \in SUBSET S : s # {} => c[s] \in s
IsFold(f, S, base, c, g) ==
    \A s \in SUBSET S : f[s] = IF s = {} THEN base ELSE g[<<c[s], f[s \ {c[s]}]>>]
LEMMA FoldExists ==
  ASSUME NEW S, IsFiniteSet(S), NEW V, NEW base \in V, NEW c, NEW g \in [S \X V -> V],
         Chooses(c, S)
  PROVE  \E f \in [SUBSET S -> V] : IsFold(f, S, base, c, g)
<1> DEFINE A(n) == {s \in SUBSET S : Cardinality(s) <= n}
           Fold(f, n) == \A s \in A(n) : f[s] = IF s = {} THEN base ELSE g[<<c[s], f[s \ {c[s]}]>>]
           Good == {n \in Nat : \E f \in [A(n) -> V] : Fold(f, n)}
<1>1. \A s \in SUBSET S : IsFiniteSet(s) /\ Cardinality(s) \in Nat /\ (Cardinality(s) = 0 <=> s = {})
  BY FS_Subset, FS_CardinalityType, FS_EmptySet
<1>2. \A s \in SUBSET S : s # {} => c[s] \in S /\ Cardinality(s \ {c[s]}) = Cardinality(s) - 1
  BY <1>1, FS_RemoveElement DEF Chooses
<1>3. 0 \in Good
  <2>1. A(0) = {{}}
    BY <1>1
  <2>2. PICK f : f = [s \in A(0) |-> base]
    OBVIOUS
  <2>3. f \in [A(0) -> V]
    BY <2>2
  <2>4. Fold(f, 0)
    BY <2>1, <2>2
  <2> QED
    BY <2>3, <2>4
<1>4. ASSUME NEW n \in Nat, n \in Good PROVE n + 1 \in Good
  <2>1. PICK f \in [A(n) -> V] : Fold(f, n)
    BY <1>4
  <2>2. PICK h : h = [s \in A(n + 1) |-> IF s \in A(n) THEN f[s] ELSE g[<<c[s], f[s \ {c[s]}]>>]]
    OBVIOUS
  <2>3. ASSUME NEW s \in A(n + 1), s # {} PROVE s \ {c[s]} \in A(n) /\ s \ {c[s]} \in A(n + 1) /\ c[s] \in S
    BY <1>1, <1>2, <2>3
  <2>4. {} \in A(n) /\ \A s \in A(n + 1) : s \in SUBSET S
    BY <1>1
  <2> HIDE DEF A
  <2>5. ASSUME NEW s \in A(n + 1)
        PROVE  h[s] \in V /\ h[s] = IF s = {} THEN base ELSE g[<<c[s], h[s \ {c[s]}]>>]
    <3>1. CASE s \in A(n)
      <4>1. h[s] = f[s] /\ h[s] \in V
        BY <2>1, <2>2, <3>1
      <4>2. s # {} => h[s \ {c[s]}] = f[s \ {c[s]}]
        BY <2>2, <2>3
      <4>3. f[s] = IF s = {} THEN base ELSE g[<<c[s], f[s \ {c[s]}]>>]
        BY <2>1, <3>1
      <4> QED
        BY <4>1, <4>2, <4>3
    <3>2. CASE s \notin A(n)
      <4>1. s # {}
        BY <2>4, <3>2
      <4>2. s \ {c[s]} \in A(n) /\ s \ {c[s]} \in A(n + 1) /\ c[s] \in S
        BY <2>3, <4>1
      <4>3. h[s] = g[<<c[s], f[s \ {c[s]}]>>] /\ h[s \ {c[s]}] = f[s \ {c[s]}]
        BY <2>2, <3>2, <4>2
      <4>4. f[s \ {c[s]}] \in V
        BY <2>1, <4>2
      <4> QED
        BY <4>1, <4>2, <4>3, <4>4
    <3> QED
      BY <3>1, <3>2
  <2>6. h \in [A(n + 1) -> V]
    BY <2>2, <2>5
  <2>7. Fold(h, n + 1)
    BY <2>5
  <2> HIDE DEF Fold
  <2> QED
    BY <2>6, <2>7
<1>5. Nat \subseteq Good
  <2> HIDE DEF Good
  <2> QED
    BY <1>3, <1>4, Induction
<1>6. Cardinality(S) \in Nat /\ A(Cardinality(S)) = SUBSET S
  BY FS_Subset, FS_CardinalityType
<1>7. PICK f \in [A(Cardinality(S)) -> V] : Fold(f, Cardinality(S))
  BY <1>5, <1>6
<1> QED
  BY <1>6, <1>7 DEF IsFold

-----------------------------------------------------------------------------
(* The walk finds the last live addition. *)

\* Of a key k, the undone lines less the added ones in the lines j to m of l.
Undos(l, k, j, m) == {x \in j..m : l[x].op = "undone" /\ key(l[x]) = k}
Adds(l, k, j, m)  == {x \in j..m : l[x].op = "added" /\ key(l[x]) = k}
Balance(l, k, j, m) == Cardinality(Undos(l, k, j, m)) - Cardinality(Adds(l, k, j, m))
Weight(row, k) == IF key(row) # k THEN 0
                  ELSE IF row.op = "undone" THEN 1
                  ELSE IF row.op = "added" THEN -1 ELSE 0

LEMMA BalanceType ==
  ASSUME NEW l, NEW k, NEW j \in Int, NEW m \in Int
  PROVE  /\ Cardinality(Undos(l, k, j, m)) \in Nat /\ IsFiniteSet(Undos(l, k, j, m))
         /\ Cardinality(Adds(l, k, j, m)) \in Nat /\ IsFiniteSet(Adds(l, k, j, m))
         /\ Balance(l, k, j, m) \in Int
         /\ m < j => Balance(l, k, j, m) = 0
<1>1. IsFiniteSet(j..m)
  BY FS_Interval
<1>2. Undos(l, k, j, m) \in SUBSET (j..m) /\ Adds(l, k, j, m) \in SUBSET (j..m)
  BY DEF Undos, Adds
<1>3. /\ Cardinality(Undos(l, k, j, m)) \in Nat /\ IsFiniteSet(Undos(l, k, j, m))
      /\ Cardinality(Adds(l, k, j, m)) \in Nat /\ IsFiniteSet(Adds(l, k, j, m))
  BY <1>1, <1>2, FS_Subset, FS_CardinalityType
<1>4. m < j => Undos(l, k, j, m) = {} /\ Adds(l, k, j, m) = {}
  BY DEF Undos, Adds
<1> QED
  BY <1>3, <1>4, FS_EmptySet DEF Balance

\* One more line x changes the balance by its weight.
LEMMA BalanceGrows ==
  ASSUME NEW l, NEW k, NEW j \in Int, NEW m \in Int, NEW i \in Int, NEW n \in Int, NEW x \in Int,
         i..n = (j..m) \cup {x}, x \notin j..m
  PROVE  Balance(l, k, i, n) = Balance(l, k, j, m) + Weight(l[x], k)
<1>1. /\ Undos(l, k, i, n) = Undos(l, k, j, m) \cup (IF Weight(l[x], k) = 1 THEN {x} ELSE {})
      /\ Adds(l, k, i, n) = Adds(l, k, j, m) \cup (IF Weight(l[x], k) = -1 THEN {x} ELSE {})
      /\ x \notin Undos(l, k, j, m) /\ x \notin Adds(l, k, j, m)
  BY DEF Undos, Adds, Weight
<1>2. /\ Cardinality(Undos(l, k, j, m) \cup {x}) = Cardinality(Undos(l, k, j, m)) + 1
      /\ Cardinality(Adds(l, k, j, m) \cup {x}) = Cardinality(Adds(l, k, j, m)) + 1
  BY <1>1, BalanceType, FS_AddElement
<1>3. Weight(l[x], k) \in {-1, 0, 1}
  BY DEF Weight
<1>4. CASE Weight(l[x], k) = 1
  <2>1. Undos(l, k, i, n) = Undos(l, k, j, m) \cup {x} /\ Adds(l, k, i, n) = Adds(l, k, j, m)
    BY <1>1, <1>4
  <2> QED
    BY <1>2, <1>4, <2>1, BalanceType DEF Balance
<1>5. CASE Weight(l[x], k) = -1
  <2>1. Undos(l, k, i, n) = Undos(l, k, j, m) /\ Adds(l, k, i, n) = Adds(l, k, j, m) \cup {x}
    BY <1>1, <1>5
  <2> QED
    BY <1>2, <1>5, <2>1, BalanceType DEF Balance
<1>6. CASE Weight(l[x], k) = 0
  <2>1. Undos(l, k, i, n) = Undos(l, k, j, m) /\ Adds(l, k, i, n) = Adds(l, k, j, m)
    BY <1>1, <1>6
  <2> QED
    BY <1>6, <2>1, BalanceType DEF Balance
<1> QED
  BY <1>3, <1>4, <1>5, <1>6

LEMMA BalanceSteps ==
  ASSUME NEW l, NEW k, NEW j \in Int, NEW m \in Int, j <= m
  PROVE  /\ Balance(l, k, j, m) = Balance(l, k, j + 1, m) + Weight(l[j], k)
         /\ Balance(l, k, j, m) = Balance(l, k, j, m - 1) + Weight(l[m], k)
<1>1. j..m = (j + 1..m) \cup {j} /\ j \notin j + 1..m /\ j + 1 \in Int
  OBVIOUS
<1>2. j..m = (j..m - 1) \cup {m} /\ m \notin j..m - 1 /\ m - 1 \in Int
  OBVIOUS
<1> QED
  BY <1>1, <1>2, BalanceGrows

\* An addition is live while no later line brings the balance back to 0.
LiveIn(l, i) == l[i].op = "added" /\ \A m \in i..Len(l) : Balance(l, key(l[i]), i, m) < 0

LEMMA LiveIs == TypeOK => \A i \in DOMAIN log : Live(i) <=> LiveIn(log, i)
<1> SUFFICES ASSUME TypeOK, NEW i \in DOMAIN log PROVE Live(i) <=> LiveIn(log, i)
  OBVIOUS
<1>1. i \in Int /\ Len(log) \in Int
  BY DEF TypeOK
<1>2. \A m \in i..Len(log) : /\ Undone(i, m) = Undos(log, key(log[i]), i, m)
                             /\ Added(i, m) = Adds(log, key(log[i]), i, m)
  BY DEF Undone, Added, Undos, Adds
<1>3. \A m \in i..Len(log) : Cardinality(Undone(i, m)) < Cardinality(Added(i, m))
                               <=> Balance(log, key(log[i]), i, m) < 0
  BY <1>1, <1>2, BalanceType DEF Balance
<1> QED
  BY <1>3 DEF Live, LiveIn

Seen == [undo_counts : [Pattern \X Id -> Nat], result : Seq(AuditLogRow)]

WalkFact(row, seen, new, k, count) ==
    /\ new \in Seen /\ k \in Pattern \X Id /\ count \in [Pattern \X Id -> Nat]
    /\ seen.result # <<>> \/ row.op \in {"fragment", "unreadable"} => new = seen
    /\ seen.result = <<>> /\ row.op = "undone" =>
          new.result = <<>> /\ new.undo_counts = [count EXCEPT ![k] = @ + 1]
    /\ seen.result = <<>> /\ row.op = "added" /\ count[k] > 0 =>
          new.result = <<>> /\ new.undo_counts = [count EXCEPT ![k] = @ - 1]
    /\ seen.result = <<>> /\ row.op = "added" /\ count[k] = 0 /\ row.target = "unknown" =>
          new = seen
    /\ seen.result = <<>> /\ row.op = "added" /\ count[k] = 0 /\ row.target # "unknown" =>
          new.result = <<row>>

LEMMA WalkIs ==
  ASSUME NEW row \in AuditLogRow, NEW seen \in Seen, NEW new, new = Walk(row, seen),
         NEW k, k = key(row), NEW count, count = seen.undo_counts
  PROVE  WalkFact(row, seen, new, k, count)
<1>1. k \in Pattern \X Id /\ count \in [Pattern \X Id -> Nat] /\ seen.result \in Seq(AuditLogRow)
  BY DEF key, AuditLogRow, Seen
<1>2. seen = [undo_counts |-> count, result |-> seen.result]
  BY DEF Seen
<1>3. count[k] \in Nat
  BY <1>1
<1>4. CASE seen.result # <<>> \/ row.op \in {"fragment", "unreadable"}
  <2>1. new = seen
    BY <1>4 DEF Walk
  <2> QED
    BY <1>1, <1>4, <2>1 DEF WalkFact
<1>5. CASE seen.result = <<>> /\ row.op = "undone"
  <2>1. new = [seen EXCEPT !.undo_counts[k] = count[k] + 1]
    BY <1>5 DEF Walk
  <2>2. new = [undo_counts |-> [count EXCEPT ![k] = count[k] + 1], result |-> <<>>]
    BY <1>2, <1>5, <2>1
  <2>3. [count EXCEPT ![k] = count[k] + 1] \in [Pattern \X Id -> Nat]
    BY <1>1, <1>3
  <2> QED
    BY <1>1, <1>5, <2>2, <2>3 DEF Seen, WalkFact
<1>6. CASE seen.result = <<>> /\ row.op = "added" /\ count[k] > 0
  <2>1. new = [seen EXCEPT !.undo_counts[k] = count[k] - 1]
    BY <1>6 DEF Walk
  <2>2. new = [undo_counts |-> [count EXCEPT ![k] = count[k] - 1], result |-> <<>>]
    BY <1>2, <1>6, <2>1
  <2>3. [count EXCEPT ![k] = count[k] - 1] \in [Pattern \X Id -> Nat]
    BY <1>1, <1>3, <1>6
  <2> QED
    BY <1>1, <1>6, <2>2, <2>3 DEF Seen, WalkFact
<1>7. CASE seen.result = <<>> /\ row.op = "added" /\ count[k] = 0 /\ row.target = "unknown"
  <2>1. new = seen
    BY <1>7 DEF Walk
  <2> QED
    BY <1>1, <1>7, <2>1 DEF WalkFact
<1>8. CASE seen.result = <<>> /\ row.op = "added" /\ count[k] = 0 /\ row.target # "unknown"
  <2>1. new = [seen EXCEPT !.result = <<row>>]
    BY <1>8 DEF Walk
  <2>2. new = [undo_counts |-> count, result |-> <<row>>]
    BY <1>2, <2>1
  <2>3. <<row>> \in Seq(AuditLogRow)
    OBVIOUS
  <2> QED
    BY <1>1, <1>8, <2>2, <2>3 DEF Seen, WalkFact
<1>9. row.op \in {"added", "undone", "fragment", "unreadable"}
  BY DEF AuditLogRow
<1> QED
  BY <1>3, <1>4, <1>5, <1>6, <1>7, <1>8, <1>9

LEMMA WalkType ==
  \A row \in AuditLogRow, seen \in Seen : Walk(row, seen) \in Seen
  BY WalkIs DEF WalkFact

\* The live additions of a known target in the lines from j on.
LiveFrom(l, j) == {i \in j..Len(l) : LiveIn(l, i) /\ l[i].target # "unknown"}
\* A count is the most by which any lines from j on have more undos.
Counts(l, j, count, k) ==
    /\ \A m \in j - 1..Len(l) : Balance(l, k, j, m) =< count[k]
    /\ \E m \in j - 1..Len(l) : Balance(l, k, j, m) = count[k]
\* What the walk knows once it has read the lines from j on.
Walked(l, j, seen) ==
    /\ LiveFrom(l, j) = {} => /\ seen.result = <<>>
                              /\ \A k \in Pattern \X Id : Counts(l, j, seen.undo_counts, k)
    /\ LiveFrom(l, j) # {} => seen.result = <<l[Max(LiveFrom(l, j))]>>

LEMMA Greatest ==
  ASSUME NEW n \in Nat, NEW S, S \subseteq 1..n, S # {}
  PROVE  \E x \in S : \A y \in S : x >= y
<1>1. PICK T : T = {z \in 0..n : n - z \in S}
  OBVIOUS
<1>2. \A y \in S : y \in Int /\ n - y \in T
  BY <1>1
<1>3. PICK z \in T : \A w \in T : z =< w
  <2>1. T \subseteq Nat
    BY <1>1
  <2>2. T # {}
    BY <1>2
  <2> QED
    BY <2>1, <2>2, Least
<1>4. n - z \in S /\ \A y \in S : n - z >= y
  BY <1>1, <1>2, <1>3
<1> QED
  BY <1>4

LEMMA MaxIs ==
  ASSUME NEW S, NEW x, S \subseteq Int, x \in S, \A y \in S : x >= y
  PROVE  Max(S) = x
<1>1. Max(S) \in S /\ Max(S) \in Int /\ \A y \in S : Max(S) >= y
  BY DEF Max
<1> QED
  BY <1>1

\* A line moves the count of its key by its weight, and never below 0.
LEMMA CountMoves ==
  ASSUME NEW l \in Seq(AuditLogRow), NEW j \in 1..Len(l), NEW k,
         NEW old, NEW new, Counts(l, j + 1, old, k), old[k] \in Nat,
         IF old[k] + Weight(l[j], k) >= 0 THEN new[k] = old[k] + Weight(l[j], k) ELSE new[k] = 0
  PROVE  Counts(l, j, new, k)
<1>1. PICK n \in Nat : n = Len(l)
  OBVIOUS
<1>2. ASSUME NEW m \in j..n
      PROVE  /\ Balance(l, k, j, m) = Balance(l, k, j + 1, m) + Weight(l[j], k)
             /\ Balance(l, k, j + 1, m) \in Int
  <2>1. j \in Int /\ m \in Int /\ j <= m /\ j + 1 \in Int
    OBVIOUS
  <2> QED
    BY <2>1, BalanceSteps, BalanceType
<1>3. Balance(l, k, j, j - 1) = 0
  BY BalanceType
<1>4. Weight(l[j], k) \in {-1, 0, 1}
  BY DEF Weight
<1>5. \A m \in j..n : Balance(l, k, j + 1, m) =< old[k]
  BY <1>1 DEF Counts
<1>6. PICK m \in j..n : Balance(l, k, j + 1, m) = old[k]
  BY <1>1 DEF Counts
<1>7. new[k] \in Nat /\ new[k] >= old[k] + Weight(l[j], k)
  BY <1>4
<1>8. ASSUME NEW x \in j..n PROVE Balance(l, k, j, x) =< new[k]
  <2>1. /\ Balance(l, k, j, x) = Balance(l, k, j + 1, x) + Weight(l[j], k)
        /\ Balance(l, k, j + 1, x) \in Int
    BY <1>2
  <2>2. Balance(l, k, j + 1, x) =< old[k]
    BY <1>5
  <2> QED
    BY <1>4, <1>7, <2>1, <2>2
<1>9. \A x \in j - 1..n : x = j - 1 \/ x \in j..n
  BY <1>1
<1>10. \A x \in j - 1..n : Balance(l, k, j, x) =< new[k]
  BY <1>3, <1>7, <1>8, <1>9
<1>11. \E x \in j - 1..n : Balance(l, k, j, x) = new[k]
  <2>1. m \in j - 1..n /\ j - 1 \in j - 1..n
    BY <1>1
  <2>2. CASE old[k] + Weight(l[j], k) >= 0
    BY <1>2, <1>6, <2>1, <2>2
  <2>3. CASE ~(old[k] + Weight(l[j], k) >= 0)
    BY <1>3, <2>1, <2>3
  <2> QED
    BY <2>2, <2>3
<1> QED
  BY <1>1, <1>10, <1>11 DEF Counts

\* An addition is live when the walk comes to it with the count 0.
LEMMA LiveAt ==
  ASSUME NEW l \in Seq(AuditLogRow), NEW j \in 1..Len(l), NEW k, k = key(l[j]),
         NEW old, Counts(l, j + 1, old, k), old[k] \in Nat, l[j].op = "added"
  PROVE  LiveIn(l, j) <=> old[k] = 0
<1>1. PICK n \in Nat : n = Len(l)
  OBVIOUS
<1>2. Weight(l[j], k) = -1
  BY DEF Weight
<1>3. ASSUME NEW m \in j..n
      PROVE  /\ Balance(l, k, j, m) = Balance(l, k, j + 1, m) - 1
             /\ Balance(l, k, j + 1, m) \in Int
  <2>1. j \in Int /\ m \in Int /\ j <= m /\ j + 1 \in Int
    OBVIOUS
  <2>2. /\ Balance(l, k, j, m) = Balance(l, k, j + 1, m) + Weight(l[j], k)
        /\ Balance(l, k, j + 1, m) \in Int
    BY <2>1, BalanceSteps, BalanceType
  <2> QED
    BY <1>2, <2>2
<1>4. \A m \in j..n : Balance(l, k, j + 1, m) =< old[k]
  BY <1>1 DEF Counts
<1>5. PICK m \in j..n : Balance(l, k, j + 1, m) = old[k]
  BY <1>1 DEF Counts
<1> QED
  BY <1>1, <1>3, <1>4, <1>5 DEF LiveIn

LEMMA WalkStep ==
  ASSUME NEW l \in Seq(AuditLogRow), NEW j \in 1..Len(l), NEW seen \in Seen,
         Walked(l, j + 1, seen)
  PROVE  Walked(l, j, Walk(l[j], seen))
<1>1. PICK row \in AuditLogRow : row = l[j]
  OBVIOUS
<1>a. PICK new, k, count : new = Walk(row, seen) /\ k = key(row) /\ count = seen.undo_counts
  OBVIOUS
<1>0. new = Walk(l[j], seen) /\ k = key(l[j]) /\ count = seen.undo_counts
  BY <1>1, <1>a
<1>b. WalkFact(row, seen, new, k, count)
  BY <1>a, WalkIs
<1>2. /\ k \in Pattern \X Id /\ count \in [Pattern \X Id -> Nat] /\ count[k] \in Nat
      /\ seen.result # <<>> \/ row.op \in {"fragment", "unreadable"} => new = seen
      /\ seen.result = <<>> /\ row.op = "undone" =>
               new.result = <<>> /\ new.undo_counts = [count EXCEPT ![k] = @ + 1]
      /\ seen.result = <<>> /\ row.op = "added" /\ count[k] > 0 =>
               new.result = <<>> /\ new.undo_counts = [count EXCEPT ![k] = @ - 1]
      /\ seen.result = <<>> /\ row.op = "added" /\ count[k] = 0 /\ row.target = "unknown" =>
               new = seen
      /\ seen.result = <<>> /\ row.op = "added" /\ count[k] = 0 /\ row.target # "unknown" =>
               new.result = <<row>>
  BY <1>b DEF WalkFact
<1>3. LiveFrom(l, j) = LiveFrom(l, j + 1) \cup
                       (IF LiveIn(l, j) /\ row.target # "unknown" THEN {j} ELSE {})
  <2>1. j..Len(l) = (j + 1..Len(l)) \cup {j}
    OBVIOUS
  <2> QED
    BY <1>1, <2>1 DEF LiveFrom
<1>4. CASE LiveFrom(l, j + 1) # {}
  <2>1. PICK x : x \in LiveFrom(l, j + 1) /\ \A y \in LiveFrom(l, j + 1) : x >= y
    <3>1. Len(l) \in Nat /\ LiveFrom(l, j + 1) \subseteq 1..Len(l)
      BY DEF LiveFrom
    <3> QED
      BY <1>4, <3>1, Greatest
  <2>2. /\ LiveFrom(l, j + 1) \subseteq Int /\ LiveFrom(l, j) \subseteq Int
        /\ \A y \in LiveFrom(l, j) : x >= y /\ x \in LiveFrom(l, j)
    BY <1>3, <2>1 DEF LiveFrom
  <2>3. Max(LiveFrom(l, j + 1)) = x /\ Max(LiveFrom(l, j)) = x
    <3>1. \A S : S \subseteq Int /\ x \in S /\ (\A y \in S : x >= y) => Max(S) = x
      BY MaxIs
    <3> QED
      BY <1>3, <2>1, <2>2, <3>1
  <2>4. seen.result = <<l[x]>> /\ new = seen
    <3>1. seen.result = <<l[x]>>
      BY <1>4, <2>3 DEF Walked
    <3>2. <<l[x]>> # <<>>
      OBVIOUS
    <3> QED
      BY <1>2, <3>1, <3>2
  <2> QED
    BY <1>0, <1>3, <1>4, <2>3, <2>4 DEF Walked
<1>5. CASE LiveFrom(l, j + 1) = {}
  <2>1. seen.result = <<>> /\ \A q \in Pattern \X Id : Counts(l, j + 1, count, q) /\ count[q] \in Nat
    BY <1>0, <1>2, <1>5 DEF Walked
  <2>2. row.op = "added" => (LiveIn(l, j) <=> count[k] = 0)
    BY <1>0, <1>1, <1>2, <2>1, LiveAt
  <2>3. CASE row.op = "added" /\ count[k] = 0 /\ row.target # "unknown"
    <3>1. LiveFrom(l, j) = {j}
      BY <1>3, <1>5, <2>2, <2>3
    <3>2. Max({j}) = j
      <4>1. {j} \subseteq Int /\ j \in {j} /\ \A y \in {j} : j >= y
        OBVIOUS
      <4> QED
        BY <4>1, MaxIs
    <3> QED
      BY <1>0, <1>1, <1>2, <2>1, <2>3, <3>1, <3>2 DEF Walked
  <2>4. CASE ~(row.op = "added" /\ count[k] = 0 /\ row.target # "unknown")
    <3>1. LiveFrom(l, j) = {}
      BY <1>1, <1>3, <1>5, <2>2, <2>4 DEF LiveIn
    <3>2. new.result = <<>>
      BY <1>1, <1>2, <2>1, <2>4 DEF AuditLogRow
    <3>3. ASSUME NEW q \in Pattern \X Id PROVE Counts(l, j, new.undo_counts, q)
      <4>1. Counts(l, j + 1, count, q) /\ count[q] \in Nat
        BY <2>1
      <4>2. IF count[q] + Weight(row, q) >= 0 THEN new.undo_counts[q] = count[q] + Weight(row, q)
                                              ELSE new.undo_counts[q] = 0
        <5>1. CASE row.op \in {"fragment", "unreadable"}
          BY <1>0, <1>2, <4>1, <5>1 DEF Weight
        <5>2. CASE row.op = "undone"
          BY <1>0, <1>1, <1>2, <2>1, <4>1, <5>2 DEF Weight
        <5>3. CASE row.op = "added" /\ count[k] > 0
          BY <1>0, <1>1, <1>2, <2>1, <4>1, <5>3 DEF Weight
        <5>4. CASE row.op = "added" /\ count[k] = 0 /\ row.target = "unknown"
          BY <1>0, <1>1, <1>2, <2>1, <4>1, <5>4 DEF Weight
        <5> QED
          BY <1>1, <1>2, <2>4, <5>1, <5>2, <5>3, <5>4 DEF AuditLogRow
      <4> QED
        BY <1>1, <4>1, <4>2, CountMoves
    <3> QED
      BY <1>0, <3>1, <3>2, <3>3 DEF Walked
  <2> QED
    BY <2>3, <2>4
<1> QED
  BY <1>4, <1>5

\* The fold over the lines from j on is one more step of the walk.
LEMMA WalkFolds ==
  ASSUME NEW l \in Seq(AuditLogRow), NEW base \in Seen
  PROVE  \E f \in [1..Len(l) + 1 -> Seen] :
           /\ f[Len(l) + 1] = base /\ FoldRight(Walk, l, base) = f[1]
           /\ \A j \in 1..Len(l) : f[j] = Walk(l[j], f[j + 1])
<1> DEFINE Body(f, s) == IF s = {} THEN base ELSE LET x == Min(s) IN Walk(l[x], f[s \ {x}])
           iter == CHOOSE f : f = [s \in SUBSET DOMAIN l |-> Body(f, s)]
<1>1. FoldRight(Walk, l, base) = iter[DOMAIN l]
  BY DEF FoldRight, MapThenFoldSet
<1>2. PICK n \in Nat : n = Len(l) /\ DOMAIN l = 1..n
  OBVIOUS
<1>3. PICK f \in [SUBSET (1..n) -> Seen] : \A s \in SUBSET (1..n) : f[s] = Body(f, s)
  <2>1. PICK g : g = [p \in (1..n) \X Seen |-> Walk(l[p[1]], p[2])]
    OBVIOUS
  <2>2. \A x \in 1..n, v \in Seen : g[<<x, v>>] = Walk(l[x], v) /\ Walk(l[x], v) \in Seen
    <3>1. \A x \in 1..n : l[x] \in AuditLogRow
      BY <1>2
    <3> QED
      BY <2>1, <3>1, WalkType
  <2>3. g \in [(1..n) \X Seen -> Seen]
    BY <2>1, <2>2
  <2>4. PICK S, c : S = 1..n /\ c = [s \in SUBSET S |-> Min(s)]
    OBVIOUS
  <2>5. IsFiniteSet(S) /\ Chooses(c, S) /\ \A s \in SUBSET S : c[s] = Min(s)
    <3>1. \A s \in SUBSET S : c[s] = Min(s)
      BY <2>4
    <3>2. n \in Nat /\ 1 \in Nat
      OBVIOUS
    <3>3. \A s \in SUBSET S : s # {} => Min(s) \in s
      BY <2>4, <3>2, MinFrom
    <3>4. IsFiniteSet(S)
      BY <2>4, FS_Interval
    <3> QED
      BY <3>1, <3>3, <3>4 DEF Chooses
  <2>6. PICK f \in [SUBSET S -> Seen] : IsFold(f, S, base, c, g)
    BY <2>3, <2>4, <2>5, FoldExists
  <2>7. ASSUME NEW s \in SUBSET S PROVE f[s] = Body(f, s)
    <3>1. CASE s = {}
      BY <2>6, <3>1 DEF IsFold
    <3>2. CASE s # {}
      <4>1. PICK x, v : x = Min(s) /\ v = f[s \ {x}]
        OBVIOUS
      <4>2. x \in 1..n /\ v \in Seen
        BY <2>4, <2>6, <3>2, <4>1, MinFrom
      <4>3. f[s] = g[<<x, v>>]
        BY <2>5, <2>6, <3>2, <4>1 DEF IsFold
      <4> QED
        BY <2>2, <3>2, <4>1, <4>2, <4>3
    <3> QED
      BY <3>1, <3>2
  <2> HIDE DEF Body
  <2> QED
    BY <2>4, <2>7
<1>4. iter = [s \in SUBSET (1..n) |-> Body(iter, s)]
  <2>1. f = [s \in SUBSET (1..n) |-> Body(f, s)]
    <3> HIDE DEF Body
    <3> QED
      BY <1>3
  <2> HIDE DEF Body
  <2> QED
    BY <1>2, <2>1
<1> HIDE DEF iter
<1> DEFINE h == [j \in 1..n + 1 |-> iter[j..n]]
<1>5. h[n + 1] = base
  <2>1. n + 1..n = {} /\ {} \in SUBSET (1..n) /\ n + 1 \in 1..n + 1
    OBVIOUS
  <2>2. iter[{}] = Body(iter, {})
    BY <1>4, <2>1
  <2> QED
    BY <2>1, <2>2
<1>6. ASSUME NEW j \in 1..n PROVE h[j] = Walk(l[j], h[j + 1])
  <2>1. Min(j..n) = j /\ (j..n) \ {j} = j + 1..n /\ j..n \in SUBSET (1..n) /\ j..n # {}
    <3>1. j \in Nat /\ n \in Nat /\ 1 <= j /\ j <= n
      OBVIOUS
    <3> QED
      BY <3>1, MinFrom
  <2>2. iter[j..n] = Body(iter, j..n)
    <3> HIDE DEF Body
    <3> QED
      BY <1>4, <2>1
  <2>3. Body(iter, j..n) = Walk(l[j], iter[j + 1..n])
    BY <2>1
  <2>4. h[j] = iter[j..n] /\ h[j + 1] = iter[j + 1..n]
    OBVIOUS
  <2> QED
    BY <2>2, <2>3, <2>4
<1> HIDE DEF h
<1> DEFINE Good == {k \in Nat : k <= n => h[n + 1 - k] \in Seen}
<1>7. Nat \subseteq Good
  <2>1. 0 \in Good
    BY <1>5
  <2>2. ASSUME NEW k \in Nat, k \in Good PROVE k + 1 \in Good
    <3> SUFFICES ASSUME k + 1 <= n PROVE h[n + 1 - (k + 1)] \in Seen
      OBVIOUS
    <3>1. PICK j \in 1..n : j = n - k
      OBVIOUS
    <3>2. n + 1 - k = j + 1 /\ n + 1 - (k + 1) = j
      BY <3>1
    <3>3. h[j + 1] \in Seen /\ l[j] \in AuditLogRow
      BY <1>2, <2>2, <3>2
    <3> QED
      BY <1>6, <3>2, <3>3, WalkType
  <2> HIDE DEF Good
  <2> QED
    BY <2>1, <2>2, Induction
<1>8. ASSUME NEW j \in 1..n + 1 PROVE h[j] \in Seen
  <2>1. n + 1 - j \in Nat /\ n + 1 - j <= n /\ n + 1 - (n + 1 - j) = j
    OBVIOUS
  <2> QED
    BY <1>7, <2>1
<1>9. h = [j \in 1..n + 1 |-> h[j]] /\ h[1] = iter[1..n]
  BY DEF h
<1>10. h \in [1..n + 1 -> Seen]
  BY <1>8, <1>9
<1> QED
  BY <1>1, <1>2, <1>5, <1>6, <1>9, <1>10

LEMMA WalkFinds ==
  ASSUME TypeOK
  PROVE  find_last_undone_addition =
           IF LiveFrom(log, 1) = {} THEN <<>> ELSE <<log[Max(LiveFrom(log, 1))]>>
<1>1. PICK base : base = [undo_counts |-> [k \in Pattern \X Id |-> 0], result |-> <<>>]
  OBVIOUS
<1>2. base \in Seen
  <2>1. <<>> \in Seq(AuditLogRow)
    OBVIOUS
  <2> QED
    BY <1>1, <2>1 DEF Seen
<1>3. PICK n \in Nat : n = Len(log) /\ log \in Seq(AuditLogRow)
  BY DEF TypeOK
<1>4. PICK f \in [1..n + 1 -> Seen] : /\ f[n + 1] = base /\ FoldRight(Walk, log, base) = f[1]
                                      /\ \A j \in 1..n : f[j] = Walk(log[j], f[j + 1])
  <2>1. \E f \in [1..Len(log) + 1 -> Seen] :
           /\ f[Len(log) + 1] = base /\ FoldRight(Walk, log, base) = f[1]
           /\ \A j \in 1..Len(log) : f[j] = Walk(log[j], f[j + 1])
    BY <1>2, <1>3, WalkFolds
  <2> QED
    BY <1>3, <2>1
<1> DEFINE Good == {k \in Nat : k <= n => Walked(log, n + 1 - k, f[n + 1 - k])}
<1>5. 0 \in Good
  <2>1. LiveFrom(log, n + 1) = {}
    BY <1>3 DEF LiveFrom
  <2>2. ASSUME NEW k \in Pattern \X Id PROVE Counts(log, n + 1, base.undo_counts, k)
    <3>1. base.undo_counts[k] = 0
      BY <1>1
    <3>2. Balance(log, k, n + 1, n) = 0
      BY BalanceType
    <3>3. n + 1 - 1..n = {n}
      OBVIOUS
    <3> QED
      BY <1>3, <3>1, <3>2, <3>3 DEF Counts
  <2>3. Walked(log, n + 1, base)
    BY <1>1, <2>1, <2>2 DEF Walked
  <2> QED
    BY <1>4, <2>3
<1>6. ASSUME NEW k \in Nat, k \in Good PROVE k + 1 \in Good
  <2> SUFFICES ASSUME k + 1 <= n PROVE Walked(log, n + 1 - (k + 1), f[n + 1 - (k + 1)])
    OBVIOUS
  <2>1. PICK j \in 1..n : j = n - k
    OBVIOUS
  <2>2. n + 1 - k = j + 1 /\ n + 1 - (k + 1) = j
    BY <2>1
  <2>3. Walked(log, j + 1, f[j + 1]) /\ f[j + 1] \in Seen
    BY <1>6, <2>2
  <2> QED
    BY <1>3, <1>4, <2>2, <2>3, WalkStep
<1>7. Nat \subseteq Good
  <2> HIDE DEF Good
  <2> QED
    BY <1>5, <1>6, Induction
<1>8. Walked(log, 1, f[1])
  <2>1. n \in Good /\ n + 1 - n = 1
    BY <1>7
  <2> QED
    BY <2>1
<1>9. find_last_undone_addition = f[1].result
  BY <1>1, <1>4 DEF find_last_undone_addition
<1> QED
  BY <1>8, <1>9 DEF Walked

\* Whatever the log holds, the reverse walk with its counters finds the last
\* addition that undos, each standing for the youngest addition before it,
\* have left: what `ccbridged undo-last-allow` would take back next.
THEOREM WalkIsRight == Spec => []FindIsLastLive
<1>1. ASSUME TypeOK PROVE FindIsLastLive
  <2>1. DOMAIN log = 1..Len(log)
    BY <1>1 DEF TypeOK
  <2>2. {i \in DOMAIN log : Live(i) /\ log[i].target # "unknown"} = LiveFrom(log, 1)
    BY <1>1, <2>1, LiveIs DEF LiveFrom
  <2> QED
    BY <1>1, <2>2, WalkFinds DEF FindIsLastLive
<1> QED
  BY <1>1, TypeCorrect, PTL

-----------------------------------------------------------------------------
(* Additions can be undone.                                                *)

\* The keys whose undo is saved but not yet in the log.
Taken == {key(job[c]) : c \in {d \in Cli : pc[d] \in {"renamed", "append"} /\ job[d].op = "undo"}}

\* Rows and jobs of one key are of one settings file, and what is undone was added.
KeysInv ==
    /\ \A i, j \in DOMAIN log : key(log[i]) = key(log[j]) => log[i].target = log[j].target
    /\ \A p \in Process : job[p].op \in {"add", "undo"} =>
         \A i \in DOMAIN log : key(log[i]) = key(job[p]) => log[i].target = job[p].file
    /\ \A p \in Process : job[p].op = "undo" =>
         \E i \in DOMAIN log : log[i].op = "added" /\ key(log[i]) = key(job[p])

\* An addition that is live, and will be after the undo of its key.
Spare(i) ==
    /\ LiveIn(log, i)
    /\ key(log[i]) \in Taken => Balance(log, key(log[i]), i, Len(log)) < -1

Reserved(c) ==
    job[c].op = "undo" /\ job[c].pattern \notin unlogged =>
       \E i \in DOMAIN log : LiveIn(log, i) /\ key(log[i]) = key(job[c])
InFile(r, p) == p \in file[r].allow \ (byHand[r] \cup unlogged) /\ spoiled[r] = {}
Adding(r, p) ==
    job[Daemon].file = r /\ job[Daemon].pattern = p /\ pc[Daemon] \in {"renamed", "append"}
Undoable(r, p) ==
    InFile(r, p) /\ ~Adding(r, p) =>
       \E i \in DOMAIN log : Spare(i) /\ log[i].pattern = p /\ log[i].target = r
AllReserved == \A c \in Cli : Reserved(c)
AllUndoable == \A r \in Root, p \in Pattern : Undoable(r, p)

UndoInv == SavesInv /\ KeysInv /\ AllReserved /\ AllUndoable

LEMMA BalanceSame ==
  ASSUME NEW l, NEW l2, NEW k, NEW j \in Int, NEW m \in Int,
         \A x \in j..m : Weight(l[x], k) = Weight(l2[x], k)
  PROVE  Balance(l, k, j, m) = Balance(l2, k, j, m)
<1>1. Undos(l, k, j, m) = Undos(l2, k, j, m) /\ Adds(l, k, j, m) = Adds(l2, k, j, m)
  BY DEF Undos, Adds, Weight
<1> QED
  BY <1>1 DEF Balance

\* An addition that is as live in the log l2 as it is in l.
Firm(l, l2, i) ==
    /\ i \in DOMAIN l2 /\ l2[i] = l[i] /\ LiveIn(l2, i)
    /\ Balance(l2, key(l[i]), i, Len(l2)) <= Balance(l, key(l[i]), i, Len(l))

LEMMA SameIsFirm ==
  ASSUME NEW l \in Seq(AuditLogRow), NEW i \in DOMAIN l, LiveIn(l, i)
  PROVE  Firm(l, l, i)
<1>1. i \in Int /\ Len(l) \in Int
  OBVIOUS
<1> QED
  BY <1>1, BalanceType DEF Firm

\* One more line at the end of the log.
LEMMA AppendBalance ==
  ASSUME NEW l \in Seq(AuditLogRow), NEW row \in AuditLogRow, NEW i \in DOMAIN l, NEW k
  PROVE  /\ \A m \in i..Len(l) : Balance(Append(l, row), k, i, m) = Balance(l, k, i, m)
         /\ Balance(Append(l, row), k, i, Len(l) + 1) = Balance(l, k, i, Len(l)) + Weight(row, k)
         /\ Balance(l, k, i, Len(l)) \in Int
<1>a. PICK n \in Nat : n = Len(l)
  OBVIOUS
<1>b. PICK l2 : l2 = Append(l, row)
  OBVIOUS
<1>1. n = Len(l) /\ l2 = Append(l, row)
  BY <1>a, <1>b
<1>2. /\ i \in Int /\ 1 <= i /\ i <= n /\ n + 1 \in Int
      /\ Len(l2) = n + 1 /\ l2[n + 1] = row
      /\ \A x \in i..n : l2[x] = l[x]
  BY <1>1
<1>3. ASSUME NEW m \in i..n PROVE Balance(l, k, i, m) = Balance(l2, k, i, m)
  <2>1. m \in Int /\ \A x \in i..m : Weight(l[x], k) = Weight(l2[x], k)
    BY <1>2
  <2> QED
    BY <1>2, <2>1, BalanceSame
<1>4. Balance(l2, k, i, n + 1) = Balance(l2, k, i, n) + Weight(row, k)
  <2>1. PICK m \in Int : m = n + 1 /\ i <= m /\ m - 1 = n
    BY <1>2
  <2>2. Balance(l2, k, i, m) = Balance(l2, k, i, m - 1) + Weight(l2[m], k)
    <3>1. i \in Int /\ m \in Int /\ i <= m
      BY <1>2, <2>1
    <3> QED
      BY <3>1, BalanceSteps
  <2> QED
    BY <1>2, <2>1, <2>2
<1>5. n \in i..n /\ Balance(l, k, i, n) \in Int
  BY <1>2, BalanceType
<1> QED
  BY <1>1, <1>3, <1>4, <1>5

\* A line leaves an addition live that its balance allows for.
LEMMA AppendLeaves ==
  ASSUME NEW l \in Seq(AuditLogRow), NEW row \in AuditLogRow, NEW i \in DOMAIN l, LiveIn(l, i),
         Balance(l, key(l[i]), i, Len(l)) + Weight(row, key(l[i])) < 0
  PROVE  LiveIn(Append(l, row), i) /\ i \in DOMAIN Append(l, row) /\ Append(l, row)[i] = l[i]
<1>1. PICK n \in Nat : n = Len(l)
  OBVIOUS
<1>2. PICK l2, k : l2 = Append(l, row) /\ k = key(l[i])
  OBVIOUS
<1>3. Len(l2) = n + 1 /\ i \in DOMAIN l2 /\ l2[i] = l[i] /\ l[i].op = "added"
  BY <1>1, <1>2 DEF LiveIn
<1>4. \A m \in i..n : Balance(l2, k, i, m) < 0
  BY <1>1, <1>2, AppendBalance DEF LiveIn
<1>5. Balance(l2, k, i, n + 1) < 0
  BY <1>1, <1>2, AppendBalance
<1>6. \A m \in i..n + 1 : m = n + 1 \/ m \in i..n
  BY <1>1
<1>7. \A m \in i..n + 1 : Balance(l2, k, i, m) < 0
  BY <1>4, <1>5, <1>6
<1> QED
  BY <1>2, <1>3, <1>7 DEF LiveIn

\* A line that does not undo the addition is written at the end.
LEMMA AppendIsFirm ==
  ASSUME NEW l \in Seq(AuditLogRow), NEW row \in AuditLogRow, NEW i \in DOMAIN l, LiveIn(l, i),
         ~(row.op = "undone" /\ key(row) = key(l[i]))
  PROVE  Firm(l, Append(l, row), i)
<1>1. PICK n \in Nat : n = Len(l)
  OBVIOUS
<1>2. PICK l2, k : l2 = Append(l, row) /\ k = key(l[i])
  OBVIOUS
<1>3. Weight(row, k) \in {0, -1}
  BY <1>2 DEF Weight
<1>4. Balance(l2, k, i, n + 1) = Balance(l, k, i, n) + Weight(row, k) /\ Balance(l, k, i, n) \in Int
  BY <1>1, <1>2, AppendBalance
<1>5. n \in i..n
  BY <1>1
<1>6. Balance(l, k, i, n) < 0
  BY <1>1, <1>2, <1>5 DEF LiveIn
<1>7. LiveIn(l2, i) /\ i \in DOMAIN l2 /\ l2[i] = l[i]
  BY <1>1, <1>2, <1>3, <1>4, <1>6, AppendLeaves
<1>8. Len(l2) = n + 1
  BY <1>1, <1>2
<1>9. Balance(l2, k, i, n + 1) <= Balance(l, k, i, n)
  BY <1>3, <1>4
<1> QED
  BY <1>1, <1>2, <1>7, <1>8, <1>9 DEF Firm

\* The log is cut, or its last line, which was a fragment, is replaced.
LEMMA CutIsFirm ==
  ASSUME NEW l \in Seq(AuditLogRow), NEW l2 \in Seq(AuditLogRow), Len(l2) <= Len(l),
         NEW i \in DOMAIN l2, l2[i] = l[i], LiveIn(l, i),
         \A x \in i..Len(l2) : Weight(l[x], key(l[i])) = Weight(l2[x], key(l[i]))
  PROVE  LiveIn(l2, i) /\ (Len(l2) = Len(l) => Firm(l, l2, i))
<1>1. PICK n, k : n \in Nat /\ n = Len(l2) /\ k = key(l[i])
  OBVIOUS
<1>2. i \in Int /\ 1 <= i /\ i <= n /\ n <= Len(l) /\ n \in Int
  BY <1>1
<1>3. ASSUME NEW m \in i..n PROVE Balance(l, k, i, m) = Balance(l2, k, i, m)
  <2>1. m \in Int /\ \A x \in i..m : Weight(l[x], k) = Weight(l2[x], k)
    BY <1>1, <1>2
  <2> QED
    BY <1>2, <2>1, BalanceSame
<1>4. \A m \in i..n : m \in i..Len(l)
  BY <1>2
<1>5. LiveIn(l2, i)
  BY <1>1, <1>3, <1>4 DEF LiveIn
<1>6. n \in i..n /\ Balance(l2, k, i, n) \in Int
  BY <1>2, BalanceType
<1>7. Len(l2) = Len(l) => Balance(l2, k, i, n) <= Balance(l, k, i, n)
  BY <1>3, <1>6
<1> QED
  BY <1>1, <1>5, <1>7 DEF Firm

\* What a job is for, whatever its copy.
Task(j) == <<j.op, j.file, j.pattern, j.id>>
TasksStay ==
    \A q \in Process : Task(job'[q]) = Task(job[q]) \/ job'[q].op \notin {"add", "undo"}
LogGrows(op, j) ==
    \/ ~Glued /\ log' = Append(log, Row(op, j))
    \/ Glued /\ log' = Append(Front(log), Row("unreadable", j))
\* A step of p, at the end of its job, that writes to the log.
LogOp == {"added", "undone", "fragment"}
Logs(p, op) ==
    /\ pc[p] = "append" /\ stop(p) /\ LogGrows(op, job[p])
    /\ op = "undone" => p \in Cli /\ AppendUndone(p)

\* The steps, by what they do to the log and to the jobs.
LEMMA Kinds ==
    ASSUME TypeOK, Roles, Next
    PROVE  \/ PowerLoss
           \/ \E r \in Root, p \in Pattern, id \in Id \ {0} : Always(r, p, id)
           \/ \E c \in Cli : Undo(c)
           \/ log' = log /\ TasksStay
           \/ \E p \in Process, op \in LogOp : Logs(p, op)
  <1>0. /\ \A p \in Process : job[p] \in Job
        /\ Place = {"idle", "found", "loaded", "opened", "written", "renamed", "append", "config"}
        /\ NoJob.op = "none"
    BY DEF TypeOK, Place, NoJob
  <1>1. ASSUME NEW p \in Process, stop(p) PROVE TasksStay
    <2>1. job'[p] = NoJob /\ \A q \in Process \ {p} : job'[q] = job[q]
      BY <1>0, <1>1, JobFacts, Others DEF stop
    <2> QED
      BY <1>0, <2>1 DEF TasksStay
  <1>2. job' = job => TasksStay
    BY DEF TasksStay
  <1>3. ASSUME AppendAdded PROVE \E p \in Process, op \in LogOp : Logs(p, op)
    <2>1. "added" \in LogOp /\ Daemon \in Process /\ pc[Daemon] = "append" /\ stop(Daemon)
          /\ append_audit_entry("added", job[Daemon])
      BY <1>3, FileFacts DEF AppendAdded, LogOp
    <2>2. LogGrows("added", job[Daemon])
      BY <2>1 DEF LogGrows, append_audit_entry
    <2> QED
      BY <2>1, <2>2 DEF Logs
  <1>4. ASSUME NEW c \in Cli, Command(c) PROVE  Undo(c) \/ (log' = log /\ TasksStay) \/ Logs(c, "undone")
    <2>0. c \in Process
      BY FileFacts
    <2>1. CASE UndoRefuses(c) \/ KeepConfig(c)
      BY <1>1, <2>0, <2>1 DEF UndoRefuses, KeepConfig
    <2>2. CASE UndoFindsNothing(c) \/ SetupHasHooks(c)
      BY <1>2, <2>2 DEF UndoFindsNothing, SetupHasHooks, goto
    <2>3. CASE AppendUndone(c)
      <3>1. pc[c] = "append" /\ stop(c) /\ append_audit_entry("undone", job[c])
        BY <2>3 DEF AppendUndone
      <3>2. LogGrows("undone", job[c])
        BY <3>1 DEF LogGrows, append_audit_entry
      <3> QED
        BY <2>3, <3>1, <3>2 DEF Logs
    <2>4. ASSUME NEW j, j.op \notin {"add", "undo"} \/ Task(j) = Task(job[c]), start(c, j, "loaded")
          PROVE  TasksStay
      <3>1. job'[c] = j /\ \A q \in Process \ {c} : job'[q] = job[q]
        BY <1>0, <2>0, <2>4 DEF start, TypeOK
      <3> QED
        BY <2>4, <3>1 DEF TasksStay
    <2>5. CASE UndoLoads(c)
      <3>1. log' = log /\ pc[c] = "found"
        BY <2>5 DEF UndoLoads
      <3>2. PICK j : j = [op |-> "undo", file |-> job[c].file, pattern |-> job[c].pattern,
                          id |-> job[c].id, copy |-> Object(file[job[c].file].allow \ {job[c].pattern},
                                                            file[job[c].file].hooks)]
        OBVIOUS
      <3>3. start(c, j, "loaded")
        BY <2>5, <3>2 DEF UndoLoads, load
      <3>4. job[c].op = "undo"
        BY <2>0, <3>1 DEF Roles, Role
      <3> QED
        BY <2>4, <3>1, <3>2, <3>3, <3>4 DEF Task
    <2>6. CASE Setup(c)
      <3>1. log' = log
        BY <2>6 DEF Setup
      <3>2. PICK j : j = [op |-> "setup", file |-> User, pattern |-> NoJob.pattern, id |-> 0,
                          copy |-> Object(file[User].allow, HookEvent)]
        OBVIOUS
      <3>3. start(c, j, "loaded")
        BY <2>6, <3>2 DEF Setup, load
      <3> QED
        BY <2>4, <3>1, <3>2, <3>3
    <2>7. CASE WriteConfig(c)
      <3>1. log' = log
        BY <2>7 DEF WriteConfig
      <3>2. PICK j : j = [op |-> "config", file |-> Config, pattern |-> NoJob.pattern, id |-> 0,
                          copy |-> Object({}, {})]
        OBVIOUS
      <3>3. start(c, j, "loaded")
        BY <2>7, <3>2 DEF WriteConfig, load
      <3> QED
        BY <2>4, <3>1, <3>2, <3>3
    <2> QED
      BY <1>4, <2>1, <2>2, <2>3, <2>5, <2>6, <2>7, Zenon DEF Command
  <1>5. ASSUME NEW p \in Process, Save(p) PROVE (log' = log /\ TasksStay) \/ Logs(p, "fragment")
    <2>1. CASE OpenTmp(p) \/ WriteTmp(p) \/ SyncDir(p) \/ SyncFails(p)
      BY <1>2, <2>1 DEF OpenTmp, WriteTmp, SyncDir, SyncFails, saved, goto
    <2>2. CASE WriteFails(p) \/ RenameFails(p) \/ Dies(p)
      BY <1>1, <2>2 DEF WriteFails, RenameFails, Dies
    <2>3. CASE Rename(p)
      <3>1. log' = log /\ (stop(p) \/ goto(p, "renamed"))
        BY <2>3 DEF Rename
      <3> QED
        BY <1>1, <1>2, <3>1 DEF goto
    <2>4. CASE AppendFails(p)
      <3>1. pc[p] = "append" /\ stop(p)
            /\ (log' = log \/ log' = IF Glued THEN log ELSE Append(log, Row("fragment", job[p])))
        BY <2>4 DEF AppendFails
      <3>2. CASE log' = log
        BY <1>1, <3>1, <3>2
      <3>3. CASE log' # log
        <4>1. LogGrows("fragment", job[p])
          BY <3>1, <3>3 DEF LogGrows
        <4> QED
          BY <3>1, <4>1 DEF Logs
      <3> QED
        BY <3>2, <3>3
    <2> QED
      BY <1>5, <2>1, <2>2, <2>3, <2>4 DEF Save
  <1>6. ASSUME NEW f \in File, UserEdits(f) PROVE log' = log /\ TasksStay
    BY <1>2, <1>6 DEF UserEdits
  <1>7. CASE AppendAdded
    BY <1>3, <1>7
  <1>8. CASE \E c \in Cli : Command(c)
    <2>1. PICK c \in Cli : Command(c)
      BY <1>8
    <2>2. c \in Process /\ "undone" \in LogOp
      BY FileFacts DEF LogOp
    <2> QED
      BY <1>4, <2>1, <2>2
  <1>9. CASE \E p \in Process : Save(p)
    BY <1>5, <1>9 DEF LogOp
  <1>10. CASE \E f \in File : UserEdits(f)
    BY <1>6, <1>10
  <1> QED
    BY <1>7, <1>8, <1>9, <1>10 DEF Next

LEMMA FrontIs ==
    ASSUME TypeOK, Glued
    PROVE  /\ Len(log) \in Nat /\ Len(log) > 0 /\ log[Len(log)].op = "fragment"
           /\ Front(log) \in Seq(AuditLogRow) /\ Len(Front(log)) = Len(log) - 1
           /\ \A x \in 1..Len(log) - 1 : Front(log)[x] = log[x]
  <1>1. log \in Seq(AuditLogRow) /\ log # <<>> /\ log[Len(log)].op = "fragment"
    BY DEF TypeOK, Glued, Last
  <1>2. Len(log) \in Nat /\ Len(log) > 0
    BY <1>1
  <1>3. SubSeq(log, 1, Len(log) - 1) \in Seq(AuditLogRow)
        /\ Len(SubSeq(log, 1, Len(log) - 1)) = Len(log) - 1
        /\ \A x \in 1..Len(log) - 1 : SubSeq(log, 1, Len(log) - 1)[x] = log[x]
    <2>1. PICK n \in Nat : n = Len(log) - 1
      BY <1>2
    <2>2. 1 \in 1..Len(log) + 1 /\ n \in 1 - 1..Len(log)
      BY <1>2, <2>1
    <2>3. /\ SubSeq(log, 1, n) \in Seq(AuditLogRow)
          /\ Len(SubSeq(log, 1, n)) = IF 1 =< n THEN n - 1 + 1 ELSE 0
          /\ \A x \in 1..n - 1 + 1 : SubSeq(log, 1, n)[x] = log[1 + x - 1]
      BY <1>1, <2>2, SubSeqProperties
    <2>4. ASSUME NEW x \in 1..n PROVE SubSeq(log, 1, n)[x] = log[x]
      <3>1. x \in 1..n - 1 + 1 /\ 1 + x - 1 = x
        BY <2>1
      <3> QED
        BY <2>3, <3>1
    <2>5. Len(SubSeq(log, 1, n)) = n
      BY <2>1, <2>3
    <2> QED
      BY <2>1, <2>3, <2>4, <2>5
  <1> QED
    BY <1>1, <1>2, <1>3 DEF Front

\* An added line stays, until the power goes.
LEMMA AddedStays ==
    ASSUME TypeOK, NEW p \in Process, NEW op \in LogOp, Logs(p, op), NEW i \in DOMAIN log, log[i].op = "added"
    PROVE  i \in DOMAIN log' /\ log'[i] = log[i]
  <1>1. LogGrows(op, job[p]) /\ op \in {"added", "undone", "fragment", "unreadable"}
    BY DEF Logs, LogOp
  <1>2. log \in Seq(AuditLogRow) /\ job[p] \in Job
    BY DEF TypeOK
  <1>3. CASE ~Glued /\ log' = Append(log, Row(op, job[p]))
    BY <1>2, <1>3
  <1>4. CASE Glued /\ log' = Append(Front(log), Row("unreadable", job[p]))
    <2>1. Len(log) \in Nat /\ Len(log) > 0 /\ log[Len(log)].op = "fragment"
      BY <1>4, FrontIs
    <2>2. i # Len(log) /\ i \in 1..Len(log) - 1
      BY <1>2, <2>1
    <2>3. Front(log) \in Seq(AuditLogRow) /\ Len(Front(log)) = Len(log) - 1
          /\ \A x \in 1..Len(log) - 1 : Front(log)[x] = log[x]
      BY <1>4, FrontIs
    <2> QED
      BY <1>4, <2>2, <2>3
  <1> QED
    BY <1>1, <1>3, <1>4 DEF LogGrows

\* Every line of the new log is an old one, or of the job that has written it.
LEMMA LinesFrom ==
    ASSUME TypeOK, NEW p \in Process, NEW op \in LogOp, Logs(p, op), NEW i \in DOMAIN log'
    PROVE  \/ i \in DOMAIN log /\ log'[i] = log[i]
           \/ key(log'[i]) = key(job[p]) /\ log'[i].target = job[p].file
  <1>1. LogGrows(op, job[p]) /\ op \in {"added", "undone", "fragment", "unreadable"}
    BY DEF Logs, LogOp
  <1>2. log \in Seq(AuditLogRow) /\ job[p] \in Job
    BY DEF TypeOK
  <1>3. \A o : key(Row(o, job[p])) = key(job[p]) /\ Row(o, job[p]).target = job[p].file
    BY DEF key, Row
  <1>4. CASE ~Glued /\ log' = Append(log, Row(op, job[p]))
    <2>1. i \in DOMAIN log \/ i = Len(log) + 1
      BY <1>2, <1>4
    <2> QED
      BY <1>2, <1>3, <1>4, <2>1
  <1>5. CASE Glued /\ log' = Append(Front(log), Row("unreadable", job[p]))
    <2>1. Len(log) \in Nat /\ Len(log) > 0 /\ log[Len(log)].op = "fragment"
      BY <1>5, FrontIs
    <2>2. Front(log) \in Seq(AuditLogRow) /\ Len(Front(log)) = Len(log) - 1
          /\ \A x \in 1..Len(log) - 1 : Front(log)[x] = log[x]
      BY <1>5, FrontIs
    <2>3. i \in 1..Len(log) - 1 \/ i = Len(log)
      BY <1>5, <2>1, <2>2
    <2> QED
      BY <1>2, <1>3, <1>5, <2>1, <2>2, <2>3
  <1> QED
    BY <1>1, <1>4, <1>5 DEF LogGrows

\* No line but an undo of its key makes an addition less live.
LEMMA LogIsFirm ==
    ASSUME TypeOK, NEW p \in Process, NEW op \in LogOp, Logs(p, op), NEW i \in DOMAIN log, LiveIn(log, i),
           op = "undone" => key(job[p]) # key(log[i]) \/ Glued
    PROVE  Firm(log, log', i)
  <1>1. LogGrows(op, job[p]) /\ op \in {"added", "undone", "fragment", "unreadable"}
    BY DEF Logs, LogOp
  <1>2. log \in Seq(AuditLogRow) /\ job[p] \in Job /\ i \in Int
    BY DEF TypeOK
  <1>3. \A o : key(Row(o, job[p])) = key(job[p]) /\ Row(o, job[p]).op = o
    BY DEF key, Row
  <1>4. CASE ~Glued /\ log' = Append(log, Row(op, job[p]))
    <2>1. Row(op, job[p]) \in AuditLogRow
      BY <1>1, <1>2, RowFacts
    <2> QED
      BY <1>1, <1>2, <1>3, <1>4, <2>1, AppendIsFirm
  <1>5. CASE Glued /\ log' = Append(Front(log), Row("unreadable", job[p]))
    <2>1. Len(log) \in Nat /\ Len(log) > 0 /\ log[Len(log)].op = "fragment"
      BY <1>5, FrontIs
    <2>2. Front(log) \in Seq(AuditLogRow) /\ Len(Front(log)) = Len(log) - 1
          /\ \A x \in 1..Len(log) - 1 : Front(log)[x] = log[x]
      BY <1>5, FrontIs
    <2>3. Row("unreadable", job[p]) \in AuditLogRow
      BY <1>2, RowFacts
    <2>4. /\ log' \in Seq(AuditLogRow) /\ Len(log') = Len(log)
          /\ log'[Len(log)].op = "unreadable"
          /\ \A x \in 1..Len(log) - 1 : log'[x] = log[x]
      BY <1>3, <1>5, <2>1, <2>2, <2>3
    <2>5. i \in DOMAIN log' /\ log'[i] = log[i]
      BY <1>2, <2>1, <2>4 DEF LiveIn
    <2>6. ASSUME NEW x \in i..Len(log'), NEW k PROVE Weight(log[x], k) = Weight(log'[x], k)
      <3>1. CASE x = Len(log)
        BY <2>1, <2>4, <3>1 DEF Weight
      <3>2. CASE x # Len(log)
        BY <1>2, <2>4, <3>2
      <3> QED
        BY <3>1, <3>2
    <2> QED
      <3>1. Len(log') <= Len(log)
        BY <2>1, <2>4
      <3>2. \A x \in i..Len(log') : Weight(log[x], key(log[i])) = Weight(log'[x], key(log[i]))
        BY <2>6
      <3> QED
        BY <1>2, <2>4, <2>5, <3>1, <3>2, CutIsFirm
  <1> QED
    BY <1>1, <1>4, <1>5 DEF LogGrows

LEMMA UndoFinds ==
    ASSUME TypeOK, NEW row \in AuditLogRow, find_last_undone_addition = <<row>>
    PROVE  \E i \in DOMAIN log : LiveIn(log, i) /\ log[i] = row /\ row.op = "added"
  <1>1. Len(log) \in Nat /\ DOMAIN log = 1..Len(log)
    BY DEF TypeOK
  <1>2. LiveFrom(log, 1) # {} /\ <<log[Max(LiveFrom(log, 1))]>> = <<row>>
    <2>1. <<row>> # <<>>
      OBVIOUS
    <2> QED
      BY <2>1, WalkFinds
  <1>3. LiveFrom(log, 1) \subseteq 1..Len(log) /\ LiveFrom(log, 1) \subseteq Int
    BY <1>1 DEF LiveFrom
  <1>4. PICK x \in LiveFrom(log, 1) : \A y \in LiveFrom(log, 1) : x >= y
    BY <1>1, <1>2, <1>3, Greatest
  <1>5. Max(LiveFrom(log, 1)) = x
    BY <1>3, <1>4, MaxIs
  <1>6. log[x] = row
    BY <1>2, <1>5
  <1> QED
    BY <1>1, <1>4, <1>6 DEF LiveFrom, LiveIn

\* What Always and Undo make of the jobs.
LEMMA NewJob ==
    ASSUME TypeOK
    PROVE  /\ \A r \in Root, p \in Pattern, id \in Id \ {0} : Always(r, p, id) =>
                /\ job'[Daemon].op = "add" /\ job'[Daemon].file = r
                /\ job'[Daemon].pattern = p /\ job'[Daemon].id = id
                /\ \A q \in Process \ {Daemon} : pc'[q] = pc[q] /\ job'[q] = job[q]
                /\ pc[Daemon] = "idle" /\ pc'[Daemon] = "loaded"
           /\ \A c \in Cli : Undo(c) =>
                /\ \A q \in Process \ {c} : pc'[q] = pc[q] /\ job'[q] = job[q]
                /\ job'[c].op = "undo" /\ pc'[c] = "found"
                /\ \E i \in DOMAIN log :
                     /\ LiveIn(log, i) /\ log[i].op = "added" /\ log[i].target = job'[c].file
                     /\ key(log[i]) = key(job'[c])
  <1>0. "loaded" \in Place /\ "found" \in Place
    BY DEF Place
  <1>1. ASSUME NEW r \in Root, NEW p \in Pattern, NEW id \in Id \ {0}, Always(r, p, id)
        PROVE  /\ job'[Daemon].op = "add" /\ job'[Daemon].file = r
               /\ job'[Daemon].pattern = p /\ job'[Daemon].id = id
               /\ \A q \in Process \ {Daemon} : pc'[q] = pc[q] /\ job'[q] = job[q]
               /\ pc[Daemon] = "idle" /\ pc'[Daemon] = "loaded"
    <2>1. PICK j : j = [op |-> "add", file |-> r, pattern |-> p, id |-> id,
                        copy |-> Object(file[r].allow \cup {p}, file[r].hooks)]
      OBVIOUS
    <2>2. start(Daemon, j, "loaded") /\ pc[Daemon] = "idle"
      BY <1>1, <2>1 DEF Always, load
    <2>3. job'[Daemon] = j /\ pc'[Daemon] = "loaded"
          /\ \A q \in Process \ {Daemon} : pc'[q] = pc[q] /\ job'[q] = job[q]
      BY <2>2, FileFacts DEF start, TypeOK
    <2> QED
      BY <2>1, <2>2, <2>3
  <1>2. ASSUME NEW c \in Cli, Undo(c)
        PROVE  /\ \A q \in Process \ {c} : pc'[q] = pc[q] /\ job'[q] = job[q]
               /\ job'[c].op = "undo" /\ pc'[c] = "found"
               /\ \E i \in DOMAIN log :
                     /\ LiveIn(log, i) /\ log[i].op = "added" /\ log[i].target = job'[c].file
                     /\ key(log[i]) = key(job'[c])
    <2>1. PICK row \in AuditLogRow :
            /\ find_last_undone_addition = <<row>>
            /\ start(c, [op |-> "undo", file |-> row.target, pattern |-> row.pattern,
                         id |-> row.id, copy |-> Empty("absent")], "found")
      BY <1>2 DEF Undo
    <2>2. PICK j : j = [op |-> "undo", file |-> row.target, pattern |-> row.pattern,
                        id |-> row.id, copy |-> Empty("absent")]
      OBVIOUS
    <2>3. job'[c] = j /\ pc'[c] = "found"
          /\ \A q \in Process \ {c} : pc'[q] = pc[q] /\ job'[q] = job[q]
      BY <2>1, <2>2, FileFacts DEF start, TypeOK
    <2>4. PICK i \in DOMAIN log : LiveIn(log, i) /\ log[i] = row /\ row.op = "added"
      BY <2>1, UndoFinds
    <2>5. key(row) = key(j) /\ j.file = row.target /\ j.op = "undo"
      BY <2>2 DEF key
    <2> QED
      BY <2>3, <2>4, <2>5
  <1> QED
    BY <1>1, <1>2

\* The files that rows and jobs of the key k are of.
Known(k, t) ==
    \/ \E i \in DOMAIN log : key(log[i]) = k /\ log[i].target = t
    \/ \E p \in Process : job[p].op \in {"add", "undo"} /\ key(job[p]) = k /\ job[p].file = t

LEMMA KnownOnce ==
    ASSUME Roles, KeysInv, NEW k, NEW t, NEW u, Known(k, t), Known(k, u)
    PROVE  t = u
  <1>1. ASSUME NEW i \in DOMAIN log, key(log[i]) = k, NEW v, Known(k, v)
        PROVE  log[i].target = v
    BY <1>1 DEF Known, KeysInv
  <1>2. CASE \E i \in DOMAIN log : key(log[i]) = k
    BY <1>1, <1>2
  <1>3. CASE ~\E i \in DOMAIN log : key(log[i]) = k
    <2>1. \A p \in Process : job[p].op \in {"add", "undo"} /\ key(job[p]) = k => p = Daemon
      BY <1>3 DEF KeysInv, Roles, Role
    <2> QED
      BY <1>3, <2>1 DEF Known
  <1> QED
    BY <1>2, <1>3

LEMMA KeysFollow ==
    ASSUME Roles, KeysInv,
           \A i \in DOMAIN log' : Known(key(log'[i]), log'[i].target),
           \A p \in Process : job'[p].op \in {"add", "undo"} =>
              /\ Known(key(job'[p]), job'[p].file)
              /\ job'[p].op = "undo" =>
                   \E i \in DOMAIN log' : log'[i].op = "added" /\ key(log'[i]) = key(job'[p])
    PROVE  KeysInv'
  <1>1. \A i, j \in DOMAIN log' : key(log'[i]) = key(log'[j]) => log'[i].target = log'[j].target
    BY KnownOnce
  <1>2. \A p \in Process : job'[p].op \in {"add", "undo"} =>
          \A i \in DOMAIN log' : key(log'[i]) = key(job'[p]) => log'[i].target = job'[p].file
    BY KnownOnce
  <1> QED
    BY <1>1, <1>2 DEF KeysInv, key

LEMMA TaskIs ==
    ASSUME NEW j, NEW j2, Task(j) = Task(j2)
    PROVE  j.op = j2.op /\ j.file = j2.file /\ j.pattern = j2.pattern /\ key(j) = key(j2)
  BY DEF Task, key

LEMMA KeysStep == ASSUME TypeOK, Roles, KeysInv, [Next]_vars PROVE KeysInv'
  <1>1. \A i \in DOMAIN log : Known(key(log[i]), log[i].target)
    BY DEF Known
  <1>2. \A p \in Process : job[p].op \in {"add", "undo"} => Known(key(job[p]), job[p].file)
    BY DEF Known
  <1>3. CASE PowerLoss
    <2>1. log \in Seq(AuditLogRow) /\ Len(log) \in Nat
      BY DEF TypeOK
    <2>2. PICK n \in 0..Len(log) : log' = SubSeq(log, 1, n)
      BY <1>3 DEF PowerLoss
    <2>3. \A i \in DOMAIN log' : i \in DOMAIN log /\ log'[i] = log[i]
      BY <2>1, <2>2
    <2>4. \A p \in Process : job'[p].op = "none"
      BY <1>3 DEF PowerLoss, NoJob
    <2>5. \A i \in DOMAIN log' : Known(key(log'[i]), log'[i].target)
      BY <1>1, <2>3
    <2> QED
      BY <2>4, <2>5, KeysFollow
  <1>4. CASE \E r \in Root, p \in Pattern, id \in Id \ {0} : Always(r, p, id)
    <2>1. PICK r \in Root, p \in Pattern, id \in Id \ {0} : Always(r, p, id)
      BY <1>4
    <2>2. /\ job'[Daemon].op = "add" /\ job'[Daemon].file = r
          /\ job'[Daemon].pattern = p /\ job'[Daemon].id = id
          /\ \A q \in Process \ {Daemon} : job'[q] = job[q]
      BY <2>1, NewJob
    <2>3. log' = log /\ \A i \in DOMAIN log : key(log[i]) = <<p, id>> => log[i].target = r
      BY <2>1 DEF Always
    <2>4. key(job'[Daemon]) = <<p, id>>
      BY <2>2 DEF key
    <2> QED
      BY <2>2, <2>3, <2>4 DEF KeysInv, key
  <1>5. CASE \E c \in Cli : Undo(c)
    <2>1. PICK c \in Cli : Undo(c)
      BY <1>5
    <2>2. log' = log
      BY <2>1 DEF Undo
    <2>3. PICK i \in DOMAIN log : log[i].op = "added" /\ log[i].target = job'[c].file
                                  /\ key(log[i]) = key(job'[c])
      BY <2>1, NewJob
    <2>4. \A q \in Process \ {c} : job'[q] = job[q]
      BY <2>1, NewJob
    <2>5. \A q \in Process : job'[q].op \in {"add", "undo"} =>
              /\ Known(key(job'[q]), job'[q].file)
              /\ job'[q].op = "undo" =>
                   \E x \in DOMAIN log' : log'[x].op = "added" /\ key(log'[x]) = key(job'[q])
      <3>1. Known(key(job'[c]), job'[c].file)
        BY <1>1, <2>3
      <3> QED
        BY <1>2, <2>2, <2>3, <2>4, <3>1 DEF KeysInv
    <2> QED
      BY <1>1, <2>2, <2>5, KeysFollow
  <1>6. ASSUME TasksStay, NEW q \in Process, job'[q].op \in {"add", "undo"}
        PROVE  /\ Known(key(job'[q]), job'[q].file)
               /\ job'[q].op = "undo" =>
                    \E x \in DOMAIN log : log[x].op = "added" /\ key(log[x]) = key(job'[q])
    <2>1. Task(job'[q]) = Task(job[q])
      BY <1>6 DEF TasksStay
    <2>2. /\ job'[q].op = job[q].op /\ job'[q].file = job[q].file
          /\ key(job'[q]) = key(job[q])
      BY <2>1, TaskIs
    <2> QED
      BY <1>2, <1>6, <2>2 DEF KeysInv
  <1>7. CASE log' = log /\ TasksStay
    BY <1>1, <1>6, <1>7, KeysFollow
  <1>8. CASE \E p \in Process, op \in LogOp : Logs(p, op)
    <2>1. PICK p \in Process, op \in LogOp : Logs(p, op)
      BY <1>8
    <2>2. /\ pc[p] = "append" /\ job[p].op \in {"add", "undo"}
          /\ job'[p].op = "none" /\ \A q \in Process \ {p} : job'[q] = job[q]
      BY <2>1, JobFacts, Others DEF Logs, stop, start, Roles, Role, TypeOK, NoJob
    <2>3. TasksStay
      BY <2>2 DEF TasksStay
    <2>4. \A i \in DOMAIN log' : Known(key(log'[i]), log'[i].target)
      BY <1>1, <1>2, <2>1, <2>2, LinesFrom
    <2>5. \A x \in DOMAIN log : log[x].op = "added" => x \in DOMAIN log' /\ log'[x] = log[x]
      BY <2>1, AddedStays
    <2>6. ASSUME NEW q \in Process, job'[q].op \in {"add", "undo"}
          PROVE  /\ Known(key(job'[q]), job'[q].file)
                 /\ job'[q].op = "undo" =>
                      \E x \in DOMAIN log' : log'[x].op = "added" /\ key(log'[x]) = key(job'[q])
      BY <1>6, <2>3, <2>5, <2>6
    <2> QED
      BY <2>4, <2>6, KeysFollow
  <1>9. CASE UNCHANGED vars
    BY <1>9 DEF vars, KeysInv, key
  <1> QED
    BY <1>3, <1>4, <1>5, <1>7, <1>8, <1>9, Kinds

LEMMA UnloggedGrows == ASSUME [Next]_vars PROVE unlogged \subseteq unlogged'
  <1>1. ASSUME NEW r \in Root, NEW p \in Pattern, NEW id \in Id \ {0}, Always(r, p, id)
        PROVE  unlogged' = unlogged
    BY <1>1 DEF Always
  <1>2. AppendAdded => unlogged \subseteq unlogged'
    BY DEF AppendAdded
  <1>3. ASSUME NEW c \in Cli, Command(c) PROVE unlogged \subseteq unlogged'
    <2>1. CASE AppendUndone(c)
      BY <2>1 DEF AppendUndone
    <2>2. CASE UndoLoads(c) \/ Setup(c) \/ WriteConfig(c)
      BY <2>2 DEF UndoLoads, Setup, WriteConfig
    <2>3. CASE Undo(c) \/ UndoRefuses(c) \/ UndoFindsNothing(c) \/ SetupHasHooks(c) \/ KeepConfig(c)
      BY <2>3 DEF Undo, UndoRefuses, UndoFindsNothing, SetupHasHooks, KeepConfig, history
    <2> QED
      BY <1>3, <2>1, <2>2, <2>3 DEF Command
  <1>4. ASSUME NEW p \in Process, Save(p) PROVE unlogged \subseteq unlogged'
    <2>1. CASE AppendFails(p) \/ Dies(p)
      BY <2>1 DEF AppendFails, Dies
    <2>2. CASE OpenTmp(p) \/ WriteTmp(p) \/ WriteFails(p) \/ Rename(p) \/ RenameFails(p)
               \/ SyncDir(p) \/ SyncFails(p)
      BY <2>2 DEF OpenTmp, WriteTmp, WriteFails, Rename, RenameFails, SyncDir, SyncFails, history
    <2> QED
      BY <1>4, <2>1, <2>2 DEF Save
  <1>5. PowerLoss => unlogged \subseteq unlogged'
    BY DEF PowerLoss
  <1>6. ASSUME NEW f \in File, UserEdits(f) PROVE unlogged' = unlogged
    BY <1>6 DEF UserEdits
  <1>7. ASSUME UNCHANGED vars PROVE unlogged' = unlogged
    BY <1>7 DEF vars, history
  <1> QED
    BY <1>1, <1>2, <1>3, <1>4, <1>5, <1>6, <1>7 DEF Next

\* Whoever has decided to undo an addition will still find one when it is
\* recorded, unless another has decided to undo the same.
LEMMA ReservedStep ==
    ASSUME TypeOK, Roles, AllReserved, [Next]_vars, NEW c \in Cli
    PROVE  Reserved(c)'
  <1> SUFFICES ASSUME job'[c].op = "undo", job'[c].pattern \notin unlogged'
               PROVE  \E i \in DOMAIN log' : LiveIn(log', i) /\ key(log'[i]) = key(job'[c])
    BY DEF Reserved, key
  <1>1. c \in Process /\ c # Daemon /\ Reserved(c) /\ job'[c].pattern \notin unlogged
    BY FileFacts, NamesAssumption, UnloggedGrows DEF AllReserved
  <1>2. ASSUME Task(job'[c]) = Task(job[c])
        PROVE  \E i \in DOMAIN log : LiveIn(log, i) /\ key(log[i]) = key(job'[c])
    <2>1. /\ job'[c].op = job[c].op /\ job'[c].pattern = job[c].pattern
          /\ key(job'[c]) = key(job[c])
      BY <1>2, TaskIs
    <2> QED
      BY <1>1, <2>1 DEF Reserved
  <1>3. CASE PowerLoss
    <2>1. job'[c].op = "none"
      BY <1>1, <1>3 DEF PowerLoss, NoJob
    <2> QED
      BY <2>1
  <1>4. CASE \E r \in Root, p \in Pattern, id \in Id \ {0} : Always(r, p, id)
    <2>1. PICK r \in Root, p \in Pattern, id \in Id \ {0} : Always(r, p, id)
      BY <1>4
    <2>2. log' = log /\ job'[c] = job[c]
      BY <1>1, <2>1, NewJob DEF Always
    <2> QED
      BY <1>2, <2>2
  <1>5. CASE \E d \in Cli : Undo(d)
    <2>1. PICK d \in Cli : Undo(d)
      BY <1>5
    <2>2. log' = log
      BY <2>1 DEF Undo
    <2>3. CASE d = c
      BY <2>1, <2>2, <2>3, NewJob
    <2>4. CASE d # c
      <3>1. job'[c] = job[c]
        BY <1>1, <2>1, <2>4, NewJob
      <3> QED
        BY <1>2, <2>2, <3>1
    <2> QED
      BY <2>3, <2>4
  <1>6. CASE log' = log /\ TasksStay
    BY <1>1, <1>2, <1>6 DEF TasksStay
  <1>7. CASE \E p \in Process, op \in LogOp : Logs(p, op)
    <2>1. PICK p \in Process, op \in LogOp : Logs(p, op)
      BY <1>7
    <2>2. /\ job'[p].op = "none" /\ \A q \in Process \ {p} : job'[q] = job[q]
      BY <2>1, JobFacts, Others DEF Logs, stop, start, TypeOK, NoJob
    <2>3. p # c /\ job'[c] = job[c]
      BY <1>1, <2>2
    <2>4. PICK i \in DOMAIN log : LiveIn(log, i) /\ key(log[i]) = key(job'[c])
      BY <1>2, <2>3
    <2>5. op = "undone" => key(job[p]) # key(log[i])
      <3>1. SUFFICES ASSUME p \in Cli, AppendUndone(p), key(job[p]) = key(job[c]) PROVE FALSE
        BY <2>1, <2>3, <2>4 DEF Logs
      <3>2. ~\A d \in Cli \ {p} : job[d].op = "undo" => key(job[d]) # key(job[p])
        BY <2>3, <3>1
      <3>3. job[p].pattern \in unlogged'
        BY <3>1, <3>2 DEF AppendUndone
      <3>4. job[p].pattern = job[c].pattern
        BY <3>1 DEF key
      <3> QED
        BY <2>3, <3>3, <3>4
    <2>6. Firm(log, log', i)
      BY <2>1, <2>4, <2>5, LogIsFirm
    <2> QED
      BY <2>4, <2>6 DEF Firm
  <1>8. CASE UNCHANGED vars
    BY <1>2, <1>8 DEF vars
  <1> QED
    BY <1>3, <1>4, <1>5, <1>6, <1>7, <1>8, Kinds

-----------------------------------------------------------------------------
(* Steps that keep what can be undone. *)

LEMMA UndoableFrame ==
    ASSUME NEW r \in Root, NEW p \in Pattern, Undoable(r, p), TypeOK, TypeOK',
           InFile(r, p)' => InFile(r, p), InFile(r, p)' /\ Adding(r, p) => Adding(r, p)',
           ASSUME InFile(r, p)', NEW i \in DOMAIN log, LiveIn(log, i), Spare(i),
                  log[i].pattern = p, log[i].target = r
           PROVE  Firm(log, log', i) /\ (key(log[i]) \in Taken' => key(log[i]) \in Taken)
    PROVE  Undoable(r, p)'
  <1> SUFFICES ASSUME InFile(r, p)', ~Adding(r, p)'
               PROVE  \E i \in DOMAIN log' : Spare(i)' /\ log'[i].pattern = p /\ log'[i].target = r
    BY DEF Undoable
  <1>1. PICK i \in DOMAIN log : Spare(i) /\ log[i].pattern = p /\ log[i].target = r
    BY DEF Undoable
  <1>2. Firm(log, log', i) /\ (key(log[i]) \in Taken' => key(log[i]) \in Taken)
    BY <1>1 DEF Spare
  <1>3. /\ i \in DOMAIN log' /\ log'[i] = log[i] /\ LiveIn(log', i)
        /\ Balance(log', key(log[i]), i, Len(log')) <= Balance(log, key(log[i]), i, Len(log))
    BY <1>2 DEF Firm
  <1>4. i \in Int /\ Len(log) \in Int /\ Len(log') \in Int
    BY DEF TypeOK
  <1>5. ASSUME key(log'[i]) \in Taken' PROVE Balance(log', key(log'[i]), i, Len(log')) < -1
    <2>1. Balance(log, key(log[i]), i, Len(log)) < -1
      BY <1>1, <1>2, <1>3, <1>5 DEF Spare
    <2>2. Balance(log, key(log[i]), i, Len(log)) \in Int
      BY <1>4, BalanceType
    <2>3. Balance(log', key(log[i]), i, Len(log')) \in Int
      BY <1>4, BalanceType
    <2> QED
      BY <1>3, <2>1, <2>2, <2>3
  <1>6. Spare(i)'
    BY <1>3, <1>5 DEF Spare, key
  <1> QED
    BY <1>1, <1>3, <1>6

TakenBy(c) == pc[c] \in {"renamed", "append"} /\ job[c].op = "undo"

LEMMA TakenFrame ==
    ASSUME \A c \in Cli : TakenBy(c)' => TakenBy(c) /\ key(job'[c]) = key(job[c])
    PROVE  Taken' \subseteq Taken
  BY DEF Taken, TakenBy, key

LEMMA DaemonTakes ==
    ASSUME \A q \in Process \ {Daemon} : pc'[q] = pc[q] /\ job'[q] = job[q]
    PROVE  Taken' \subseteq Taken
  <1>1. \A d \in Cli : d \in Process \ {Daemon}
    BY FileFacts, NamesAssumption
  <1> QED
    BY <1>1, TakenFrame DEF TakenBy

\* A step that leaves the files and the log alone.
LEMMA QuietKeeps ==
    ASSUME NEW r \in Root, NEW p \in Pattern, Undoable(r, p), TypeOK, TypeOK',
           spoiled'[r] = {} => file'[r].allow \ byHand'[r] \subseteq file[r].allow \ byHand[r],
           log' = log, spoiled[r] \subseteq spoiled'[r],
           unlogged \subseteq unlogged', Taken' \subseteq Taken,
           Adding(r, p) => Adding(r, p)' \/ p \in unlogged'
    PROVE  Undoable(r, p)'
  <1>1. InFile(r, p)' => InFile(r, p)
    BY DEF InFile
  <1>2. InFile(r, p)' /\ Adding(r, p) => Adding(r, p)'
    BY DEF InFile
  <1>3. ASSUME NEW i \in DOMAIN log, LiveIn(log, i)
        PROVE  Firm(log, log', i) /\ (key(log[i]) \in Taken' => key(log[i]) \in Taken)
    BY <1>3, SameIsFirm DEF TypeOK
  <1> QED
    BY <1>1, <1>2, <1>3, UndoableFrame

\* What the user writes into a file is not said to be undoable.
LEMMA EditKeeps ==
    ASSUME NEW r \in Root, NEW p \in Pattern, Undoable(r, p), TypeOK, TypeOK',
           NEW f \in File, UserEdits(f)
    PROVE  Undoable(r, p)'
  <1>1. PICK new :
          /\ file' = [file EXCEPT ![f] = new]
          /\ byHand' = [byHand EXCEPT ![f] = @ \cup (new.allow \ file[f].allow)]
          /\ spoiled' = [spoiled EXCEPT ![f] =
                 @ \cup (IF new.kind = "broken" THEN {"user"} ELSE {})
                   \cup (IF \E q \in Process : Saving(q, f) THEN {"edited"} ELSE {})]
    BY DEF UserEdits
  <1>2. UNCHANGED <<log, pc, job, unlogged>>
    BY DEF UserEdits
  <1>3. r \in File
    BY FileFacts
  <1>4. file'[r].allow \ byHand'[r] \subseteq file[r].allow \ byHand[r]
    BY <1>1, <1>3 DEF TypeOK
  <1>5. spoiled[r] \subseteq spoiled'[r]
    BY <1>1, <1>3 DEF TypeOK
  <1>6. Taken' \subseteq Taken /\ (Adding(r, p)' <=> Adding(r, p))
    BY <1>2, TakenFrame DEF TakenBy, Adding
  <1> QED
    BY <1>2, <1>4, <1>5, <1>6, QuietKeeps

\* After a power loss no pattern is in a file, that the log has not kept.
LEMMA LossKeeps ==
    ASSUME NEW r \in Root, NEW p \in Pattern, Undoable(r, p), TypeOK, TypeOK', PowerLoss
    PROVE  Undoable(r, p)'
  <1> SUFFICES ASSUME InFile(r, p)'
               PROVE  \E i \in DOMAIN log' : Spare(i)' /\ log'[i].pattern = p /\ log'[i].target = r
    BY DEF Undoable
  <1>1. r \in File /\ Daemon \in Process
    BY FileFacts
  <1>2. /\ unlogged \subseteq unlogged'
        /\ \A i \in DOMAIN log \ DOMAIN log' : log[i].pattern \in unlogged'
        /\ \A q \in Process : pc[q] # "idle" => job[q].pattern \in unlogged'
        /\ \A f \in File : file'[f].allow \ file[f].allow \subseteq unlogged'
        /\ byHand' = byHand
    BY DEF PowerLoss
  <1>3. spoiled[r] \subseteq spoiled'[r]
    <2>1. PICK f, when : f \in File /\ spoil(f, "unsynced", when)
      BY DEF PowerLoss
    <2> QED
      BY <1>1, <2>1 DEF spoil, TypeOK
  <1>4. InFile(r, p) /\ ~Adding(r, p)
    BY <1>1, <1>2, <1>3 DEF InFile, Adding
  <1>5. PICK i \in DOMAIN log : Spare(i) /\ log[i].pattern = p /\ log[i].target = r
    BY <1>4 DEF Undoable
  <1>6. i \in DOMAIN log'
    BY <1>2, <1>5 DEF InFile
  <1>7. log \in Seq(AuditLogRow) /\ log' \in Seq(AuditLogRow) /\ Len(log) \in Nat
    BY DEF TypeOK
  <1>8. PICK n \in 0..Len(log) : log' = SubSeq(log, 1, n)
    BY DEF PowerLoss
  <1>9. Len(log') <= Len(log) /\ \A x \in 1..Len(log') : log'[x] = log[x]
    BY <1>7, <1>8
  <1>10. LiveIn(log', i) /\ log'[i] = log[i]
    <2>1. i \in Int /\ 1 <= i /\ i \in 1..Len(log') /\ LiveIn(log, i)
      BY <1>5, <1>6, <1>7 DEF Spare
    <2>2. \A x \in i..Len(log') : Weight(log[x], key(log[i])) = Weight(log'[x], key(log[i]))
      BY <1>9, <2>1
    <2> QED
      BY <1>6, <1>7, <1>9, <2>1, <2>2, CutIsFirm
  <1>11. Taken' = {}
    <2>1. \A c \in Cli : ~TakenBy(c)'
      BY FileFacts DEF PowerLoss, TakenBy
    <2> QED
      BY <2>1 DEF Taken, TakenBy
  <1> QED
    BY <1>5, <1>6, <1>10, <1>11 DEF Spare

\* What a process may come to take or to add.
LEMMA MovesOn ==
    ASSUME NEW x \in Process, \A q \in Process \ {x} : pc'[q] = pc[q] /\ job'[q] = job[q],
           NEW r \in Root, NEW p \in Pattern
    PROVE  /\ \A k \in Taken' : k \in Taken \/ (x \in Cli /\ TakenBy(x)' /\ k = key(job'[x]))
           /\ x \in Cli => (Adding(r, p)' <=> Adding(r, p))
           /\ x = Daemon => Taken' \subseteq Taken
  <1>1. \A c \in Cli : c \in Process /\ c # Daemon
    BY FileFacts, NamesAssumption
  <1>2. ASSUME NEW k \in Taken' PROVE k \in Taken \/ (x \in Cli /\ TakenBy(x)' /\ k = key(job'[x]))
    <2>1. PICK c \in Cli : TakenBy(c)' /\ k = key(job'[c])
      BY <1>2 DEF Taken, TakenBy, key
    <2>2. CASE c = x
      BY <2>1, <2>2
    <2>3. CASE c # x
      <3>1. TakenBy(c) /\ k = key(job[c])
        BY <1>1, <2>1, <2>3 DEF TakenBy
      <3> QED
        BY <3>1 DEF Taken, TakenBy
    <2> QED
      BY <2>2, <2>3
  <1>3. x \in Cli => (Adding(r, p)' <=> Adding(r, p))
    BY <1>1, FileFacts DEF Adding
  <1> QED
    BY <1>1, <1>2, <1>3, DaemonTakes

\* A step of x that leaves the file and the log alone and after which x neither
\* has an undo to record nor an addition.
LEMMA IdleKeeps ==
    ASSUME NEW r \in Root, NEW p \in Pattern, Undoable(r, p), TypeOK, TypeOK',
           NEW x \in Process, \A q \in Process \ {x} : pc'[q] = pc[q] /\ job'[q] = job[q],
           pc'[x] \notin {"renamed", "append"},
           x = Daemon /\ Adding(r, p) => p \in unlogged',
           spoiled'[r] = {} => file'[r] = file[r], byHand' = byHand, log' = log,
           spoiled[r] \subseteq spoiled'[r], unlogged \subseteq unlogged'
    PROVE  Undoable(r, p)'
  <1>1. Taken' \subseteq Taken
    BY MovesOn DEF TakenBy
  <1>2. Adding(r, p) => Adding(r, p)' \/ p \in unlogged'
    <2>1. x # Daemon => (Adding(r, p)' <=> Adding(r, p))
      BY FileFacts DEF Adding
    <2> QED
      BY <2>1
  <1> QED
    BY <1>1, <1>2, QuietKeeps

\* A pattern that is gone already: the undo of it is only to be recorded.
LEMMA NothingKeeps ==
    ASSUME NEW r \in Root, NEW p \in Pattern, Undoable(r, p), SavesInv, TypeOK', KeysInv,
           NEW c \in Cli, UndoFindsNothing(c)
    PROVE  Undoable(r, p)'
  <1>1. c \in Process /\ TypeOK /\ "append" \in Place /\ job[c] \in Job
    BY FileFacts DEF SavesInv, TypeOK, Place
  <1>2. /\ pc[c] = "found" /\ pc'[c] = "append" /\ job' = job
        /\ \A q \in Process \ {c} : pc'[q] = pc[q]
    BY <1>1, Others DEF UndoFindsNothing
  <1>3. job[c].op = "undo"
    BY <1>1, <1>2 DEF SavesInv, Roles, Role
  <1>4. UNCHANGED <<file, byHand, log, spoiled, unlogged>>
    BY DEF UndoFindsNothing, history
  <1>5. (InFile(r, p)' <=> InFile(r, p)) /\ (Adding(r, p)' <=> Adding(r, p))
    BY <1>1, <1>2, <1>4, MovesOn DEF InFile
  <1>6. ASSUME InFile(r, p), NEW i \in DOMAIN log, LiveIn(log, i),
               log[i].pattern = p, log[i].target = r
        PROVE  Firm(log, log', i) /\ (key(log[i]) \in Taken' => key(log[i]) \in Taken)
    <2>1. Firm(log, log', i)
      BY <1>1, <1>4, <1>6, SameIsFirm DEF TypeOK
    <2>2. key(log[i]) # key(job[c])
      <3>1. SUFFICES ASSUME key(log[i]) = key(job[c]) PROVE FALSE
        OBVIOUS
      <3>2. log[i].target = job[c].file /\ log[i].pattern = job[c].pattern
        BY <1>1, <1>3, <3>1 DEF KeysInv, key
      <3> QED
        BY <1>6, <3>2 DEF UndoFindsNothing, InFile
    <2> QED
      BY <1>1, <1>2, <2>1, <2>2, MovesOn
  <1> QED
    BY <1>1, <1>5, <1>6, UndoableFrame

\* A rename puts the copy of a job in place, which differs from the file in
\* the pattern of the job only.
LEMMA RenameKeeps ==
    ASSUME NEW r \in Root, NEW p \in Pattern, Undoable(r, p), SavesInv, TypeOK', KeysInv,
           NEW x \in Process, Rename(x)
    PROVE  Undoable(r, p)'
  <1>1. TypeOK /\ job[x] \in Job /\ r \in File /\ User \notin Root /\ Config \notin Root
        /\ {"renamed", "idle"} \subseteq Place /\ Role(x, pc[x], job[x])
    BY FileFacts, NamesAssumption DEF SavesInv, TypeOK, Place, Roles
  <1>2. PICK f \in File : f = job[x].file
    BY <1>1, JobFacts
  <1>3. /\ pc[x] = "written" /\ file' = [file EXCEPT ![f] = tmp[f]]
        /\ \/ job[x].op = "config" /\ stop(x)
           \/ job[x].op # "config" /\ goto(x, "renamed")
    BY <1>2 DEF Rename
  <1>4. UNCHANGED <<byHand, log, spoiled, unlogged>>
    BY DEF Rename, history
  <1>5. /\ \A q \in Process \ {x} : pc'[q] = pc[q] /\ job'[q] = job[q]
        /\ job[x].op # "config" => pc'[x] = "renamed" /\ job' = job
        /\ job[x].op = "config" => ~TakenBy(x)'
    BY <1>1, <1>3, JobFacts, Others DEF stop, TakenBy, NoJob
  <1>6. ASSUME f = r, spoiled[r] = {}
        PROVE  /\ job[x].op = "add" => file'[r].allow = file[r].allow \cup {job[x].pattern}
               /\ job[x].op = "undo" => file'[r].allow = file[r].allow \ {job[x].pattern}
               /\ job[x].op \in {"add", "undo"}
    <2>1. Saving(x, f) /\ Intended(f)
      BY <1>2, <1>3 DEF SavesInv, AllIntended, Saving
    <2>2. Meant(job[x], file[r]) /\ tmp[r] = job[x].copy
      BY <1>3, <1>6, <2>1 DEF Intended
    <2>3. file'[r] = job[x].copy
      BY <1>1, <1>3, <1>6, <2>2 DEF TypeOK
    <2>4. job[x].op \in {"add", "undo"}
      BY <1>1, <1>2, <1>3, <1>6 DEF Role, Job
    <2> QED
      BY <2>2, <2>3, <2>4 DEF Meant, Object
  <1>7. f # r => file'[r] = file[r]
    BY <1>1, <1>3 DEF TypeOK
  <1>8. Adding(r, p) => Adding(r, p)'
    BY <1>3, <1>5, FileFacts DEF Adding
  <1> SUFFICES ASSUME InFile(r, p)', ~Adding(r, p)'
               PROVE  Undoable(r, p)'
    BY DEF Undoable
  <1>9. f = r /\ job[x].op = "add" => job[x].pattern # p
    <2>1. SUFFICES ASSUME f = r, job[x].op = "add", job[x].pattern = p PROVE FALSE
      OBVIOUS
    <2>2. x = Daemon
      BY <1>1, <2>1 DEF Role
    <2> QED
      BY <1>2, <1>5, <2>1, <2>2 DEF Adding
  <1>10. InFile(r, p) /\ (f = r => job[x].op \in {"add", "undo"} /\ job[x].pattern # p)
    <2>1. CASE f = r
      BY <1>4, <1>6, <1>9, <2>1 DEF InFile
    <2>2. CASE f # r
      BY <1>4, <1>7, <2>2 DEF InFile
    <2> QED
      BY <2>1, <2>2
  <1>11. ASSUME NEW i \in DOMAIN log, LiveIn(log, i), log[i].pattern = p, log[i].target = r
         PROVE  Firm(log, log', i) /\ (key(log[i]) \in Taken' => key(log[i]) \in Taken)
    <2>1. Firm(log, log', i)
      BY <1>1, <1>4, <1>11, SameIsFirm DEF TypeOK
    <2>2. ~(TakenBy(x)' /\ key(log[i]) = key(job'[x]))
      <3>1. SUFFICES ASSUME TakenBy(x)', key(log[i]) = key(job'[x]) PROVE FALSE
        OBVIOUS
      <3>2. job[x].op = "undo" /\ key(log[i]) = key(job[x])
        BY <1>5, <3>1 DEF TakenBy
      <3>3. log[i].target = job[x].file /\ log[i].pattern = job[x].pattern
        BY <3>2 DEF KeysInv, key
      <3> QED
        BY <1>2, <1>10, <1>11, <3>3
    <2> QED
      BY <1>5, <2>1, <2>2, MovesOn
  <1> QED
    BY <1>1, <1>8, <1>10, <1>11, UndoableFrame

LEMMA AddedLogs == ASSUME AppendAdded PROVE Logs(Daemon, "added")
  BY DEF AppendAdded, Logs, LogGrows, append_audit_entry

LEMMA UndoneLogs == ASSUME NEW c \in Cli, AppendUndone(c) PROVE Logs(c, "undone")
  <1>1. append_audit_entry("undone", job[c]) /\ pc[c] = "append" /\ stop(c)
    BY DEF AppendUndone
  <1>2. LogGrows("undone", job[c])
    BY <1>1 DEF LogGrows, append_audit_entry
  <1> QED
    BY <1>1, <1>2 DEF Logs

LEMMA StoppedIs ==
    ASSUME TypeOK, NEW p \in Process, stop(p)
    PROVE  /\ pc'[p] = "idle" /\ job'[p] = NoJob /\ ~TakenBy(p)'
           /\ \A q \in Process \ {p} : pc'[q] = pc[q] /\ job'[q] = job[q]
  <1>1. "idle" \in Place /\ NoJob \in Job
    BY JobFacts DEF Place
  <1>2. /\ pc'[p] = "idle" /\ job'[p] = NoJob
        /\ \A q \in Process \ {p} : pc'[q] = pc[q] /\ job'[q] = job[q]
    BY <1>1, Others DEF stop
  <1> QED
    BY <1>2 DEF TakenBy

\* The daemon records what it has added: there is a live addition of its key
\* now, and one more than a running undo of that key takes away.
LEMMA RecordKeeps ==
    ASSUME NEW r \in Root, NEW p \in Pattern, Undoable(r, p), SavesInv, TypeOK', KeysInv,
           AllReserved, AppendAdded
    PROVE  Undoable(r, p)'
  <1>1. /\ TypeOK /\ Daemon \in Process /\ job[Daemon] \in Job
        /\ Role(Daemon, pc[Daemon], job[Daemon]) /\ r \in File
    BY FileFacts DEF SavesInv, TypeOK, Roles
  <1>2. Logs(Daemon, "added") /\ "added" \in LogOp
    BY AddedLogs DEF LogOp
  <1>3. /\ pc[Daemon] = "append" /\ pc'[Daemon] = "idle"
        /\ \A q \in Process \ {Daemon} : pc'[q] = pc[q] /\ job'[q] = job[q]
    BY <1>1, StoppedIs DEF AppendAdded
  <1>4. job[Daemon].op = "add"
    BY <1>1, <1>3 DEF Role
  <1>5. Taken' \subseteq Taken
    BY <1>1, <1>3, MovesOn
  <1>6. UNCHANGED <<file, byHand, spoiled>> /\ unlogged \subseteq unlogged'
        /\ unlogged' = IF Glued THEN unlogged \cup {job[Daemon].pattern} ELSE unlogged
    BY DEF AppendAdded
  <1>7. InFile(r, p)' => InFile(r, p)
    BY <1>6 DEF InFile
  <1>8. ASSUME NEW i \in DOMAIN log, LiveIn(log, i) PROVE Firm(log, log', i)
    BY <1>1, <1>2, <1>8, LogIsFirm
  <1>9. CASE ~(Adding(r, p) /\ InFile(r, p)')
    BY <1>1, <1>5, <1>7, <1>8, <1>9, UndoableFrame
  <1>10. CASE Adding(r, p) /\ InFile(r, p)'
    <2>1. PICK j \in Job : j = job[Daemon] /\ j.file = r /\ j.pattern = p /\ j.op = "add"
      BY <1>1, <1>4, <1>10 DEF Adding
    <2>2. ~Glued /\ unlogged' = unlogged /\ p \notin unlogged
      BY <1>6, <1>10, <2>1 DEF InFile
    <2>3. PICK row \in AuditLogRow : row = Row("added", j) /\ log' = Append(log, row)
      BY <1>1, <1>2, <2>1, <2>2, RowFacts DEF Logs, LogGrows
    <2>4. /\ row.op = "added" /\ key(row) = key(j) /\ row.pattern = p /\ row.target = r
      BY <2>1, <2>3 DEF Row, key
    <2>5. PICK n \in Nat : n = Len(log) /\ log \in Seq(AuditLogRow) /\ log' \in Seq(AuditLogRow)
      BY <1>1 DEF TypeOK
    <2>6. Len(log') = n + 1 /\ log'[n + 1] = row /\ n + 1 \in DOMAIN log'
      BY <2>3, <2>5
    <2>7. CASE key(j) \notin Taken
      <3>1. Balance(log', key(row), n + 1, n + 1) = -1
        <4>1. PICK m \in Int : m = n + 1 /\ m - 1 < m
          OBVIOUS
        <4>2. /\ Balance(log', key(row), m, m - 1) = 0
              /\ Balance(log', key(row), m, m) =
                   Balance(log', key(row), m, m - 1) + Weight(log'[m], key(row))
          BY <4>1, BalanceType, BalanceSteps
        <4>3. Weight(row, key(row)) = -1
          BY <2>4 DEF Weight
        <4> QED
          BY <2>6, <4>1, <4>2, <4>3
      <3>2. \A m \in n + 1..n + 1 : m = n + 1
        OBVIOUS
      <3>3. LiveIn(log', n + 1)
        BY <2>4, <2>6, <3>1, <3>2 DEF LiveIn
      <3>4. key(log'[n + 1]) \notin Taken'
        BY <1>5, <2>4, <2>6, <2>7
      <3>5. Spare(n + 1)'
        BY <3>3, <3>4 DEF Spare, key
      <3> QED
        BY <2>4, <2>6, <3>5 DEF Undoable
    <2>8. CASE key(j) \in Taken
      <3>1. PICK c \in Cli : TakenBy(c) /\ key(job[c]) = key(j)
        BY <2>8 DEF Taken, TakenBy
      <3>2. job[c].op = "undo" /\ job[c].pattern = p
        BY <2>1, <3>1 DEF TakenBy, key
      <3>3. PICK i \in DOMAIN log : LiveIn(log, i) /\ key(log[i]) = key(job[c])
        BY <2>2, <3>2 DEF AllReserved, Reserved
      <3>4. log[i].target = r /\ log[i].pattern = p /\ key(log[i]) = key(row)
        BY <1>1, <1>4, <2>1, <2>4, <3>1, <3>3 DEF KeysInv, key
      <3>5. Firm(log, log', i)
        BY <1>8, <3>3
      <3>6. Balance(log', key(log[i]), i, n + 1) < -1
        <4>1. Balance(log', key(log[i]), i, n + 1)
                = Balance(log, key(log[i]), i, n) + Weight(row, key(log[i]))
              /\ Balance(log, key(log[i]), i, n) \in Int
          <5>1. PICK k : k = key(log[i])
            OBVIOUS
          <5>2. /\ Balance(Append(log, row), k, i, Len(log) + 1)
                     = Balance(log, k, i, Len(log)) + Weight(row, k)
                /\ Balance(log, k, i, Len(log)) \in Int
            BY <2>5, AppendBalance
          <5> QED
            BY <2>3, <2>5, <5>1, <5>2
        <4>2. Weight(row, key(log[i])) = -1
          BY <2>4, <3>4 DEF Weight
        <4>3. Balance(log, key(log[i]), i, n) < 0
          <5>1. n \in i..Len(log)
            BY <2>5
          <5> QED
            BY <2>5, <3>3, <5>1 DEF LiveIn
        <4> QED
          BY <4>1, <4>2, <4>3
      <3>7. Spare(i)' /\ log'[i] = log[i] /\ i \in DOMAIN log'
        BY <2>6, <3>5, <3>6 DEF Spare, Firm, key
      <3> QED
        BY <3>4, <3>7 DEF Undoable
    <2> QED
      BY <2>7, <2>8
  <1> QED
    BY <1>9, <1>10

\* An undo is recorded: its key had one addition to spare.
LEMMA UndoneKeeps ==
    ASSUME NEW r \in Root, NEW p \in Pattern, Undoable(r, p), SavesInv, TypeOK', KeysInv,
           NEW c \in Cli, AppendUndone(c)
    PROVE  Undoable(r, p)'
  <1>1. /\ TypeOK /\ c \in Process /\ c # Daemon /\ job[c] \in Job /\ Role(c, pc[c], job[c])
    BY FileFacts, NamesAssumption DEF SavesInv, TypeOK, Roles
  <1>2. Logs(c, "undone") /\ "undone" \in LogOp
    BY UndoneLogs DEF LogOp
  <1>3. /\ pc[c] = "append" /\ ~TakenBy(c)'
        /\ \A q \in Process \ {c} : pc'[q] = pc[q] /\ job'[q] = job[q]
    BY <1>1, StoppedIs DEF AppendUndone
  <1>4. job[c].op = "undo" /\ TakenBy(c) /\ key(job[c]) \in Taken
    <2>1. job[c].op = "undo" /\ TakenBy(c)
      BY <1>1, <1>3 DEF Role, TakenBy
    <2> QED
      BY <2>1 DEF Taken, TakenBy
  <1>5. Taken' \subseteq Taken /\ (Adding(r, p)' <=> Adding(r, p))
    BY <1>1, <1>3, MovesOn
  <1>6. UNCHANGED <<file, byHand, spoiled>>
    BY DEF AppendUndone
  <1>7. unlogged \subseteq unlogged'
    BY DEF AppendUndone
  <1>8. InFile(r, p)' => InFile(r, p)
    BY <1>6, <1>7 DEF InFile
  <1> SUFFICES ASSUME InFile(r, p)', ~Adding(r, p)'
               PROVE  \E i \in DOMAIN log' : Spare(i)' /\ log'[i].pattern = p /\ log'[i].target = r
    BY DEF Undoable
  <1>9. PICK i \in DOMAIN log : Spare(i) /\ log[i].pattern = p /\ log[i].target = r
    BY <1>5, <1>8 DEF Undoable
  <1>10. LiveIn(log, i) /\ i \in Int /\ Len(log) \in Int /\ Len(log') \in Int
         /\ log \in Seq(AuditLogRow)
    BY <1>1, <1>9 DEF Spare, TypeOK
  <1>11. CASE key(log[i]) # key(job[c])
    <2>1. Firm(log, log', i)
      BY <1>1, <1>2, <1>10, <1>11, LogIsFirm
    <2>2. ASSUME key(log[i]) \in Taken' PROVE Balance(log', key(log[i]), i, Len(log')) < -1
      <3>1. Balance(log, key(log[i]), i, Len(log)) < -1
        BY <1>5, <1>9, <2>2 DEF Spare
      <3>2. Balance(log, key(log[i]), i, Len(log)) \in Int
            /\ Balance(log', key(log[i]), i, Len(log')) \in Int
        BY <1>10, BalanceType
      <3> QED
        BY <2>1, <3>1, <3>2 DEF Firm
    <2> QED
      BY <1>9, <2>1, <2>2 DEF Firm, Spare, key
  <1>12. CASE key(log[i]) = key(job[c])
    <2>1. p = job[c].pattern
      BY <1>9, <1>12 DEF key
    <2>2. \A d \in Cli \ {c} : job[d].op = "undo" => key(job[d]) # key(job[c])
      BY <2>1 DEF AppendUndone, InFile
    <2>3. key(log[i]) \notin Taken'
      <3>1. SUFFICES ASSUME key(log[i]) \in Taken' PROVE FALSE
        OBVIOUS
      <3>2. PICK d \in Cli : TakenBy(d)' /\ key(job'[d]) = key(job[c])
        BY <1>12, <3>1 DEF Taken, TakenBy, key
      <3>3. d # c /\ job'[d] = job[d]
        BY <1>3, <3>2, FileFacts
      <3>4. job[d].op = "undo" /\ key(job[d]) = key(job[c])
        BY <3>2, <3>3 DEF TakenBy
      <3> QED
        BY <2>2, <3>3, <3>4
    <2>4. LiveIn(log', i) /\ i \in DOMAIN log' /\ log'[i] = log[i]
      <3>1. CASE Glued
        BY <1>1, <1>2, <1>10, <3>1, LogIsFirm DEF Firm
      <3>2. CASE ~Glued
        <4>1. PICK row \in AuditLogRow : row = Row("undone", job[c]) /\ log' = Append(log, row)
          BY <1>1, <1>2, <3>2, RowFacts DEF Logs, LogGrows
        <4>2. Weight(row, key(log[i])) = 1
          BY <1>12, <4>1 DEF Row, key, Weight
        <4>3. Balance(log, key(log[i]), i, Len(log)) < -1
              /\ Balance(log, key(log[i]), i, Len(log)) \in Int
          BY <1>4, <1>9, <1>10, <1>12, BalanceType DEF Spare
        <4>4. Balance(log, key(log[i]), i, Len(log)) + Weight(row, key(log[i])) < 0
          BY <4>2, <4>3
        <4> QED
          BY <1>10, <4>1, <4>4, AppendLeaves
      <3> QED
        BY <3>1, <3>2
    <2> QED
      BY <1>9, <2>3, <2>4 DEF Spare, key
  <1> QED
    BY <1>11, <1>12

\* A line that is not or not wholly written.
LEMMA FailureKeeps ==
    ASSUME NEW r \in Root, NEW p \in Pattern, Undoable(r, p), SavesInv, TypeOK',
           NEW x \in Process, AppendFails(x)
    PROVE  Undoable(r, p)'
  <1>1. TypeOK
    BY DEF SavesInv
  <1>2. /\ pc[x] = "append" /\ pc'[x] = "idle" /\ ~TakenBy(x)'
        /\ \A q \in Process \ {x} : pc'[q] = pc[q] /\ job'[q] = job[q]
    BY <1>1, StoppedIs DEF AppendFails
  <1>3. UNCHANGED <<file, byHand, spoiled>>
    BY DEF AppendFails
  <1>4. unlogged \subseteq unlogged' /\ (x = Daemon => job[x].pattern \in unlogged')
    BY DEF AppendFails
  <1>5. Taken' \subseteq Taken
    BY <1>2, MovesOn
  <1>6. (InFile(r, p)' => InFile(r, p)) /\ (InFile(r, p)' /\ Adding(r, p) => Adding(r, p)')
    <2>1. x # Daemon => (Adding(r, p)' <=> Adding(r, p))
      BY <1>2, FileFacts DEF Adding
    <2> QED
      BY <1>3, <1>4, <2>1 DEF InFile, Adding
  <1>7. ASSUME NEW i \in DOMAIN log, LiveIn(log, i) PROVE Firm(log, log', i)
    <2>1. CASE log' = log
      BY <1>1, <1>7, <2>1, SameIsFirm DEF TypeOK
    <2>2. CASE log' # log
      <3>1. Logs(x, "fragment") /\ "fragment" \in LogOp
        BY <2>2 DEF AppendFails, Logs, LogGrows, LogOp
      <3> QED
        BY <1>1, <1>7, <3>1, LogIsFirm
    <2> QED
      BY <2>1, <2>2
  <1> QED
    BY <1>1, <1>5, <1>6, <1>7, UndoableFrame

\* A write reaches the settings file itself only when another has spoiled it.
LEMMA WriteStays ==
    ASSUME SavesInv, NEW x \in Process, WriteTmp(x) \/ WriteFails(x),
           NEW r \in File, spoiled[r] = {}
    PROVE  file'[r] = file[r]
  <1>1. TypeOK /\ job[x].file \in File /\ Safe(r) /\ pc[x] = "opened"
    BY JobFacts DEF SavesInv, SettingsInv, TypeOK, WriteTmp, WriteFails
  <1>2. CASE job[x].file = r
    <2>1. fd[x] = "tmp"
      BY <1>1, <1>2 DEF Safe, Held, Prepared, Saving
    <2> QED
      BY <2>1 DEF WriteTmp, WriteFails, put
  <1>3. CASE job[x].file # r
    BY <1>1, <1>3 DEF WriteTmp, WriteFails, put, TypeOK
  <1> QED
    BY <1>2, <1>3

LEMMA UndoableStep ==
    ASSUME UndoInv, TypeOK', [Next]_vars, NEW r \in Root, NEW p \in Pattern
    PROVE  Undoable(r, p)'
  <1>0. /\ TypeOK /\ SavesInv /\ KeysInv /\ AllReserved /\ Undoable(r, p) /\ r \in File
        /\ unlogged \subseteq unlogged' /\ Daemon \in Process
        /\ \A q \in Process : job[q] \in Job /\ Role(q, pc[q], job[q])
        /\ {"idle", "found", "loaded", "opened", "written", "append", "config"} \subseteq Place
    BY UnloggedGrows, FileFacts DEF UndoInv, SavesInv, AllUndoable, TypeOK, Roles, Place
  <1>1. ASSUME NEW t \in Root, NEW q \in Pattern, NEW id \in Id \ {0}, Always(t, q, id)
        PROVE  Undoable(r, p)'
    <2>1. /\ pc[Daemon] = "idle" /\ pc'[Daemon] = "loaded"
          /\ \A x \in Process \ {Daemon} : pc'[x] = pc[x] /\ job'[x] = job[x]
      BY <1>0, <1>1, NewJob
    <2>2. UNCHANGED <<file, byHand, log>>
      BY <1>1 DEF Always
    <2>3. spoiled[r] \subseteq spoiled'[r]
      BY <1>0, <1>1 DEF Always, load, spoil, TypeOK
    <2>4. ~Adding(r, p)
      BY <2>1 DEF Adding
    <2> QED
      BY <1>0, <2>1, <2>2, <2>3, <2>4, IdleKeeps
  <1>2. ASSUME AppendAdded PROVE Undoable(r, p)'
    BY <1>0, <1>2, RecordKeeps
  <1>3. ASSUME NEW c \in Cli, Command(c) PROVE Undoable(r, p)'
    <2>0. c \in Process /\ c # Daemon
      BY FileFacts, NamesAssumption
    <2>1. ASSUME pc'[c] \in {"idle", "found", "loaded", "config"},
                 \A x \in Process \ {c} : pc'[x] = pc[x] /\ job'[x] = job[x],
                 UNCHANGED <<file, byHand, log>>, spoiled[r] \subseteq spoiled'[r]
          PROVE  Undoable(r, p)'
      BY <1>0, <2>0, <2>1, IdleKeeps
    <2>2. ASSUME Undo(c) PROVE Undoable(r, p)'
      <3>1. pc'[c] = "found" /\ \A x \in Process \ {c} : pc'[x] = pc[x] /\ job'[x] = job[x]
        BY <1>0, <2>2, NewJob
      <3> QED
        BY <2>1, <2>2, <3>1 DEF Undo, history
    <2>3. ASSUME UndoRefuses(c) \/ KeepConfig(c) PROVE Undoable(r, p)'
      <3>1. pc'[c] = "idle" /\ \A x \in Process \ {c} : pc'[x] = pc[x] /\ job'[x] = job[x]
        BY <1>0, <2>0, <2>3, StoppedIs DEF UndoRefuses, KeepConfig
      <3> QED
        BY <2>1, <2>3, <3>1 DEF UndoRefuses, KeepConfig, history
    <2>4. ASSUME UndoFindsNothing(c) PROVE Undoable(r, p)'
      BY <1>0, <2>4, NothingKeeps
    <2>5. ASSUME SetupHasHooks(c) PROVE Undoable(r, p)'
      <3>1. pc'[c] = "config" /\ \A x \in Process \ {c} : pc'[x] = pc[x] /\ job'[x] = job[x]
        BY <1>0, <2>0, <2>5, Others DEF SetupHasHooks
      <3> QED
        BY <2>1, <2>5, <3>1 DEF SetupHasHooks, history
    <2>6. ASSUME NEW op, NEW f, NEW pattern, NEW id, NEW copy,
                 load(c, op, f, pattern, id, copy), UNCHANGED <<file, byHand, log>>
          PROVE  Undoable(r, p)'
      <3>1. pc'[c] = "loaded" /\ \A x \in Process \ {c} : pc'[x] = pc[x] /\ job'[x] = job[x]
        BY <1>0, <2>0, <2>6 DEF load, start, TypeOK
      <3>2. spoiled[r] \subseteq spoiled'[r]
        BY <1>0, <2>6 DEF load, spoil, TypeOK
      <3> QED
        BY <2>1, <2>6, <3>1, <3>2
    <2>7. ASSUME UndoLoads(c) PROVE Undoable(r, p)'
      BY <2>6, <2>7 DEF UndoLoads
    <2>8. ASSUME Setup(c) PROVE Undoable(r, p)'
      BY <2>6, <2>8 DEF Setup
    <2>9. ASSUME WriteConfig(c) PROVE Undoable(r, p)'
      BY <2>6, <2>9 DEF WriteConfig
    <2>10. ASSUME AppendUndone(c) PROVE Undoable(r, p)'
      BY <1>0, <2>10, UndoneKeeps
    <2> QED
      BY <1>3, <2>2, <2>3, <2>4, <2>5, <2>7, <2>8, <2>9, <2>10 DEF Command
  <1>4. ASSUME NEW x \in Process, Save(x) PROVE Undoable(r, p)'
    <2>1. ASSUME pc'[x] \in {"idle", "opened", "written"}, pc[x] \in {"loaded", "opened", "written"},
                 \A q \in Process \ {x} : pc'[q] = pc[q] /\ job'[q] = job[q],
                 spoiled[r] = {} => file'[r] = file[r], UNCHANGED <<byHand, log, spoiled>>
          PROVE  Undoable(r, p)'
      <3>1. x = Daemon => ~Adding(r, p)
        BY <2>1 DEF Adding
      <3> QED
        BY <1>0, <2>1, <3>1, IdleKeeps
    <2>2. ASSUME OpenTmp(x) PROVE Undoable(r, p)'
      <3>1. pc'[x] = "opened" /\ \A q \in Process \ {x} : pc'[q] = pc[q] /\ job'[q] = job[q]
        BY <1>0, <2>2, Others DEF OpenTmp
      <3> QED
        BY <2>1, <2>2, <3>1 DEF OpenTmp, history
    <2>3. ASSUME WriteTmp(x) PROVE Undoable(r, p)'
      <3>1. pc'[x] = "written" /\ \A q \in Process \ {x} : pc'[q] = pc[q] /\ job'[q] = job[q]
        BY <1>0, <2>3, Others DEF WriteTmp
      <3>2. spoiled[r] = {} => file'[r] = file[r]
        BY <1>0, <2>3, WriteStays
      <3>3. pc[x] = "opened" /\ UNCHANGED <<byHand, log, spoiled>>
        BY <2>3 DEF WriteTmp, history
      <3> QED
        BY <2>1, <3>1, <3>2, <3>3
    <2>4. ASSUME WriteFails(x) PROVE Undoable(r, p)'
      <3>1. pc'[x] = "idle" /\ \A q \in Process \ {x} : pc'[q] = pc[q] /\ job'[q] = job[q]
        BY <1>0, <2>4, StoppedIs DEF WriteFails
      <3>2. spoiled[r] = {} => file'[r] = file[r]
        BY <1>0, <2>4, WriteStays
      <3>3. pc[x] = "opened" /\ UNCHANGED <<byHand, log, spoiled>>
        BY <2>4 DEF WriteFails, history
      <3> QED
        BY <2>1, <3>1, <3>2, <3>3
    <2>5. ASSUME Rename(x) PROVE Undoable(r, p)'
      BY <1>0, <2>5, RenameKeeps
    <2>6. ASSUME RenameFails(x) PROVE Undoable(r, p)'
      <3>1. pc'[x] = "idle" /\ \A q \in Process \ {x} : pc'[q] = pc[q] /\ job'[q] = job[q]
        BY <1>0, <2>6, StoppedIs DEF RenameFails
      <3> QED
        BY <2>1, <2>6, <3>1 DEF RenameFails, history
    <2>7. ASSUME SyncDir(x) \/ SyncFails(x) PROVE Undoable(r, p)'
      <3>1. pc[x] = "renamed" /\ saved(x) /\ UNCHANGED <<file, byHand, log, spoiled>>
        BY <2>7 DEF SyncDir, SyncFails, history
      <3>2. job' = job /\ \A q \in Process \ {x} : pc'[q] = pc[q]
        BY <1>0, <3>1, Others DEF saved
      <3>3. pc'[x] = IF job[x].op = "setup" THEN "config" ELSE "append"
        BY <1>0, <3>1, Others DEF saved
      <3>4. TakenBy(x)' => TakenBy(x)
        BY <3>1, <3>2 DEF TakenBy
      <3>5. Taken' \subseteq Taken
        <4>1. \A c \in Cli : TakenBy(c)' => TakenBy(c) /\ key(job'[c]) = key(job[c])
          <5>1. ASSUME NEW c \in Cli, TakenBy(c)' PROVE TakenBy(c)
            <6>1. CASE c = x
              BY <3>4, <5>1, <6>1
            <6>2. CASE c # x
              BY <3>2, <5>1, <6>2, FileFacts DEF TakenBy
            <6> QED
              BY <6>1, <6>2
          <5> QED
            BY <3>2, <5>1
        <4> QED
          BY <4>1, TakenFrame
      <3>6. Adding(r, p) => Adding(r, p)'
        <4>1. CASE x = Daemon
          <5>1. job[x].op # "setup"
            BY <1>0, <4>1 DEF Role
          <5> QED
            BY <3>2, <3>3, <4>1, <5>1 DEF Adding
        <4>2. CASE x # Daemon
          BY <1>0, <3>2, <4>2 DEF Adding
        <4> QED
          BY <4>1, <4>2
      <3> QED
        BY <1>0, <3>1, <3>5, <3>6, QuietKeeps
    <2>8. ASSUME AppendFails(x) PROVE Undoable(r, p)'
      BY <1>0, <2>8, FailureKeeps
    <2>9. ASSUME Dies(x) PROVE Undoable(r, p)'
      <3>1. pc'[x] = "idle" /\ \A q \in Process \ {x} : pc'[q] = pc[q] /\ job'[q] = job[q]
        BY <1>0, <2>9, StoppedIs DEF Dies
      <3>2. UNCHANGED <<file, byHand, log, spoiled>>
        BY <2>9 DEF Dies
      <3>3. x = Daemon /\ Adding(r, p) => p \in unlogged'
        <4>1. SUFFICES ASSUME x = Daemon, Adding(r, p) PROVE p \in unlogged'
          OBVIOUS
        <4>2. job[x].op = "add" /\ pc[x] \in {"renamed", "append"} /\ job[x].pattern = p
          BY <1>0, <4>1 DEF Adding, Role
        <4> QED
          BY <2>9, <4>2 DEF Dies
      <3> QED
        BY <1>0, <3>1, <3>2, <3>3, IdleKeeps
    <2> QED
      BY <1>4, <2>2, <2>3, <2>4, <2>5, <2>6, <2>7, <2>8, <2>9 DEF Save
  <1>5. ASSUME PowerLoss PROVE Undoable(r, p)'
    BY <1>0, <1>5, LossKeeps
  <1>6. ASSUME NEW f \in File, UserEdits(f) PROVE Undoable(r, p)'
    BY <1>0, <1>6, EditKeeps
  <1>7. ASSUME UNCHANGED vars PROVE Undoable(r, p)'
    <2>1. UNCHANGED <<file, byHand, log, spoiled, unlogged, pc, job>>
      BY <1>7 DEF vars, history
    <2>2. Taken' \subseteq Taken /\ (Adding(r, p)' <=> Adding(r, p))
      BY <2>1, TakenFrame DEF TakenBy, Adding
    <2> QED
      BY <1>0, <2>1, <2>2, QuietKeeps
  <1> QED
    BY <1>1, <1>2, <1>3, <1>4, <1>5, <1>6, <1>7 DEF Next

\* At the start every line is an addition, so every addition is live.
LEMMA UndoInit ==
    ASSUME Init, TypeOK
    PROVE  KeysInv /\ AllReserved /\ AllUndoable
  <1>1. /\ log \in Seq(AuditLogRow) /\ \A i \in DOMAIN log : log[i].op = "added"
        /\ \A i, j \in DOMAIN log : key(log[i]) = key(log[j]) => log[i].target = log[j].target
    BY LogsAssumption DEF Init
  <1>2. \A q \in Process : job[q].op = "none" /\ pc[q] = "idle"
    BY DEF Init, NoJob
  <1>3. KeysInv
    BY <1>1, <1>2 DEF KeysInv
  <1>4. AllReserved
    BY <1>2, FileFacts DEF AllReserved, Reserved
  <1>5. Taken = {}
    BY <1>2, FileFacts DEF Taken
  <1>6. ASSUME NEW i \in DOMAIN log PROVE LiveIn(log, i)
    <2>1. i \in Int /\ Len(log) \in Int /\ i \in 1..Len(log)
      BY <1>1
    <2>2. ASSUME NEW m \in i..Len(log) PROVE Balance(log, key(log[i]), i, m) < 0
      <3>1. m \in Int /\ i \in i..m /\ \A x \in i..m : x \in DOMAIN log
        BY <1>1, <2>1
      <3>2. Undos(log, key(log[i]), i, m) = {}
        BY <1>1, <3>1 DEF Undos
      <3>3. Adds(log, key(log[i]), i, m) # {}
        BY <1>1, <3>1 DEF Adds
      <3>4. /\ Cardinality(Undos(log, key(log[i]), i, m)) = 0
            /\ Cardinality(Adds(log, key(log[i]), i, m)) # 0
        BY <2>1, <3>1, <3>2, <3>3, BalanceType, FS_EmptySet
      <3> QED
        BY <2>1, <3>1, <3>4, BalanceType DEF Balance
    <2> QED
      BY <1>1, <2>2 DEF LiveIn
  <1>7. ASSUME NEW r \in Root, NEW p \in Pattern PROVE Undoable(r, p)
    <2> SUFFICES ASSUME InFile(r, p)
                 PROVE  \E i \in DOMAIN log : Spare(i) /\ log[i].pattern = p /\ log[i].target = r
      BY DEF Undoable
    <2>1. file[r] = IF Logged(r) = {} THEN Empty("absent") ELSE Object(Logged(r), {})
      BY FileFacts DEF Init
    <2>2. p \in Logged(r)
      BY <2>1 DEF InFile, Empty, Object
    <2>3. PICK i \in DOMAIN log : log[i].target = r /\ log[i].pattern = p
      BY <2>2 DEF Logged
    <2> QED
      BY <1>5, <1>6, <2>3 DEF Spare
  <1> QED
    BY <1>3, <1>4, <1>7 DEF AllUndoable

LEMMA UndoInvHolds == Spec => []UndoInv
<1>1. Init /\ TypeOK => KeysInv /\ AllReserved /\ AllUndoable
  BY UndoInit
<1>2. ASSUME SavesInv, TypeOK', KeysInv, AllReserved, AllUndoable, [Next]_vars
      PROVE  KeysInv' /\ AllReserved' /\ AllUndoable'
  <2>1. TypeOK /\ Roles /\ UndoInv
    BY <1>2 DEF SavesInv, UndoInv
  <2>2. KeysInv'
    BY <1>2, <2>1, KeysStep
  <2>3. AllReserved'
    BY <1>2, <2>1, ReservedStep DEF AllReserved
  <2>4. AllUndoable'
    BY <1>2, <2>1, UndoableStep DEF AllUndoable
  <2> QED
    BY <2>2, <2>3, <2>4
<1>3. UndoInv <=> SavesInv /\ KeysInv /\ AllReserved /\ AllUndoable
  BY DEF UndoInv
<1> QED
  BY <1>1, <1>2, <1>3, TypeCorrect, SavesInvHolds, PTL DEF Spec

\* What an Always has written and logged can be undone, through failures,
\* restarts and power losses, and whatever commands run meanwhile: undos come to
\* a live addition of it, unless one that is live has a root undo refuses.
THEOREM AdditionsUndoable == Spec => []AdditionsAreUndoable
<1>1. ASSUME UndoInv, \A i \in DOMAIN log : ~Refused(i), NEW r \in Root, NEW p \in AddedByAlways(r)
      PROVE  UndosReach(r, p)
  <2>1. p \in Pattern /\ InFile(r, p) /\ ~Adding(r, p)
    <3>1. TypeOK /\ r \in File
      BY <1>1, FileFacts DEF UndoInv, SavesInv
    <3>2. file[r].allow \subseteq Pattern
      BY <3>1 DEF TypeOK, Content
    <3> QED
      BY <1>1, <3>2 DEF AddedByAlways, InFile, Adding
  <2>2. Undoable(r, p) /\ TypeOK
    BY <1>1, <2>1 DEF UndoInv, SavesInv, AllUndoable
  <2>3. PICK i \in DOMAIN log : Spare(i) /\ log[i].pattern = p /\ log[i].target = r
    BY <2>1, <2>2 DEF Undoable
  <2>4. Live(i)
    BY <2>2, <2>3, LiveIs DEF Spare
  <2>5. \A j \in i..Len(log) : j \in DOMAIN log
    BY <2>2, <2>3 DEF TypeOK
  <2> QED
    BY <1>1, <2>3, <2>4, <2>5 DEF UndosReach
<1>2. UndoInv => AdditionsAreUndoable
  BY <1>1 DEF AdditionsAreUndoable
<1> QED
  BY <1>2, UndoInvHolds, PTL
=============================================================================
