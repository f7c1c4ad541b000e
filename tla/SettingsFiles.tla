--------------------------- MODULE SettingsFiles ---------------------------
(***************************************************************************)
(* Claude Code's settings files and the programs of ccbridge that change    *)
(* them: the daemon when the user clicks Always                            *)
(* (permission/additions/write.rs), `ccbridged undo-last-allow` (undo.rs,   *)
(* audit_log.rs) and `ccbridged setup` (setup.rs).  Each is a process that *)
(* loads a file, changes its copy, writes <file>.tmp and renames it; the   *)
(* name of the temporary file is the same for all, and no lock is taken.   *)
(*                                                                         *)
(* An allow list is a set: writers add what is absent and remove every     *)
(* copy.  Of the hooks only ccbridge's own entries are kept, per event.    *)
(***************************************************************************)
EXTENDS Integers, FiniteSets, SequencesExt

CONSTANTS
    Root,        \* project roots; each has its .claude/settings.local.json
    RefusedRoot, \* those that validate_audit_root does not take
    Pattern,     \* what derive_pattern may yield
    HookEvent,   \* the events setup registers (HOOK_EVENTS)
    Cli,         \* command line invocations that may run at once
    LegacyLog,   \* logs that earlier runs may have left
    MaxAlways,   \* bound: clicks on Always
    MaxCommands, \* bound: invocations of the command line
    MaxTroubles  \* bound: edits by the user or Claude Code, failing system
                 \* calls, killed processes and power losses together

User   == "user"      \* ~/.claude/settings.json
Config == "config"    \* ccbridge/config.toml, of which setup writes a default
Daemon == "daemon"

ASSUME NamesAssumption == User \notin Root /\ Config \notin Root /\ Daemon \notin Cli
ASSUME RootsAssumption == RefusedRoot \subseteq Root
ASSUME PatternsAssumption == Pattern # {}
ASSUME BoundsAssumption == {MaxAlways, MaxCommands, MaxTroubles} \subseteq Nat

VARIABLES
    file,     \* the settings files
    durable,  \* what a power loss may leave in their place
    tmp,      \* <file>.tmp
    log,      \* the audit log
    pc, job,  \* per process: what it does, and with which copy of which file
    fd,       \* per process: under which name the file it has open is found now
    left,     \* what remains of the bounds
    spoiled,  \* history: why nothing is claimed of a file any more
    byHand,   \* history: the patterns the user has written into a file
    unlogged  \* history: patterns whose addition the log lacks or holds undone

history == <<spoiled, byHand, unlogged>>
vars == <<file, durable, tmp, log, pc, job, fd, left, history>>

File    == Root \cup {User, Config}
Process == Cli \cup {Daemon}
Id      == 0..MaxAlways     \* tool_use_ids, 0 for those of earlier runs

\* odd: JSON with members of another shape; list: whose root is no object;
\* broken: no JSON, the empty file among them.
Kind    == {"absent", "object", "odd", "list", "broken"}
Content == [kind : Kind, allow : SUBSET Pattern, hooks : SUBSET HookEvent]
Empty(kind) == [kind |-> kind, allow |-> {}, hooks |-> {}]
Object(allow, hooks) == [kind |-> "object", allow |-> allow, hooks |-> hooks]

\* The settings file of a row, or unknown, written by a newer daemon.
AuditTarget == File \cup {"unknown"}

\* Refused are a relative root, / and ~/.claude: each is where an Always writes
\* for a call made there, as the root is then the cwd (resolve_write_target).
validate_audit_root(target) == target \in File \ RefusedRoot

\* A fragment is an unfinished last line, to which the next is glued.
AuditLogRow == [op : {"added", "undone", "fragment", "unreadable"}, pattern : Pattern,
                id : Id, target : AuditTarget]

\* Additions only, and a tool call is made in one project.
key(row) == <<row.pattern, row.id>>
ASSUME LogsAssumption == \A l \in LegacyLog :
    /\ l \in Seq(AuditLogRow) /\ \A i \in DOMAIN l : l[i].op = "added"
    /\ \A i, j \in DOMAIN l : key(l[i]) = key(l[j]) => l[i].target = l[j].target

Job   == [op : {"none", "add", "undo", "setup", "config"}, file : File,
          pattern : Pattern, id : Id, copy : Content]
Place == {"idle", "found", "loaded", "opened", "written", "renamed", "append", "config"}
Cause == {"user", "overlap", "edited", "unsynced"}
Bound == {"always", "commands", "troubles"}

NoJob == [op |-> "none", file |-> User, pattern |-> CHOOSE p \in Pattern : TRUE,
          id |-> 0, copy |-> Empty("absent")]

TypeOK ==
    /\ file \in [File -> Content] /\ tmp \in [File -> Content]
    /\ durable \in [File -> SUBSET Content]
    /\ log \in Seq(AuditLogRow)
    /\ pc \in [Process -> Place] /\ job \in [Process -> Job]
    /\ fd \in [Process -> {"none", "tmp", "file", "lost"}]
    /\ left \in [Bound -> Nat]
    /\ spoiled \in [File -> SUBSET Cause] /\ byHand \in [File -> SUBSET Pattern]
    /\ unlogged \subseteq Pattern

spend(b) == left[b] > 0 /\ left' = [left EXCEPT ![b] = @ - 1]
spoil(f, cause, when) ==
    spoiled' = [spoiled EXCEPT ![f] = IF when THEN @ \cup {cause} ELSE @]

start(p, j, place) == job' = [job EXCEPT ![p] = j] /\ pc' = [pc EXCEPT ![p] = place]
goto(p, place) == job' = job /\ pc' = [pc EXCEPT ![p] = place]
stop(p) == start(p, NoJob, "idle")

\* p has loaded f and will replace it by its copy.
Saving(q, f) == job[q].file = f /\ pc[q] \in {"loaded", "opened", "written"}
load(p, op, f, pattern, id, copy) ==
    /\ start(p, [op |-> op, file |-> f, pattern |-> pattern, id |-> id, copy |-> copy],
             "loaded")
    /\ spoil(f, "overlap", \E q \in Process \ {p} : Saving(q, f))

-----------------------------------------------------------------------------
(* The audit log (audit_log.rs).  A key is a pattern with its tool_use_id.  *)

\* Mutant: a set of undone keys where the code counts them.
Bug_Walk(row, seen) ==
    IF seen.result # <<>> \/ row.op \in {"fragment", "unreadable"} THEN seen
    ELSE IF row.op = "undone" THEN [seen EXCEPT !.undo_counts[key(row)] = 1]
    ELSE IF seen.undo_counts[key(row)] > 0 \/ row.target = "unknown" THEN seen
    ELSE [seen EXCEPT !.result = <<row>>]

\* One line of the reverse walk: an undone line cancels the addition before it.
Walk(row, seen) ==
    LET count == seen.undo_counts[key(row)] IN
    IF seen.result # <<>> \/ row.op \in {"fragment", "unreadable"} THEN seen
    ELSE IF row.op = "undone" THEN
        [seen EXCEPT !.undo_counts[key(row)] = count + 1]
    ELSE IF count > 0 THEN
        [seen EXCEPT !.undo_counts[key(row)] = count - 1]
    ELSE IF row.target = "unknown" THEN seen
    ELSE [seen EXCEPT !.result = <<row>>]

find_last_undone_addition ==
    FoldRight(Walk, log, [undo_counts |-> [k \in Pattern \X Id |-> 0],
                          result |-> <<>>]).result

Glued == log # <<>> /\ Last(log).op = "fragment"
Row(op, j) == [op |-> op, pattern |-> j.pattern, id |-> j.id, target |-> j.file]
append_audit_entry(op, j) ==
    log' = IF Glued THEN Append(Front(log), Row("unreadable", j))
           ELSE Append(log, Row(op, j))

-----------------------------------------------------------------------------
(* Loading a file, and what each program does with its copy.  An action     *)
(* that is not enabled for a file stands for one that leaves it alone.      *)

usable(c) == c.kind \in {"absent", "object"}

\* write_allow_pattern: refuses other shapes, skips a pattern that is there.
Always(r, p, id) ==
    /\ pc[Daemon] = "idle" /\ spend("always")
    /\ \A i \in DOMAIN log : key(log[i]) = <<p, id>> => log[i].target = r
    /\ usable(file[r]) /\ p \notin file[r].allow
    /\ load(Daemon, "add", r, p, id, Object(file[r].allow \cup {p}, file[r].hooks))
    /\ UNCHANGED <<file, durable, tmp, log, fd, byHand, unlogged>>

\* undo_last_allow: the log is read first, the settings file later.
Undo(c) ==
    /\ pc[c] = "idle" /\ spend("commands")
    /\ \E row \in AuditLogRow :
         /\ find_last_undone_addition = <<row>> /\ validate_audit_root(row.target)
         /\ start(c, [op |-> "undo", file |-> row.target, pattern |-> row.pattern,
                      id |-> row.id, copy |-> Empty("absent")], "found")
    /\ UNCHANGED <<file, durable, tmp, log, fd, history>>

UndoRefuses(c) ==
    /\ pc[c] = "found" /\ file[job[c].file].kind = "broken"
    /\ stop(c)
    /\ UNCHANGED <<file, durable, tmp, log, fd, left, history>>

\* FileMissing, or AlreadyGone: only the log is written.
UndoFindsNothing(c) ==
    /\ pc[c] = "found" /\ file[job[c].file].kind # "broken"
    /\ job[c].pattern \notin file[job[c].file].allow
    /\ goto(c, "append")
    /\ UNCHANGED <<file, durable, tmp, log, fd, left, history>>

\* Mutant: the undo is recorded, but the file keeps the pattern.
Bug_UndoLoads(c) ==
    /\ pc[c] = "found" /\ job[c].pattern \in file[job[c].file].allow
    /\ goto(c, "append")
    /\ UNCHANGED <<file, durable, tmp, log, fd, left, history>>

UndoLoads(c) ==
    LET j == job[c]  now == file[j.file] IN
    /\ pc[c] = "found" /\ j.pattern \in now.allow
    /\ load(c, "undo", j.file, j.pattern, j.id, Object(now.allow \ {j.pattern}, now.hooks))
    /\ UNCHANGED <<file, durable, tmp, log, fd, left, byHand, unlogged>>

\* Mutant: every root is replaced by an empty object.
Bug_Setup(c) ==
    /\ pc[c] = "idle" /\ spend("commands")
    /\ usable(file[User]) \/ file[User].kind = "list"
    /\ file[User].hooks # HookEvent
    /\ load(c, "setup", User, NoJob.pattern, 0, Object({}, HookEvent))
    /\ UNCHANGED <<file, durable, tmp, log, fd, byHand, unlogged>>

\* merge_hooks: a root that is no object is replaced, an odd member refused.
Setup(c) ==
    /\ pc[c] = "idle" /\ spend("commands")
    /\ usable(file[User]) \/ file[User].kind = "list"
    /\ file[User].hooks # HookEvent
    /\ load(c, "setup", User, NoJob.pattern, 0, Object(file[User].allow, HookEvent))
    /\ UNCHANGED <<file, durable, tmp, log, fd, byHand, unlogged>>

\* Every hook is there: the file is not written again.
SetupHasHooks(c) ==
    /\ pc[c] = "idle" /\ spend("commands")
    /\ file[User].kind = "object" /\ file[User].hooks = HookEvent
    /\ goto(c, "config")
    /\ UNCHANGED <<file, durable, tmp, log, fd, history>>

\* write_default_config_if_absent
WriteConfig(c) ==
    /\ pc[c] = "config" /\ file[Config].kind = "absent"
    /\ load(c, "config", Config, NoJob.pattern, 0, Object({}, {}))
    /\ UNCHANGED <<file, durable, tmp, log, fd, left, byHand, unlogged>>

KeepConfig(c) ==
    /\ pc[c] = "config" /\ file[Config].kind # "absent"
    /\ stop(c)
    /\ UNCHANGED <<file, durable, tmp, log, fd, left, history>>

-----------------------------------------------------------------------------
(* save_settings, and the same steps for the default configuration, which   *)
(* is not synced.                                                           *)

\* create or truncate: whatever another program has written there is gone.
OpenTmp(p) ==
    LET f == job[p].file IN
    /\ pc[p] = "loaded" /\ goto(p, "opened")
    /\ tmp' = [tmp EXCEPT ![f] = Empty("broken")]
    /\ fd' = [fd EXCEPT ![p] = "tmp"]
    /\ UNCHANGED <<file, durable, log, left, history>>

\* The write goes where the open file is found by now; over bytes of another
\* writer it may leave their tail.
overwritten(p, old) ==
    IF old = Empty("broken") THEN {job[p].copy} ELSE {job[p].copy, Empty("broken")}
put(p, new) ==
    LET f == job[p].file IN
    /\ tmp' = IF fd[p] = "tmp" THEN [tmp EXCEPT ![f] = new] ELSE tmp
    /\ file' = IF fd[p] = "file" THEN [file EXCEPT ![f] = new] ELSE file
    /\ durable' = IF fd[p] = "file" THEN [durable EXCEPT ![f] = @ \cup {new}] ELSE durable
    /\ fd' = [fd EXCEPT ![p] = "none"]

WriteTmp(p) ==
    /\ pc[p] = "opened" /\ goto(p, "written")
    /\ \E new \in overwritten(p, IF fd[p] = "file" THEN file[job[p].file]
                                 ELSE tmp[job[p].file]) : put(p, new)
    /\ UNCHANGED <<log, left, history>>

\* Mutant: a failed write does not keep the file from being renamed.
Bug_WriteFails(p) ==
    /\ pc[p] = "opened" /\ spend("troubles")
    /\ put(p, Empty("broken")) /\ goto(p, "written")
    /\ UNCHANGED <<log, history>>

\* No space: part of the bytes are written.
WriteFails(p) ==
    /\ pc[p] = "opened" /\ spend("troubles")
    /\ put(p, Empty("broken")) /\ stop(p)
    /\ UNCHANGED <<log, history>>

\* A program that has the temporary file open has the settings file open now.
Rename(p) ==
    LET f == job[p].file
        moved(q) == IF q = p \/ job[q].file # f THEN fd[q]
                    ELSE IF fd[q] = "tmp" THEN "file"
                    ELSE IF fd[q] = "file" THEN "lost" ELSE fd[q] IN
    /\ pc[p] = "written" /\ tmp[f].kind # "absent"
    /\ IF job[p].op = "config" THEN stop(p) ELSE goto(p, "renamed")
    /\ file' = [file EXCEPT ![f] = tmp[f]]
    /\ durable' = [durable EXCEPT ![f] =
                     @ \cup {tmp[f]} \cup IF f = Config THEN {Empty("broken")} ELSE {}]
    /\ tmp' = [tmp EXCEPT ![f] = Empty("absent")]
    /\ fd' = [q \in Process |-> moved(q)]
    /\ UNCHANGED <<log, left, history>>

\* Another program has renamed the temporary file away.
RenameFails(p) ==
    /\ pc[p] = "written" /\ tmp[job[p].file].kind = "absent"
    /\ stop(p)
    /\ UNCHANGED <<file, durable, tmp, log, fd, left, history>>

\* The directory is synced; a failure of that is only logged.
saved(p) == goto(p, IF job[p].op = "setup" THEN "config" ELSE "append")
SyncDir(p) ==
    /\ pc[p] = "renamed" /\ saved(p)
    /\ durable' = [durable EXCEPT ![job[p].file] = {file[job[p].file]}]
    /\ UNCHANGED <<file, tmp, log, fd, left, history>>
SyncFails(p) ==
    /\ pc[p] = "renamed" /\ spend("troubles") /\ saved(p)
    /\ UNCHANGED <<file, durable, tmp, log, fd, history>>

-----------------------------------------------------------------------------
(* The audit line that ends an addition or an undo.                        *)

AppendAdded ==
    /\ pc[Daemon] = "append" /\ stop(Daemon)
    /\ append_audit_entry("added", job[Daemon])
    /\ unlogged' = IF Glued THEN unlogged \cup {job[Daemon].pattern} ELSE unlogged
    /\ UNCHANGED <<file, durable, tmp, fd, left, spoiled, byHand>>

\* An undo of what another undo undoes too may cancel another addition.
AppendUndone(c) ==
    LET j == job[c]
        once == \A d \in Cli \ {c} : job[d].op = "undo" => key(job[d]) # key(j) IN
    /\ pc[c] = "append" /\ stop(c)
    /\ append_audit_entry("undone", j)
    /\ unlogged' = IF once THEN unlogged ELSE unlogged \cup {j.pattern}
    /\ UNCHANGED <<file, durable, tmp, fd, left, spoiled, byHand>>

\* No space: nothing or part of the line is written.
AppendFails(p) ==
    LET j == job[p] IN
    /\ pc[p] = "append" /\ spend("troubles") /\ stop(p)
    /\ \/ log' = log
       \/ log' = IF Glued THEN log ELSE Append(log, Row("fragment", j))
    /\ unlogged' = IF p = Daemon THEN unlogged \cup {j.pattern} ELSE unlogged
    /\ UNCHANGED <<file, durable, tmp, fd, spoiled, byHand>>

-----------------------------------------------------------------------------
(* The world around.                                                       *)

\* A process is killed, or one of its system calls fails without effect.
Dies(p) ==
    /\ pc[p] # "idle" /\ spend("troubles") /\ stop(p)
    /\ fd' = [fd EXCEPT ![p] = "none"]
    /\ unlogged' = IF job[p].op = "add" /\ pc[p] \in {"renamed", "append"}
                   THEN unlogged \cup {job[p].pattern} ELSE unlogged
    /\ UNCHANGED <<file, durable, tmp, log, spoiled, byHand>>

\* The log is not synced: a power loss may cut it anywhere.
PowerLoss ==
    /\ spend("troubles")
    /\ job' = [p \in Process |-> NoJob] /\ pc' = [p \in Process |-> "idle"]
    /\ fd' = [p \in Process |-> "none"]
    /\ \E f \in File : \E c \in durable[f] :
         /\ file' = [file EXCEPT ![f] = c]
         /\ spoil(f, "unsynced", f = Config /\ c.kind = "broken")
    /\ durable' = [f \in File |-> {file'[f]}]
    /\ \E n \in 0..Len(log) : log' = SubSeq(log, 1, n)
    /\ unlogged' = unlogged
         \cup {log[i].pattern : i \in DOMAIN log \ DOMAIN log'}
         \cup {job[p].pattern : p \in {q \in Process : pc[q] # "idle"}}
         \cup UNION {file'[f].allow \ file[f].allow : f \in File}
    /\ UNCHANGED <<tmp, byHand>>

\* The user or Claude Code replaces a file, here by one that differs in a
\* pattern, in a hook or in its kind.
toggle(S, x) == IF x \in S THEN S \ {x} ELSE S \cup {x}
Revised(f, c) ==
    {Empty(kind) : kind \in Kind}
      \cup {Object(toggle(c.allow, p), c.hooks) : p \in IF f = Config THEN {} ELSE Pattern}
      \cup {Object(c.allow, toggle(c.hooks, h)) : h \in IF f = User THEN HookEvent ELSE {}}
UserEdits(f) ==
    /\ spend("troubles")
    /\ \E new \in Revised(f, file[f]) \ {file[f]} :
         /\ file' = [file EXCEPT ![f] = new]
         /\ durable' = [durable EXCEPT ![f] = {new}]
         /\ byHand' = [byHand EXCEPT ![f] = @ \cup (new.allow \ file[f].allow)]
         /\ spoiled' = [spoiled EXCEPT ![f] =
                @ \cup (IF new.kind = "broken" THEN {"user"} ELSE {})
                  \cup (IF \E p \in Process : Saving(p, f) THEN {"edited"} ELSE {})]
    /\ UNCHANGED <<tmp, log, pc, job, fd, unlogged>>

\* What an earlier run of the daemon has added.
Logged(f) == {log[i].pattern : i \in {k \in DOMAIN log : log[k].target = f}}

Init ==
    /\ log \in LegacyLog
    /\ file = [f \in File |-> IF Logged(f) = {} THEN Empty("absent") ELSE Object(Logged(f), {})]
    /\ durable = [f \in File |-> {file[f]}]
    /\ tmp = [f \in File |-> Empty("absent")]
    /\ job = [p \in Process |-> NoJob] /\ pc = [p \in Process |-> "idle"]
    /\ fd = [p \in Process |-> "none"]
    /\ left = [b \in Bound |->
                 CASE b = "always" -> MaxAlways [] b = "commands" -> MaxCommands
                   [] OTHER -> MaxTroubles]
    /\ spoiled = [f \in File |-> {}] /\ byHand = [f \in File |-> {}]
    /\ unlogged = {}

Save(p) ==
    \/ OpenTmp(p) \/ WriteTmp(p) \/ WriteFails(p) \/ Rename(p) \/ RenameFails(p)
    \/ SyncDir(p) \/ SyncFails(p) \/ AppendFails(p) \/ Dies(p)
Command(c) ==
    \/ Undo(c) \/ UndoRefuses(c) \/ UndoFindsNothing(c) \/ UndoLoads(c) \/ AppendUndone(c)
    \/ Setup(c) \/ SetupHasHooks(c) \/ WriteConfig(c) \/ KeepConfig(c)
Next ==
    \/ \E r \in Root, p \in Pattern, id \in Id \ {0} : Always(r, p, id)
    \/ AppendAdded
    \/ \E c \in Cli : Command(c)
    \/ \E p \in Process : Save(p)
    \/ PowerLoss
    \/ \E f \in File : UserEdits(f)

Spec == Init /\ [][Next]_vars

-----------------------------------------------------------------------------
(* Safety.                                                                 *)

\* Whatever fails, dies or loses power while a file is saved, the file holds
\* JSON: the old content or the new (the durability guarantee of
\* save_settings), unless the user broke it or two programs saved it at once.
NoPartialSettings ==
    \A f \in File : spoiled[f] \subseteq {"edited"} => file[f].kind # "broken"

Undone(i, n) == {j \in i..n : log[j].op = "undone" /\ key(log[j]) = key(log[i])}
Added(i, n)  == {j \in i..n : log[j].op = "added" /\ key(log[j]) = key(log[i])}
\* An addition no later undo stands for: undos cancel the youngest first.
Live(i) ==
    /\ log[i].op = "added"
    /\ \A n \in i..Len(log) : Cardinality(Undone(i, n)) < Cardinality(Added(i, n))
Refused(i) == Live(i) /\ log[i].target # "unknown" /\ ~validate_audit_root(log[i].target)

\* Undos, one after the other, come to an addition of p to r: it is live, and
\* no row that an undo meets before has a root it refuses.
UndosReach(r, p) ==
    \E i \in DOMAIN log :
      /\ Live(i) /\ log[i].pattern = p /\ log[i].target = r
      /\ \A j \in i..Len(log) : ~Refused(j)

\* The patterns of r that an Always has written and logged, and that are not
\* the user's own.
AddedByAlways(r) ==
    IF spoiled[r] # {} THEN {}
    ELSE {p \in file[r].allow \ (byHand[r] \cup unlogged) :
            ~(job[Daemon].file = r /\ job[Daemon].pattern = p /\ pc[Daemon] \in {"renamed", "append"})}

\* What an Always has added can be undone, unless an addition that is not undone
\* has a root that undo refuses: that one stops every undo before it.
AdditionsAreUndoable ==
    (\A i \in DOMAIN log : ~Refused(i)) =>
      \A r \in Root : \A p \in AddedByAlways(r) : UndosReach(r, p)

\* The reverse walk with its counters finds the last addition that undos,
\* each standing for the youngest addition before it, have left.
FindIsLastLive ==
    LET S == {i \in DOMAIN log : Live(i) /\ log[i].target # "unknown"} IN
    find_last_undone_addition = IF S = {} THEN <<>> ELSE <<log[Max(S)]>>

\* A save changes what it was made for and nothing else: what others wrote
\* before it is still there, unless they wrote between load and rename.
Keeps(p) ==
    LET j == job[p]  old == file[j.file]  new == file'[j.file] IN
    /\ j.op = "add"   => new = Object(old.allow \cup {j.pattern}, old.hooks)
    /\ j.op = "undo"  => new = Object(old.allow \ {j.pattern}, old.hooks)
    /\ j.op = "setup" => new = Object(old.allow, HookEvent)
    /\ j.op = "config" => old.kind = "absent"
SavesKeepTheRest ==
    [][\A p \in Process :
         pc[p] = "written" /\ Rename(p) /\ spoiled[job[p].file] = {} => Keeps(p)]_vars
=============================================================================
