---------------------------- MODULE TokenTracker ----------------------------
(***************************************************************************)
(* Output tokens from the transcripts to the display and the disk: the     *)
(* JSONL watcher (ingest/jsonl/watcher.rs and offsets.rs), the start-up     *)
(* and midnight rollover (reset.rs, midnight.rs), tokens.json (tokens.rs)   *)
(* and the aggregator's totals (state/mod.rs).                             *)
(*                                                                         *)
(* A transcript is the number of pieces written to it.  Two pieces make a  *)
(* line, which reports one token; a write may end between them.  A date is *)
(* a number, 0 the empty string.  Saving writes tokens.json.tmp and        *)
(* renames it; the watcher and the midnight task share that name and run   *)
(* on different threads, so write and rename are steps of their own.       *)
(***************************************************************************)
EXTENDS Integers, Sequences, FiniteSetsExt

CONSTANTS
    File,             \* transcripts
    QueueCap,         \* capacity of the aggregator's channel
    MaxDay,           \* bound: days
    MaxPieces,        \* bound: pieces written
    MaxReplacements,  \* bound: transcripts replaced
    MaxFaults,        \* bound: failing writes, opens, reads and scans
    MaxStops          \* bound: ends of the daemon

ASSUME FilesAreFinite == IsFiniteSet(File)
ASSUME QueueCapAssumption == QueueCap \in Nat \ {0}
ASSUME MaxDayAssumption == MaxDay \in Nat \ {0}
ASSUME BoundsAssumption ==
    {MaxPieces, MaxReplacements, MaxFaults, MaxStops} \subseteq Nat

VARIABLES
    day,        \* the local date
    size, kept, \* per transcript: pieces; has it the inode seen last
    offset,     \* FileOffsets: pieces read
    notified,   \* transcripts with a file event not yet taken
    pc, at,     \* what the watcher does, and in which transcript
    memory,     \* its cumulative, today, current_date and tokens_dirty
    disk, tmp,  \* tokens.json and tokens.json.tmp
    midnight,   \* the midnight task: what it does, and what it has loaded
    updates,    \* spawned tasks yet to send a TokensUpdate
    resets,     \* and those yet to send a DailyReset
    queue,      \* the aggregator's channel
    agg,        \* the aggregator's tokens
    left,       \* what remains of the bounds
    counted,    \* history: lines counted on each date
    expected,   \* history: the total if no unbroken line is missed
    rolled,     \* history: did a date roll over since the daemon started
    overlooked  \* history: transcripts written when nobody watched, or whose last scan, open
                \* or drain failed

transcripts == <<size, kept>>
watcher     == <<pc, at, memory, offset>>
files       == <<disk, tmp>>
spawned     == <<updates, resets>>
history     == <<counted, expected, rolled, overlooked>>
vars == <<day, transcripts, notified, watcher, files, midnight, spawned, queue, agg,
          left, history>>

Date == 1..MaxDay
PersistedTokens ==
    [date : 0..MaxDay, today : Nat, cumulative : Nat, by : {"nobody", "start", "watcher", "midnight"}]
Default == [date |-> 0, today |-> 0, cumulative |-> 0, by |-> "nobody"]
NoMemory == [cumulative |-> 0, today |-> 0, current_date |-> 1, dirty |-> FALSE]
NoFile == [date |-> 0, today |-> 0, cumulative |-> 0, by |-> "none"]

Message ==
    [type : {"TokensUpdate"}]
      \cup [type : {"DailyReset"}, date : Date]
      \cup [type : {"SetInitialTokens"}, cumulative : Nat, today : Nat, date : Date]

AtWork   == {"idle", "drain", "rolling", "count", "saving"}
Draining == {"drain", "rolling", "count"}

\* The watcher has told the aggregator where it begins.
Up == pc \notin {"down", "started"}

send(m) == Len(queue) < QueueCap /\ queue' = Append(queue, m)

\* The environment uses up one of its bounds.
Bound == {"pieces", "replacements", "faults", "stops"}
spend(b) == left[b] > 0 /\ left' = [left EXCEPT ![b] = @ - 1]
Fault == spend("faults")

-----------------------------------------------------------------------------
(* The environment: time passes and Claude Code writes transcripts. *)

DayBreaks ==
    /\ day < MaxDay
    /\ day' = day + 1
    /\ UNCHANGED <<transcripts, notified, watcher, files, midnight, spawned, queue, agg, left,
                   history>>

\* Whole lines between two positions.
whole(from, to) ==
    LET first == (from + 1) \div 2
        last  == to \div 2
    IN  IF last > first THEN last - first ELSE 0

\* Where the next drain begins: a new inode is read from its beginning.
position(f) == IF kept[f] THEN offset[f] ELSE 0

unread(f) == whole(position(f), size[f])

\* A file event: taken later by the watcher, missed when it does not watch.
Touched(f) ==
    IF pc \in AtWork
      THEN notified' = notified \cup {f} /\ overlooked' = overlooked \ {f}
      ELSE UNCHANGED notified /\ overlooked' = overlooked \cup {f}

\* The next piece; one that ends a line makes it due unless its first half was read.
Write(f) ==
    /\ spend("pieces")
    /\ size' = [size EXCEPT ![f] = @ + 1]
    /\ Touched(f)
    /\ UNCHANGED <<day, kept, watcher, files, midnight, spawned, queue, agg, counted, rolled>>
    /\ expected' = IF Up THEN expected + unread(f)' - unread(f) ELSE expected

\* tmp + rename by another program.  A drain goes on with the old file it has open, as if
\* the replacement came after it.
Replace(f) ==
    /\ spend("replacements")
    /\ ~(pc \in Draining /\ at = f)
    /\ \E n \in 0..size[f] : size' = [size EXCEPT ![f] = n]
    /\ kept' = [kept EXCEPT ![f] = FALSE]
    /\ Touched(f)
    /\ UNCHANGED <<day, watcher, files, midnight, spawned, queue, agg, counted, rolled>>
    /\ expected' = IF Up THEN expected + unread(f)' - unread(f) ELSE expected

-----------------------------------------------------------------------------
(* Saving. *)

write(tokens) == tmp' = tokens

\* rename fails when the other task has taken the file away.
rename == tmp # NoFile /\ disk' = tmp /\ tmp' = NoFile
renameFails == tmp = NoFile /\ UNCHANGED files

\* Mutant: the date of the save, not that of the counter.
Bug_snapshot_now ==
    [date |-> day, today |-> memory.today,
     cumulative |-> memory.cumulative, by |-> "watcher"]

snapshot ==
    [date |-> memory.current_date, today |-> memory.today,
     cumulative |-> memory.cumulative, by |-> "watcher"]

stale(tokens) == tokens.date \notin {0, day}

\* Mutant: the rollover starts from an empty record.
Bug_catch_up_default(tokens, who) ==
    [date |-> day, today |-> 0, cumulative |-> 0, by |-> who]

\* catch_up_to_local_date, when the date is stale.
catch_up(tokens, who) ==
    [date |-> day, today |-> 0, cumulative |-> tokens.cumulative, by |-> who]

-----------------------------------------------------------------------------
(* The daemon starts and stops. *)

\* The first run has no date: it takes today's.
adopt(tokens) ==
    [date |-> IF tokens.date = 0 THEN day ELSE tokens.date,
     today |-> tokens.today, cumulative |-> tokens.cumulative, by |-> tokens.by]

remember(tokens) ==
    memory' = [cumulative |-> tokens.cumulative, today |-> tokens.today,
               current_date |-> tokens.date, dirty |-> FALSE]

Start ==
    /\ pc = "down"
    /\ pc' = "started"
    /\ midnight' = [midnight EXCEPT !.pc = "asleep"]
    /\ \/ /\ ~stale(disk)
          /\ remember(adopt(disk))
          /\ UNCHANGED <<files, queue, left>>
       \/ /\ stale(disk)
          /\ remember(catch_up(disk, "start"))
          /\ send([type |-> "DailyReset", date |-> day])
          /\ \/ disk' = catch_up(disk, "start") /\ tmp' = NoFile /\ UNCHANGED left
             \/ Fault /\ UNCHANGED files
    /\ UNCHANGED <<day, transcripts, notified, at, offset, spawned, agg, history>>

\* What the transcripts hold is taken as read, but for those that a failing stat or read_dir
\* leaves without an entry: they will be read from their beginning.
snapshot_existing ==
    \E failed \in SUBSET File :
        /\ IF failed = {} THEN UNCHANGED left ELSE Fault
        /\ offset' = size
        /\ kept' = [f \in File |-> f \notin failed]
        /\ overlooked' = overlooked \cup failed
        /\ expected' = memory.cumulative + MapThenSumSet(unread, File)'

\* Mutant: the aggregator is not told the totals of former runs.
Bug_SeedsNothing ==
    /\ pc = "started"
    /\ pc' = "snapped"
    /\ size' = size
    /\ snapshot_existing
    /\ UNCHANGED <<day, notified, at, memory, files, midnight, spawned, queue, agg,
                   counted, rolled>>

\* The totals go to the aggregator, and the transcripts are scanned.
SnapshotExisting ==
    /\ pc = "started"
    /\ pc' = "snapped"
    /\ send([type |-> "SetInitialTokens", cumulative |-> memory.cumulative,
             today |-> memory.today, date |-> memory.current_date])
    /\ size' = size
    /\ snapshot_existing
    /\ UNCHANGED <<day, notified, at, memory, files, midnight, spawned, agg, counted, rolled>>

Watch ==
    /\ pc = "snapped"
    /\ pc' = "idle"
    /\ UNCHANGED <<day, transcripts, notified, at, memory, offset, files, midnight,
                   spawned, queue, agg, left, history>>

\* The daemon ends or is killed at any point.  Only the files remain.
Stop ==
    /\ pc # "down" /\ spend("stops")
    /\ pc' = "down"
    /\ midnight' = [pc |-> "down", copy |-> Default]
    /\ notified' = {} /\ updates' = 0 /\ resets' = {} /\ queue' = <<>>
    /\ agg' = [cumulative |-> 0, today |-> 0, date |-> 0]
    /\ memory' = NoMemory /\ offset' = [f \in File |-> 0]
    /\ expected' = 0 /\ rolled' = FALSE /\ overlooked' = {}
    /\ UNCHANGED <<day, transcripts, at, files, counted>>

-----------------------------------------------------------------------------
(* The watcher drains a transcript. *)

\* Mutant: the offset is kept when the file was replaced.
Bug_OpenIgnoresInode(f) ==
    /\ pc = "idle" /\ f \in notified
    /\ notified' = notified \ {f}
    /\ pc' = "drain" /\ at' = f
    /\ kept' = [kept EXCEPT ![f] = TRUE]
    /\ overlooked' = overlooked \ {f}
    /\ UNCHANGED <<day, size, memory, offset, files, midnight, spawned, queue, agg, left,
                   counted, expected, rolled>>

\* An event is taken and the file opened.
handle_event(f) ==
    /\ pc = "idle" /\ f \in notified
    /\ notified' = notified \ {f}
    /\ pc' = "drain" /\ at' = f
    /\ offset' = [offset EXCEPT ![f] = position(f)]
    /\ kept' = [kept EXCEPT ![f] = TRUE]
    /\ overlooked' = overlooked \ {f}
    /\ UNCHANGED <<day, size, memory, files, midnight, spawned, queue, agg, left, counted,
                   expected, rolled>>

\* The file cannot be opened, or its inode not be looked up: the event is spent.
OpenFails(f) ==
    /\ pc = "idle" /\ f \in notified
    /\ Fault
    /\ notified' = notified \ {f}
    /\ overlooked' = overlooked \cup {f}
    /\ UNCHANGED <<day, transcripts, watcher, files, midnight, spawned, queue, agg,
                   counted, expected, rolled>>

Remaining == size[at] - offset[at]
WholeLine == offset[at] % 2 = 0 /\ Remaining >= 2

EndOfFile ==
    /\ pc = "drain" /\ Remaining <= 0
    /\ pc' = "idle"
    /\ UNCHANGED <<day, transcripts, notified, at, memory, offset, files, midnight, spawned,
                   queue, agg, left, history>>

\* The seek fails, or the next line cannot be read; so it is with a line that is not UTF-8, or
\* not yet, its last character being half written.  The lines before it are counted and its
\* bytes are not, and the event is spent.
DrainFails ==
    /\ pc = "drain"
    /\ Fault
    /\ pc' = "idle"
    /\ overlooked' = overlooked \cup {at}
    /\ UNCHANGED <<day, transcripts, notified, at, memory, offset, files, midnight, spawned,
                   queue, agg, counted, expected, rolled>>

\* Mutant: a line that does not parse ends the drain.
Bug_FragmentEndsDrain ==
    /\ pc = "drain" /\ Remaining > 0 /\ ~WholeLine
    /\ pc' = "idle"
    /\ offset' = [offset EXCEPT ![at] = @ + 1]
    /\ UNCHANGED <<day, transcripts, notified, at, memory, files, midnight, spawned,
                   queue, agg, left, history>>

\* The first half at the end of the file, or the second alone: neither parses, and both
\* count as read.
SkipFragment ==
    /\ pc = "drain" /\ Remaining > 0 /\ ~WholeLine
    /\ offset' = [offset EXCEPT ![at] = @ + 1]
    /\ UNCHANGED <<day, transcripts, notified, pc, at, memory, files, midnight, spawned,
                   queue, agg, left, history>>

\* A line of another day than the counter's: today is zeroed, a task will tell the
\* aggregator, and the rollover is saved at once.
RollOver ==
    /\ pc = "drain" /\ WholeLine /\ memory.current_date # day
    /\ memory' = [memory EXCEPT !.current_date = day, !.today = 0, !.dirty = TRUE]
    /\ resets' = resets \cup {day}
    /\ rolled' = TRUE
    /\ UNCHANGED <<day, transcripts, notified, at, offset, disk, midnight, updates, queue,
                   agg, counted, expected, overlooked>>
    /\ \/ pc' = "rolling" /\ write(snapshot') /\ UNCHANGED left
       \/ pc' = "count" /\ Fault /\ UNCHANGED tmp

RolloverSaved ==
    /\ pc = "rolling"
    /\ pc' = "count"
    /\ rename \/ renameFails
    /\ UNCHANGED <<day, transcripts, notified, at, memory, offset, midnight, spawned,
                   queue, agg, left, history>>

CountLine ==
    /\ \/ pc = "drain" /\ WholeLine /\ memory.current_date = day
       \/ pc = "count"
    /\ pc' = "drain"
    /\ offset' = [offset EXCEPT ![at] = @ + 2]
    /\ memory' = [cumulative |-> memory.cumulative + 1, today |-> memory.today + 1,
                 current_date |-> memory.current_date, dirty |-> TRUE]
    /\ updates' = updates + 1
    /\ counted' = [counted EXCEPT ![memory.current_date] = @ + 1]
    /\ UNCHANGED <<day, transcripts, notified, at, files, midnight, resets, queue, agg,
                   left, expected, rolled, overlooked>>

\* Mutant: the flag is cleared before the save is known to succeed.
Bug_TickCleansFirst ==
    /\ pc = "idle" /\ memory.dirty
    /\ memory' = [memory EXCEPT !.dirty = FALSE]
    /\ \/ pc' = "saving" /\ write(snapshot) /\ UNCHANGED left
       \/ Fault /\ UNCHANGED <<pc, tmp>>
    /\ UNCHANGED <<day, transcripts, notified, at, offset, disk, midnight, spawned,
                   queue, agg, history>>

\* The persist tick, between drains.
PersistTick ==
    /\ pc = "idle" /\ memory.dirty
    /\ \/ pc' = "saving" /\ write(snapshot) /\ UNCHANGED left
       \/ Fault /\ UNCHANGED <<pc, tmp>>
    /\ UNCHANGED <<day, transcripts, notified, at, memory, offset, disk, midnight, spawned,
                   queue, agg, history>>

TickSaved ==
    /\ pc = "saving"
    /\ pc' = "idle"
    /\ \/ rename /\ memory' = [memory EXCEPT !.dirty = FALSE]
       \/ renameFails /\ UNCHANGED memory
    /\ UNCHANGED <<day, transcripts, notified, at, offset, midnight, spawned, queue, agg,
                   left, history>>

-----------------------------------------------------------------------------
(* The midnight task.  Its timer is cut to whole seconds and so may go off shortly before *)
(* midnight, where it finds nothing to do, or any time later.                             *)

MidnightLoads ==
    /\ midnight.pc = "asleep" /\ stale(disk)
    /\ midnight' = [pc |-> "loaded", copy |-> catch_up(disk, "midnight")]
    /\ rolled' = TRUE
    /\ UNCHANGED <<day, transcripts, notified, watcher, files, spawned, queue, agg, left,
                   counted, expected, overlooked>>

MidnightWrites ==
    /\ midnight.pc = "loaded"
    /\ \/ midnight' = [midnight EXCEPT !.pc = "saving"] /\ write(midnight.copy) /\ UNCHANGED left
       \/ midnight' = [midnight EXCEPT !.pc = "tell"] /\ Fault /\ UNCHANGED tmp
    /\ UNCHANGED <<day, transcripts, notified, watcher, disk, spawned, queue, agg, history>>

MidnightSaved ==
    /\ midnight.pc = "saving"
    /\ midnight' = [midnight EXCEPT !.pc = "tell"]
    /\ rename \/ renameFails
    /\ UNCHANGED <<day, transcripts, notified, watcher, spawned, queue, agg, left, history>>

MidnightTells ==
    /\ midnight.pc = "tell"
    /\ send([type |-> "DailyReset", date |-> midnight.copy.date])
    /\ midnight' = [pc |-> "asleep", copy |-> Default]
    /\ UNCHANGED <<day, transcripts, notified, watcher, files, spawned, agg, left, history>>

-----------------------------------------------------------------------------
(* The aggregator. *)

SendUpdate ==
    /\ updates > 0
    /\ send([type |-> "TokensUpdate"])
    /\ updates' = updates - 1
    /\ UNCHANGED <<day, transcripts, notified, watcher, files, midnight, resets, agg, left,
                   history>>

SendReset ==
    /\ \E d \in resets : send([type |-> "DailyReset", date |-> d]) /\ resets' = resets \ {d}
    /\ UNCHANGED <<day, transcripts, notified, watcher, files, midnight, updates, agg, left,
                   history>>

larger(m, n) == IF m > n THEN m ELSE n

receive(type) == queue # <<>> /\ Head(queue).type = type /\ queue' = Tail(queue)

TokensUpdate ==
    /\ receive("TokensUpdate")
    /\ agg' = [cumulative |-> agg.cumulative + 1, today |-> agg.today + 1, date |-> agg.date]
    /\ UNCHANGED <<day, transcripts, notified, watcher, files, midnight, spawned, left, history>>

SetInitialTokens ==
    /\ receive("SetInitialTokens")
    /\ agg' = [cumulative |-> larger(agg.cumulative, Head(queue).cumulative),
               today      |-> larger(agg.today, Head(queue).today),
               date       |-> IF agg.date = 0 THEN Head(queue).date ELSE agg.date]
    /\ UNCHANGED <<day, transcripts, notified, watcher, files, midnight, spawned, left, history>>

DailyReset ==
    /\ receive("DailyReset")
    /\ agg' = [cumulative |-> agg.cumulative, today |-> 0, date |-> Head(queue).date]
    /\ UNCHANGED <<day, transcripts, notified, watcher, files, midnight, spawned, left, history>>

-----------------------------------------------------------------------------
Init ==
    /\ day = 1
    /\ size = [f \in File |-> 0] /\ kept = [f \in File |-> TRUE]
    /\ offset = [f \in File |-> 0] /\ notified = {}
    /\ pc = "down" /\ at \in File
    /\ memory = NoMemory
    /\ disk = Default /\ tmp = NoFile
    /\ midnight = [pc |-> "down", copy |-> Default]
    /\ updates = 0 /\ resets = {} /\ queue = <<>>
    /\ agg = [cumulative |-> 0, today |-> 0, date |-> 0]
    /\ left = [b \in Bound |-> IF b = "pieces" THEN MaxPieces
                               ELSE IF b = "replacements" THEN MaxReplacements
                               ELSE IF b = "faults" THEN MaxFaults ELSE MaxStops]
    /\ counted = [d \in 0..MaxDay |-> 0] /\ expected = 0
    /\ rolled = FALSE /\ overlooked = {}

Environment == DayBreaks \/ \E f \in File : Write(f) \/ Replace(f)
Daemon == Start \/ SnapshotExisting \/ Watch \/ Stop
Watcher ==
    \/ \E f \in File : handle_event(f) \/ OpenFails(f)
    \/ EndOfFile \/ DrainFails \/ SkipFragment \/ RollOver \/ RolloverSaved \/ CountLine
    \/ PersistTick \/ TickSaved
Midnight == MidnightLoads \/ MidnightWrites \/ MidnightSaved \/ MidnightTells
Aggregator == SendUpdate \/ SendReset \/ TokensUpdate \/ SetInitialTokens \/ DailyReset

Next == Environment \/ Daemon \/ Watcher \/ Midnight \/ Aggregator

Spec == Init /\ [][Next]_vars

-----------------------------------------------------------------------------
(* Properties. *)

TypeOK ==
    /\ day \in Date
    /\ size \in [File -> Nat] /\ kept \in [File -> BOOLEAN]
    /\ offset \in [File -> Nat] /\ notified \subseteq File
    /\ pc \in AtWork \cup {"down", "started", "snapped"} /\ at \in File
    /\ memory \in [cumulative : Nat, today : Nat, current_date : Date, dirty : BOOLEAN]
    /\ disk \in PersistedTokens /\ tmp \in PersistedTokens \cup {NoFile}
    /\ midnight \in [pc : {"down", "asleep", "loaded", "saving", "tell"}, copy : PersistedTokens]
    /\ midnight.pc \in {"loaded", "saving", "tell"} => midnight.copy.date # 0
    /\ updates \in Nat /\ resets \subseteq Date
    /\ queue \in Seq(Message)
    /\ agg \in [cumulative : Nat, today : Nat, date : 0..MaxDay]
    /\ left \in [Bound -> Nat]
    /\ counted \in [0..MaxDay -> Nat] /\ expected \in Int
    /\ rolled \in BOOLEAN /\ overlooked \subseteq File

\* Each line written since the start is counted once, or will be when its file is drained;
\* only a line whose first half was read alone is missed (offsets.rs: drain_new_lines).
OnlySplitLinesAreMissed ==
    Up => memory.cumulative + MapThenSumSet(unread, File) = expected

\* Between drains a transcript with unread pieces has an event waiting, unless it was last
\* written before the watcher watched or its last scan, open or drain failed.
UnreadIsNoticed ==
    pc \in {"idle", "saving"} =>
        \A f \in File : (kept[f] /\ offset[f] = size[f]) \/ f \in notified \cup overlooked

\* When nothing is on its way the aggregator shows the watcher's total, the counts of
\* former runs included; also its count of today if no date rolled over since the start.
CountersAgree ==
    Up /\ queue = <<>> /\ updates = 0 /\ resets = {} =>
        /\ agg.cumulative = memory.cumulative
        /\ ~rolled => agg.today = memory.today /\ agg.date = memory.current_date

\* No count of today, in memory or in a file, contains a line of another date, whichever
\* of start, watcher and midnight task wrote it.
TodayIsOfItsDate ==
    /\ Up => memory.today <= counted[memory.current_date]
    /\ \A tokens \in {disk, midnight.copy, tmp} : tokens.today <= counted[tokens.date]

\* A watcher that is clean has its total on the disk, unless the midnight task has since
\* put back the one it loaded.
CleanIsSaved ==
    pc = "idle" /\ ~memory.dirty /\ disk.by # "midnight" => disk.cumulative = memory.cumulative

\* The persisted total falls only when the midnight task saves a copy that the watcher's
\* save has overtaken (tokens.rs calls it monotonically increasing).
TotalDropsOnlyAtMidnight ==
    [][disk'.cumulative < disk.cumulative => disk'.by = "midnight"]_vars
=============================================================================
