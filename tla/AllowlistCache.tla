--------------------------- MODULE AllowlistCache ---------------------------
(***************************************************************************)
(* The allow and deny lists the daemon answers tool calls with: the user's *)
(* settings file, loaded at the start, and the two files of each project,  *)
(* loaded when a call comes from there and kept in an LRU cache            *)
(* (permission/cache.rs, project.rs); a watcher task per file reloads it   *)
(* when it changes (permission/mod.rs).  A click on Always writes an entry *)
(* that the watcher is to bring back (state/mod.rs).                       *)
(*                                                                         *)
(* The aggregator is one task: a lookup or an Always is one step.  How an  *)
(* Always writes its file, call by call, is the subject of SettingsFiles.  *)
(***************************************************************************)
EXTENDS Patterns

CONSTANTS
    Dir,           \* absolute directories
    Home,          \* $HOME
    Up,            \* Up[d]: d, its parent and so on to the root of the file system
    GitDir,        \* directories with a .git
    ClaudeDir,     \* directories with a .claude when the daemon starts
    Token,         \* what texts are sequences of
    Call,          \* tool calls
    Entries,       \* what the user may write: [allow, deny], sequences of texts
    LRU_CAPACITY,
    MaxEdits,      \* bound: changes by the user or Claude Code
    MaxAlways,     \* bound: clicks on Always
    MaxEvictions   \* bound: evicted entries

ASSUME DirsAssumption ==
    /\ Home \in Dir /\ GitDir \subseteq Dir /\ Home \in ClaudeDir /\ ClaudeDir \subseteq Dir
    /\ Up \in [Dir -> Seq(Dir)] /\ \A d \in Dir : Up[d] # <<>> /\ Up[d][1] = d
ASSUME TextAssumption ==
    /\ {"(", ")"} \subseteq Token /\ "-" \notin Token
    /\ Call \subseteq [tool : Seq(Token) \ {<<>>}, field : STRING \ {"nothing"}, value : Seq(Token),
                       mode : PermissionMode]
    /\ Entries \subseteq [allow : Seq(Seq(Token)), deny : Seq(Seq(Token))]
ASSUME CapacityAssumption == LRU_CAPACITY \in Nat \ {0}
ASSUME BoundsAssumption == {MaxEdits, MaxAlways, MaxEvictions} \subseteq Nat

NoRoot == "none"
ASSUME NoRootAssumption == NoRoot \notin Dir

VARIABLES
    claude,    \* directories that have a .claude
    disk,      \* the settings files
    lru,       \* cached project roots, the latest first
    lists,     \* the parsed lists the daemon holds of a file
    watcher,   \* the task that watches a file
    notified,  \* files whose watcher has a change to handle
    asked,     \* the call that is held for the user, if any
    left,      \* what remains of the bounds
    seen,      \* history: the lists of the last content of a file that parses
    missed,    \* history: files with a change since that no watcher handles
    clicked    \* history: cwd, root and call of every Always that is in its file

daemon  == <<lru, lists, watcher, notified, asked>>
history == <<seen, missed, clicked>>
vars == <<claude, disk, daemon, left, history>>

\* The user's own file is in Home, which is never a project.
User == <<"user", Home>>
File == {User} \cup ({"project"} \X (Dir \ {Home})) \cup ({"local"} \X Dir)
FilesOf(root) == {<<"project", root>>, <<"local", root>>}
dir(f) == f[2]

Absent == [kind |-> "absent", allow |-> <<>>, deny |-> <<>>]
Broken == [kind |-> "broken", allow |-> <<>>, deny |-> <<>>]
Content == {Absent, Broken} \cup
    [kind : {"json"}, allow : Seq(Seq(Token)), deny : Seq(Seq(Token))]
Json(allow, deny) == [kind |-> "json", allow |-> allow, deny |-> deny]

TypeOK ==
    /\ claude \subseteq Dir /\ disk \in [File -> Content]
    /\ lru \in Seq(Dir) /\ DOMAIN lists = File /\ DOMAIN seen = File
    /\ watcher \in [File -> {"starting", "watching", "deaf"}]
    /\ notified \subseteq File /\ missed \subseteq File
    /\ asked \in {<<>>} \cup (Dir \X Call)
    /\ left \in [edits : Nat, always : Nat, evictions : Nat]
    /\ clicked \subseteq [cwd : Dir, root : Dir, call : Call]

readable(c) == c.kind # "broken"
from_settings_json(c) ==
    [allow |-> parse_pattern_array(c.allow), deny |-> parse_pattern_array(c.deny)]
empty == [allow |-> <<>>, deny |-> <<>>]

\* Allowlist::from_path where a failure gives an empty list.
load(c) == IF readable(c) THEN from_settings_json(c) ELSE empty

\* The daemon answers with what it holds of these.
Cached(root) == \E i \in DOMAIN lru : lru[i] = root
Tracked(f) == f = User \/ Cached(dir(f))

-----------------------------------------------------------------------------
(* Project roots.                                                          *)

\* find_project_root_with_home: the nearest directory at or above cwd with a
\* .claude or a .git, below Home.
Stop(d) == d \in claude \cup GitDir \cup {Home}
FirstStop(cwd) ==
    {i \in DOMAIN Up[cwd] : Stop(Up[cwd][i]) /\ \A j \in 1..i - 1 : ~Stop(Up[cwd][j])}
find_project_root(cwd) ==
    IF \E i \in FirstStop(cwd) : Up[cwd][i] # Home
    THEN Up[cwd][CHOOSE i \in FirstStop(cwd) : TRUE] ELSE NoRoot

resolve_write_target(cwd) ==
    IF find_project_root(cwd) = NoRoot THEN cwd ELSE find_project_root(cwd)

-----------------------------------------------------------------------------
(* Lookups.                                                                *)

\* What a lookup answers with; a root that is not cached is loaded first.
held(f) == IF Tracked(f) THEN lists[f] ELSE load(disk[f])
cascade_for(cwd) ==
    LET root == find_project_root(cwd) IN
    IF root = NoRoot THEN lists[User]
    ELSE cascade(held(<<"local", root>>), held(<<"project", root>>), lists[User])

\* A PreToolUse hook: a call without a confident answer is held for the user.
\* Bound: one call, and none that MaxAlways leaves no Always for.
Asks(cwd, call) ==
    asked' = IF asked = <<>> /\ left.always > 0
                /\ evaluate(call, cascade_for(cwd)).is \in {"AskAnnotated", "Intercept"}
             THEN <<cwd, call>> ELSE asked

NoProject(cwd, call) ==
    /\ find_project_root(cwd) = NoRoot /\ Asks(cwd, call)
    /\ UNCHANGED <<claude, disk, lru, lists, watcher, notified, left, history>>

\* LruCache::get: the root comes first.
Hit(cwd, root, call) ==
    /\ find_project_root(cwd) = root /\ Asks(cwd, call)
    /\ \E i \in DOMAIN lru :
         /\ lru[i] = root
         /\ lru' = [j \in DOMAIN lru |-> IF j = 1 THEN root
                                         ELSE IF j <= i THEN lru[j - 1] ELSE lru[j]]
    /\ UNCHANGED <<claude, disk, lists, watcher, notified, left, history>>

\* Both files are loaded and their watchers spawned.  LruCache::put returns
\* what it replaces, not what it evicts: no watcher is aborted, those of the
\* evicted entry watch on for lists that nobody reads.
evicted == IF Len(lru) = LRU_CAPACITY THEN FilesOf(Last(lru)) ELSE {}

Of(f, root, loaded, old) == IF f \in FilesOf(root) THEN loaded ELSE old
Miss(cwd, root, call) ==
    /\ find_project_root(cwd) = root /\ ~Cached(root) /\ Asks(cwd, call)
    /\ evicted # {} => left.evictions > 0
    /\ left' = [left EXCEPT !.evictions = IF evicted = {} THEN @ ELSE @ - 1]
    /\ lru' = <<root>> \o (IF evicted = {} THEN lru ELSE Front(lru))
    /\ lists'   = [f \in File |-> Of(f, root, load(disk[f]), lists[f])]
    /\ watcher' = [f \in File |-> Of(f, root, "starting", watcher[f])]
    /\ notified' = notified \ FilesOf(root)
    /\ seen'    = [f \in File |-> Of(f, root, load(disk[f]), seen[f])]
    /\ missed'  = (missed \ FilesOf(root)) \cup {f \in FilesOf(root) : ~readable(disk[f])}
    /\ UNCHANGED <<claude, disk, clicked>>

-----------------------------------------------------------------------------
(* Watchers (run_settings_watcher).                                        *)

\* The directory of the file is watched; without one the task ends.
WatcherStarts(f) ==
    /\ Tracked(f) /\ watcher[f] = "starting"
    /\ watcher' = [watcher EXCEPT ![f] = IF dir(f) \in claude THEN "watching" ELSE "deaf"]
    /\ UNCHANGED <<claude, disk, lru, lists, notified, asked, left, history>>

\* Mutant: a file that does not parse empties the lists.
Bug_Reload(f) ==
    /\ Tracked(f) /\ f \in notified
    /\ notified' = notified \ {f}
    /\ lists' = [lists EXCEPT ![f] = load(disk[f])]
    /\ missed' = IF readable(disk[f]) THEN missed \ {f} ELSE missed
    /\ UNCHANGED <<claude, disk, lru, watcher, asked, left, seen, clicked>>

\* A file that does not parse leaves the lists as they are.
Reload(f) ==
    /\ Tracked(f) /\ f \in notified
    /\ notified' = notified \ {f}
    /\ lists' = IF readable(disk[f])
                THEN [lists EXCEPT ![f] = from_settings_json(disk[f])] ELSE lists
    /\ missed' = IF readable(disk[f]) THEN missed \ {f} ELSE missed
    /\ UNCHANGED <<claude, disk, lru, watcher, asked, left, seen, clicked>>

\* f becomes c.  A file created, written or moved in place is an event the
\* watcher acts on, one that is unlinked is not.  A change is missed if no
\* watcher hears of it, or if it no longer parses when the watcher reads it.
Becomes(f, c, event) ==
    LET heard == watcher[f] = "watching" /\ event # "remove" IN
    /\ disk' = [disk EXCEPT ![f] = c]
    /\ notified' = IF heard THEN notified \cup {f} ELSE notified
    /\ seen' = IF readable(c) THEN [seen EXCEPT ![f] = from_settings_json(c)] ELSE seen
    /\ missed' = IF readable(c) THEN (IF heard THEN missed \ {f} ELSE missed \cup {f})
                 ELSE IF f \in notified /\ readable(disk[f]) THEN missed \cup {f}
                 ELSE missed

-----------------------------------------------------------------------------
(* The world around: the user and Claude Code.                             *)

spend(b) == left[b] > 0 /\ left' = [left EXCEPT ![b] = @ - 1]

Edit(f) ==
    /\ spend("edits")
    /\ \E c \in {Json(e.allow, e.deny) : e \in Entries} \cup {Absent, Broken} :
         /\ c # disk[f] /\ Becomes(f, c, "modify")
    /\ claude' = claude \cup {dir(f)}
    /\ UNCHANGED <<lru, lists, watcher, asked, clicked>>

Unlink(f) ==
    /\ spend("edits")
    /\ disk[f].kind # "absent" /\ Becomes(f, Absent, "remove")
    /\ UNCHANGED <<claude, lru, lists, watcher, asked, clicked>>

\* The kernel ends the watch of a directory that is removed.
RemoveDir(d) ==
    LET gone == {f \in File : dir(f) = d}
        lost == {f \in gone : disk[f].kind # "absent"} IN
    /\ spend("edits")
    /\ d \in claude /\ claude' = claude \ {d}
    /\ disk' = [f \in File |-> IF f \in gone THEN Absent ELSE disk[f]]
    /\ seen' = [f \in File |-> IF f \in lost THEN load(Absent) ELSE seen[f]]
    /\ missed' = missed \cup lost
    /\ watcher' = [f \in File |-> IF f \in gone /\ watcher[f] = "watching"
                                  THEN "deaf" ELSE watcher[f]]
    /\ UNCHANGED <<lru, lists, notified, asked, clicked>>

-----------------------------------------------------------------------------
(* Always.                                                                 *)

Adds(c, raw) == Json(Append(c.allow, raw), c.deny)
Click(cwd, root, call) == [cwd |-> cwd, root |-> root, call |-> call]

\* handle_allowlist_always and write_allow_pattern: the entry goes to the
\* local file of the project, or of cwd itself.
Always ==
    LET cwd == asked[1]  call == asked[2]
        root == resolve_write_target(cwd)
        f == <<"local", root>>
        raw == derive_pattern(call)[1] IN
    /\ asked # <<>> /\ spend("always") /\ asked' = <<>>
    /\ derive_pattern(call) # <<>>
    /\ claude' = claude \cup {root}
    /\ IF readable(disk[f]) /\ raw \notin Range(disk[f].allow)
       THEN Becomes(f, Adds(disk[f], raw), "create")
       ELSE UNCHANGED <<disk, notified, seen, missed>>
    /\ clicked' = IF readable(disk[f]) THEN clicked \cup {Click(cwd, root, call)} ELSE clicked
    /\ UNCHANGED <<lru, lists, watcher>>

\* Only the tool alone would do, or the call is over before the click.
NoAlways ==
    /\ asked # <<>> /\ asked' = <<>>
    /\ UNCHANGED <<claude, disk, lru, lists, watcher, notified, left, history>>

Init ==
    /\ claude = ClaudeDir
    /\ \E c \in {Json(e.allow, e.deny) : e \in Entries} \cup {Absent, Broken} :
         disk = [f \in File |-> IF f = User THEN c ELSE Absent]
    /\ lru = <<>>
    /\ lists = [f \in File |-> IF f = User THEN load(disk[f]) ELSE empty]
    /\ watcher = [f \in File |-> IF f = User THEN "starting" ELSE "deaf"]
    /\ notified = {} /\ asked = <<>>
    /\ left = [edits |-> MaxEdits, always |-> MaxAlways, evictions |-> MaxEvictions]
    /\ seen = lists
    /\ missed = {f \in {User} : ~readable(disk[f])}
    /\ clicked = {}

Lookup == \E cwd \in Dir, call \in Call :
    NoProject(cwd, call) \/ \E root \in Dir : Hit(cwd, root, call) \/ Miss(cwd, root, call)
Watch(f) == WatcherStarts(f) \/ Reload(f)
World ==
    \/ \E f \in File : Edit(f) \/ Unlink(f)
    \/ \E d \in Dir : RemoveDir(d)
Next == Lookup \/ (\E f \in File : Watch(f)) \/ Always \/ NoAlways \/ World

Spec == Init /\ [][Next]_vars

-----------------------------------------------------------------------------
(* Safety.                                                                 *)

\* What the daemon holds of a file is its last content that parsed, unless a
\* watcher has a change to handle or none could hear of it (the promise of
\* run_settings_watcher: no list is lost to a file that is half written).
CachedIsFresh ==
    \A f \in File : Tracked(f) /\ f \notin missed \cup notified => lists[f] = seen[f]

\* The files an answer for cwd comes from, and whether nothing is on its way.
Sources(cwd) == {f \in File : f = User \/ dir(f) = find_project_root(cwd)}
Settled(cwd) == \A f \in Sources(cwd) :
    IF Tracked(f) THEN f \notin missed \cup notified ELSE readable(disk[f])
Now(f) == IF Tracked(f) THEN seen[f] ELSE load(disk[f])

\* The answer does not depend on the order of files and entries, but for which
\* entry is named: a permissive mode allows, a confident deny in any file
\* denies, then doubt asks, then a confident allow allows.
Reference(call, denied, allowed) ==
    IF call.mode \in PermissiveMode THEN "Allow"
    ELSE IF "Confident" \in denied THEN "Deny"
    ELSE IF "Ambiguous" \in denied THEN "AskAnnotated"
    ELSE IF "Confident" \in allowed THEN "Allow"
    ELSE IF "Ambiguous" \in allowed THEN "AskAnnotated"
    ELSE "Intercept"
Said(cwd, side) == UNION {Range(Now(f)[side]) : f \in Sources(cwd)}
Results(entries, call) == {matches(p, call) : p \in entries}
AnswersFollowTheFiles ==
    \A cwd \in Dir : Settled(cwd) =>
      LET list == cascade_for(cwd)  deny == Said(cwd, "deny")  allow == Said(cwd, "allow") IN
      \A call \in Call :
        evaluate(call, list).is = Reference(call, Results(deny, call), Results(allow, call))

\* A call whose entry reads back as this call and nothing else: the tool is a
\* name, and the argument has no blanks at its ends, no signs of a glob if it is
\* a path, and is no prefix pattern if it is a command.
Plain(call) ==
    /\ \A c \in {" ", "(", "*"} : At(call.tool, c) = {}
    /\ \/ Head(call.tool) = "mcp__"
       \/ /\ trim(call.value) = call.value
          /\ call.tool \in FILE_PATH_TOOLS => \A c \in GlobSign : At(call.value, c) = {}
          /\ call.tool = <<"Bash">> => ~IsSuffix(<<":", "*">>, call.value)

\* After an Always on a call it is not asked for again: as long as the entry
\* is in the file, the call is allowed unless an entry of a deny list speaks.
AlwaysIsHonoured ==
    \A k \in clicked :
      LET f == <<"local", k.root>> IN
      find_project_root(k.cwd) = k.root /\ Settled(k.cwd) /\ Plain(k.call)
        /\ derive_pattern(k.call)[1] \in Range(disk[f].allow)
      => \/ evaluate(k.call, cascade_for(k.cwd)).is = "Allow"
         \/ Results(Said(k.cwd, "deny"), k.call) \ {"NoMatch"} # {}

\* An Always on plain calls allows these operations and no other.
Same(c, d) == c.tool = d.tool /\ (Head(c.tool) = "mcp__" \/ c.value = d.value)
AlwaysIsLiteral ==
    \A f \in File : \A p \in Range(lists[f].allow) :
      LET from == {k \in clicked : derive_pattern(k.call) = <<p.raw>>} IN
      from # {} /\ (\A k \in from : Plain(k.call)) =>
        \A call \in Call :
          matches(p, call) = "Confident" => \E k \in from : Same(k.call, call)

\* Once nothing is on its way, a call on which the user clicked Always is not
\* asked for again ("Settings watcher will reload for future calls",
\* state/mod.rs).
AlwaysReachesFutureCalls ==
    \A k \in clicked :
      /\ notified = {} /\ \A f \in File : Tracked(f) => watcher[f] # "starting"
      /\ k.root # Home /\ Plain(k.call)
      /\ derive_pattern(k.call)[1] \in Range(disk[<<"local", k.root>>].allow)
      => evaluate(k.call, cascade_for(k.cwd)).is # "Intercept"
=============================================================================
