# ccbridge in TLA+

`ccbridged` sits between Claude Code and the places where a user can see and decide
permission prompts: desktop notifications, a control socket, BLE devices. Claude Code
runs the `ccbridge-hook` binary for each of its events; the binary hands the event to the
daemon over a Unix socket and, for a tool call that needs permission, waits for the
answer. This directory specifies the daemon in TLA+, checks it with TLC on small
instances and proves its main theorems with TLAPS.

## The system

Paths are relative to `src/crates/ccbridged/src/` unless they name another crate.

| component | state | operations | interacts with |
|---|---|---|---|
| **Aggregator** `state/mod.rs` | `sessions`, `pending` (approval per `tool_use_id`), `tokens`, `entries`, last heartbeat | one task that takes `AggregatorMsg`s from an `mpsc` channel of 256: hook events, decisions, Always, approval timeouts, token updates, daily resets, turn-done checks, snapshots | everything |
| **Hook ingest** `ingest/hooks.rs` | per connection: the oneshot receiver, the approval timer | forward the event, await the decision, report a timeout, write the answer | hook binary, aggregator |
| **Hook binary** `ccbridge-hook/src/main.rs` | none | read stdin, connect, wait at most 60 s, print the answer; any error is silent | Claude Code, hook ingest |
| **Permission** `permission/{mod,pattern,allowlist,project}.rs` | allow and deny lists | `evaluate`, `cascade`, matching, settings watcher | aggregator (synchronous calls) |
| **Allowlist cache** `permission/cache.rs` | LRU of project entries, each with two watcher tasks | `cascade_for` | permission, files |
| **Allowlist additions** `permission/additions/` | settings files, audit log | `write_allow_pattern` (daemon), `undo_last_allow` (CLI, another process) | aggregator, files |
| **Notification emitter** `emit/notify.rs` | `active`, `session_notif`, `dismissed`, `last_prompt_ids` | heartbeats, turn-done events, clicks, closes | aggregator, the desktop's notification server |
| **ctrl socket** `emit/ctrl.rs` | per connection: topics, heartbeat receiver | subscribe, permission round trip, status | aggregator, clients |
| **BLE** `emit/ble/` | one session per device, back-off, cancel flag | discovery, session loop, permission round trip | aggregator, devices |
| **HTTP status** `emit/http.rs` | none | snapshot | aggregator |
| **Token tracker** `ingest/jsonl/` | file offsets, `cumulative`, `today`, `current_date`, dirty flag, persisted file | drain lines, roll the date over, persist, midnight reset, start-up catch-up | aggregator, files |
| **Setup** `setup.rs` | Claude Code's `settings.json` | merge and remove hooks, atomic save | files |
| **Configuration, main** `config.rs`, `main.rs` | values read once | start the tasks, watchdog ping | all |

What is hard to test here: the approval timer races with decisions of several emitters;
one session runs several calls at once; tasks send in an order of their own; the token
file and the settings files have two writers; bounded channels; and a broadcast channel
whose receivers lag. `PROJECT.json` lists each of these under `hazards` with its line.

What makes each component correct:

* approval flow: each forwarded call gets one answer that somebody was entitled to give,
  no prompt outlives its call, no waiting call loses its prompt, emitters see the prompts
  there are;
* turn-done gate: a notification only for a session that was idle for the whole grace;
* permission: a matching deny is never overridden by an allow, ambiguity always prompts;
* cache: a lookup uses the files' present content, and an entry a user adds reaches it;
* additions, undo and setup: a settings file is never partial, a save changes what it
  was made for and nothing else, and what an Always added can be undone, but for roots that
  undo refuses;
* notification emitter: a click decides the prompt the user saw, no notification
  outlives its prompt;
* ctrl and BLE: one acknowledgement per command, heartbeats in order; one session per
  paired device, and none for others;
* token tracker: totals count each line once, survive restarts, and agree everywhere.

## Modules

| module | models |
|---|---|
| `ApprovalFlow` | hook ingest, the aggregator's handling of hook events, decisions, Always and timeouts, the emitters' requests |
| `ApprovalSpec` | what the flow promises to Claude Code and to users, with neither queue nor timer |
| `MCApprovalFlow` | the instances TLC checks |
| `ApprovalFlowProofs` | theorems about `ApprovalFlow` with their proofs |
| `TurnDone` | the aggregator's "Claude is done" gate: activity serial, idle grace, tokens of the turn |
| `TurnDoneProofs` | theorems about `TurnDone` |
| `HeartbeatFeed` | the broadcast channel of heartbeats and the connection loops of ctrl and BLE |
| `HeartbeatFeedProofs` | theorems about `HeartbeatFeed` |
| `NotifyEmitter` | the notification emitter against the notification server and the user |
| `MCNotifyEmitter` | the symmetry TLC uses for it |
| `NotifyEmitterProofs` | theorems about `NotifyEmitter` |
| `TokenTracker` | the JSONL watcher, the rollover at start and midnight, `tokens.json`, the aggregator's totals |
| `MCTokenTracker` | the symmetry TLC uses for it |
| `TokenTrackerProofs` | theorems about `TokenTracker` |
| `Patterns` | entries of allow and deny lists: parsing, matching, evaluation, the cascade, the entry derived from a call; operators only |
| `AllowlistCache` | project roots, the LRU of project entries, the watcher tasks, lookups and Always against files that change; extends `Patterns` |
| `MCAllowlistCache` | a tree of three directories, five calls and the entries TLC uses |
| `AllowlistCacheProofs` | theorems about `AllowlistCache` |
| `SettingsFiles` | the daemon's Always, `undo-last-allow` and `setup` as processes that load, save and log, system call by system call |
| `MCSettingsFiles` | the instance TLC checks |
| `SettingsFilesProofs` | theorems about `SettingsFiles` |
| `BleManager` | BLE discovery, the manager's map of sessions, the session tasks |
| `BleManagerProofs` | theorems about `BleManager` |

The modules meet at what one promises and the next assumes. `HeartbeatIsFresh` of
`ApprovalFlow` says that each change of the prompts is broadcast at once; for `HeartbeatFeed`
these are changes like others, some of which are broadcast and some not. `NotifyEmitter`, which
looks at prompts only, has a heartbeat for each change of theirs; it assumes of the aggregator that
decisions name a `tool_use_id` and count only while its prompt is there, which
`ApprovalFlow` has in `handle_permission_decision`, and of turn-done events what
`TurnDone` promises. `ApprovalFlow` takes the verdict on a call as given by
`Verdicts[c]`; `Patterns!evaluate` is the function that gives it, on the lists
`AllowlistCache` keeps. An Always is one step there; `SettingsFiles` takes it apart. A
session of `BleManager` that is `streaming` is a connected device of `HeartbeatFeed`, and its
permission round trip a client of `ApprovalFlow`.

### ApprovalFlow

A `Call` is one PreToolUse connection. Its handler (`handle_connection`) goes through `phase`:
`idle`, `sent` (event in the aggregator's channel), then `reply` (the aggregator answered
`Immediate`) or `await` (it answered `Await`); a timer that elapses leads to `lapsed`
(receiver dropped), `fallback` (timeout reported) and finally `done`. `rx[c]` is what the
oneshot receiver will yield: nothing yet, a decision, `passthrough`, or `dropped` when the
sender is gone. `outcome[c]` is what the hook binary tells Claude Code, `gone` when it left
first. `queue` is the `mpsc` channel; an action that sends is disabled while it is full, as
the `await` on `send` is. `pending` and `sessions` are the aggregator's maps; a session keeps
the fields the protocol uses, `waiting` and `pending_tool_use_id`. `shown` is the prompt list
of the last heartbeat; each handler that calls `broadcast_heartbeat` sets it, the others leave
it alone, and so a forgotten broadcast shows.

Every aggregator step takes one message: `AutoAnswer`, `DuplicateId` and
`start_intercept` for a PreToolUse, `handle_permission_decision`,
`handle_allowlist_always`, `ApprovalTimedOut`, and `handle_hook_event` for the other six
events. `permission::evaluate` is external to this module: `Verdicts[c]` is the set of
verdicts it may return for `c`, because the settings may change between calls.
`Derivable` are the calls for which `derive_pattern` finds a specific pattern. Clients in
`RoundTrip` (ctrl, BLE) wait for `PermissionDecisionResult`; the notification emitter does
not and may also click Always. Clients may name any id at any time, stale ones included.
Two calls may share an id (`IdOf`), which the code guards against.

Left out: heartbeat fields other than prompts, entries, tokens, turn-done checks (they
never touch an approval), unknown hook events (they change nothing) and the end of the
daemon. `intents` is a history variable: the verbs users sent for an id.

`decisionsLeft` and `eventsLeft` bound what the environment does (`MaxDecisions` per
client, `MaxEvents`); nothing in the daemon is bounded beyond its own queue capacity.

### Refinement

`ApprovalSpec` has two variables, `outcome` and `intents`. A call is asked, answered with
something authorised, or abandoned. `ApprovalFlow!Abstract` is the instance with the
identity mapping on both, and `ImplementsApprovalSpec` says that every step of the flow is
one of the abstract steps or a stutter. It is checked in `approval_liveness`, where two
calls share an id, and proved. That a call which was asked is settled is
`EveryCallIsAnswered`.

### TurnDone

`sessions[s]` keeps what the gate uses of a session: whether it is known, its
`last_activity_serial` and `tokens_this_turn`. A Stop puts a record with the captured
serial into `gates` (one timer task each, so several may run at once);
`handle_check_turn_done` takes any of them at any time, since the grace is only a lower bound,
and adds to `notices` what it broadcasts. SessionStart and PreToolUse are one action as
they treat serial and counter alike. A transcript line is in `unread` until a `TokensUpdate`
counts it; those updates are sent by tasks of their own, at any time after. `since[n]` and
`due[s]` are history: what happened to its session since the n-th Stop, and how many lines
were unread at the session's last prompt or have been written since.

### HeartbeatFeed

`state` counts the aggregator's changes, `log` is every heartbeat broadcast. A `Change` is
broadcast by its handler; a `QuietChange`, a PreToolUse that is answered without a prompt,
is not and shows with the next heartbeat, which the `KeepaliveTick` sends in the end.
`next[c]` is the position of peer c's receiver: what is `Capacity` behind the end of the log
is gone, and `Lagged` moves the receiver to the oldest heartbeat kept, as tokio's does. A
connection makes its receiver first, then asks for a snapshot (`asked`), gets it
(`answered`) and enters its loop once it is written. `topics[c]` is the subscription of a
ctrl connection; a BLE session streams from the start. Commands arrive in two pieces, a head
and a tail with the newline: `inSocket` holds those that have arrived, `partial` those that
the current future of `read_line` has taken. When the heartbeat branch (or the 500 ms tick
of a BLE session) completes first, the future is dropped and with it `partial` (`DropRead`);
`lost` remembers whose pieces these were. The select of a BLE session is biased towards
heartbeats (`MayRead`).

### NotifyEmitter

`active`, `session_notif`, `dismissed`, `last_prompt_ids` and `first_stale_click_seen`
are the variables of `run`. The emitter takes heartbeats (`feed`), turn-done events
(`dones`) and two kinds of signals (`clicks`, `closes`) in any order; one handler is one
step. `screen` is the server's side: Notify answers with `replaces_id` when that
notification is still there, and with it or a new id when it is gone; a click closes the
notification, and so leaves both a click and a close to be taken. `handle_heartbeat`
posts for several sessions in one step, with the server's answers and failures chosen for
each. `Record` is what the code writes into the two maps, `Display` what the server does;
the aggregator is reduced to the prompt each session shows, the
`tool_use_id`s used so far, and the decisions on their way to it.

### TokenTracker

A transcript is the number of pieces written to it (`size`); two pieces make a line, which
reports one token, and a write may end between them. `offset` is the watcher's
`FileOffsets`, and `kept[f]` says whether the file still has the inode recorded there. `pc`
and `at` are the position of the watcher task: it takes a file event (`handle_event`),
drains the file line by line (`CountLine`, `SkipFragment`, `RollOver`) until its end
(`EndOfFile`) or a failing read (`DrainFails`), and saves on its tick (`PersistTick`,
`TickSaved`). `memory` holds its four local variables. Saving is two steps, since
`PersistedTokens::save` writes `tokens.json.tmp` and renames it, and the midnight task
(`midnight`, with the copy it has loaded) does the same with the same name on another
thread: a rename may publish the other's file or find it gone. Each may fail. `updates` and
`resets` are the tasks that the watcher spawns for each message, so these reach `queue` in
any order. `Stop` ends the daemon anywhere, between write and rename included, and leaves
only the files.

History: `counted[d]`, the lines counted on each date; `expected`, the total when every
line is counted but those whose halves were read apart; `rolled`, whether a date has rolled
over since the start; `overlooked`, the files written while nobody watched or whose last
scan, open or drain failed. On each of these exits of `snapshot_existing` and
`drain_new_lines` the code logs a warning and goes on.

Left out: lines without tokens, the entry texts, the per-session counter (`TurnDone` has
it), errors on reading `tokens.json` and the daemon without a projects directory. A
replacement during a drain counts as one after it, because the drain keeps the old file
open. A write in flight is taken as done or not done. The midnight timer is truncated to
whole seconds and may go off just before midnight, where the task finds nothing to do; the
model lets it run at any time after.

### Patterns

A text is a sequence of tokens: a tool name or a part of one, or one character of an
argument. `parse` gives an entry its kind as `Pattern::parse` does (`BareTool`, `BashExact`,
`BashPrefix`, `PathGlob`, `McpExact`, `McpPrefix`, `Exact`, `Ambiguous`, `Unparseable`),
brackets, trimming and `:*` included, and `matches` compares it with a call:
`match_tool_args` has the cases of the arguments. `Scan` is the loop over a list, with its
early return on a confident match and the first ambiguous one remembered; `evaluate` runs
it over the deny list and then the allow list of a `cascade` of three files.
`derive_pattern` is the entry an Always adds.

Globs are those of the crate `globset` (0.4, with its defaults on Unix): a star, a question
mark, `**/`, a class with its negation, a group of alternatives, nested or not, whose empty
ones are left out, and a backslash that takes the next character as it is. `Reading` says how
each character is read, `ValidGlob` what is refused (an unclosed class or group, a `}` without
`{`, a backslash at the end), and `is_match` compares position by position. Tokens have no
order, so that a class has no ranges: `TextAssumption` keeps the hyphen out of the tokens. There
are no RECURSIVE operators, so that theorems may use the module.

### AllowlistCache

`disk` is the content of each settings file, `claude` the directories that have a `.claude`.
`lru` lists the cached roots, `lists` what the daemon holds of a file, `watcher` and
`notified` the task that reloads it: spawned but not yet watching (`starting`), `watching`,
or `deaf` once it has ended because the directory is missing or has been removed. A lookup
(`NoProject`, `Hit`, `Miss`) finds the root, loads what is not cached and evaluates the
call; a call without a confident answer is `asked`, one at a time, until `Always` or
`NoAlways`. The world edits, breaks and unlinks files and removes directories.

History: `seen`, the lists of the last content of a file that parses; `missed`, the files
with a change since that no watcher handles; `clicked`, the Always whose entry is in its
file. Watchers of evicted entries run on in the code and change only lists that nobody
reads; they are left out. Symlinks are not in the model (a symlinked `.claude` or `.git`
is no marker).

### SettingsFiles

A process is the daemon or one invocation of the command line, and goes through `pc` with a
`job`: the file it changes and its copy. `Always`, `UndoLoads`, `Setup` and `WriteConfig` load
a file (`Undo` has read the log before); `OpenTmp`, `WriteTmp`, `Rename` and `SyncDir` are the
save, and `AppendAdded` and `AppendUndone` the line in the audit log. `tmp` is the content of
`<file>.tmp`, whose name all processes share; `fd` says under which name the file a process
has open is found now, since another process may rename or truncate it. Any system call may
fail, a process may be killed between any two (`Dies`), and `PowerLoss` leaves of a file any
content in `durable`. An append that is interrupted leaves a fragment, to which the next line
is glued; a fragment that ends within a character, after which the log cannot be read at all
(`additions/audit_log.rs:144`), is left out. `find_last_undone_addition` is the reverse walk
with its counters, as a fold; `RefusedRoot` are the roots that `validate_audit_root` does not
take, though an Always may write there.

An allow list is a set, because writers add what is absent and remove every copy; of the
hooks only ccbridge's own are kept. `setup` replaces a settings file whose root is a list,
which is none of the contents a save has to keep. History: `spoiled`, why nothing is claimed
of a file any more (the user broke it, two programs saved it at once, or it was lost
unsynced); `byHand`, the patterns a user has written himself; `unlogged`, the patterns whose
log line was lost.

### BleManager

`bluez` has each device's object and whether it matches the service, `link` who is
connected. `discovery` goes through `seeds`, subscribes, and then takes adapter events from
`bus`; it passes `Add` and `Remove` to the manager through `channel`, which is bounded. The
manager keeps the map `sessions`; `tasks` are all session tasks ever started, each with its
cancel flag and its phase: `top` of the loop, `connecting`, `opening`, `streaming`, `cut`
(the link is gone and the task has not noticed), `resting` in the back-off, `ended`.
Nobody waits for a cancelled task, and so it may disconnect a device that a younger task
serves. A look at a device (`Look`) may fail to read it if it is `Unreadable`, which the code
takes for a device that does not match (`matches_service`). `unheard` is history: devices with
a change that nothing told discovery of, and those that it failed to read when it looked at
them last. The length of the back-off has no bearing on the order of steps.

## Runs

| run | instance | shows |
|---|---|---|
| `approval_safety` | two parallel calls of one session, distinct ids, a ctrl client, a notification emitter, one other event, queue of 3 | no approval leaks or strands its handler, sessions and heartbeats follow the pending map, an applied decision is delivered or its handler has lapsed; 2.1 million states |
| `approval_liveness` | two sessions with one `tool_use_id`, queue of 2, no other events | every forwarded call is answered, every approval ends, and the flow implements `ApprovalSpec`, duplicate guard and stale timeout reports included |
| `turndone_gate` | two sessions, two Stops, four other events, two transcript lines | a notice means that its session was idle or ended, counts the lines of its turn and those unread when it began, and is sent for a session that stays idle |
| `feed` | a ctrl client and a BLE device with two connections and two commands between them, a channel of one heartbeat, one change, two heartbeats | nothing that was broadcast is missed between snapshot and stream or by a lag, only interrupted commands are lost, subscribers catch up, with changes that were not broadcast too |
| `notify_safety` | two sessions, two prompts, three ids, one turn-done event, one failed call, one restart | the emitter's maps agree, clicks stay in their session, answered prompts do not come back, old heartbeats close nothing that waits |
| `notify_liveness` | one session, a channel of one heartbeat | records of resolved prompts go, prompts that stay are offered |
| `tokens` | two transcripts, four pieces, one midnight, one replacement, one fault, one restart, channel of 2 | lines are counted once, unread ones have an event waiting unless a fault hit them, counts of today keep to their date, watcher, files and aggregator agree, saved totals fall only where the midnight task overtakes the watcher; 7.2 million states |
| `permission` | home, a repository without `.claude` and a project in it; five calls, one of them of a path with braces; a cache of one project; one edit, one Always, one eviction | the lists held are those of the files' last readable content, answers do not depend on the order of files and entries, an Always on a plain call is honoured and allows that operation only |
| `permission_stale` (violated) | the same | after an Always in a repository without `.claude` the entry is not read again |
| `settings` | a project and a root that undo refuses, two patterns, two hooks, two command lines, one Always, two commands, one edit, failure, kill or power loss | files are never partial, additions can be undone unless a live one has a refused root, undo finds the last live addition, saves keep the rest |
| `ble` | two devices, one of them disabled and the other one not always readable, a channel of one event, four changes | one live session per device, the map follows BlueZ, cancelled sessions end, a device that stays paired is served in the end unless the seeding is stuck |
| `ble_paired_later` (violated) | the same with room for two events, three changes and reads that all succeed | a device that is paired after BlueZ has seen it gets no session |

Why the bounds are enough: each hazard involves at most two calls (one displaces, outlives
or overtakes another), one decision per emitter, and a queue long enough to hold a decision,
a timeout report and an event at once. In `approval_safety` no event is forbidden; the queue
of 3 lets a decision stand before and after the report of the same call. In `turndone_gate`
two overlapping graces of one session, or of two, are what may be confused; four events
suffice to end a session, start it again, use a tool and prompt. In `feed` two heartbeats on
a channel of one make a receiver lag, and one of them may follow a change that was not
broadcast; two connections let the snapshot of the second follow the stream of the first,
and two commands let a lost one stand before or after a whole one; peers share nothing but
the channel, so one of each kind is enough. In `notify_safety` a prompt, its successor and a
turn-done notice compete for one slot while another session's notification must not be
touched, and a third id is there for a server that does not reuse one. In `tokens` four
pieces are two lines, in one transcript or in two: one before midnight and one after, one
before a save and one after, one before a restart or replacement and one after; the two
writers of `tokens.json` meet at midnight only, so one is enough. In `permission` the cache
of one project makes every change of project an eviction; one edit and one Always, each
followed by watchers that may start late or not at all, are what a lookup may be stale
against; the three directories are a cwd without project, a project found by `.git` and one
by `.claude` below it. The deny list has an ambiguous, a malformed and a matching entry, the
allow list a prefix and an element that is no string; the calls are a command, a longer one
in a permissive mode, a plain path, a path with braces and an MCP method. In `settings` two
command lines and the daemon are three writers of one file, so that two may be in a save
while a third logs; one trouble is a failing call, a kill, a power loss or an edit at any of
their system calls. In `ble` two devices that are paired at the start are one more than the
channel holds, and four changes are a removal, a return, a lost link and a new pairing.
`TaskBound` is the number of tasks these changes can start. Ids and prompts are
interchangeable, which `MCNotifyEmitter!Symmetry` uses in the run without liveness, and so
are transcripts (`MCTokenTracker!Symmetry`) and command lines
(`MCSettingsFiles!CliSymmetry`). The theorems remove the bounds for the properties they
cover.

Deadlock is checked except where the bounds stop everything: in the runs of `TurnDone`,
`HeartbeatFeed`, `TokenTracker`, `SettingsFiles` and `BleManager` all stops, events, heartbeats,
connections, pieces, days, commands and changes may be used up (and in `BleManager` the
adapter may be gone for good). In `BleManager` a full channel also stops the seeding when
more devices are paired than it holds: `SeedingIsFull`, which `ServedInTheEnd` excepts.

Fairness: `WF(Aggregate)` because the aggregator task is always polled and takes messages as
they come, `SF(Handle(c))` for each handler because timers elapse and because a handler that
waits for room in the channel is only served now and then, yet tokio's semaphore queues
senders fairly, so that it is served in the end. In `TurnDone` weak fairness of `Check`:
timers elapse. In `HeartbeatFeed` weak fairness of the keepalive tick, which the select of the
aggregator picks at random among what is ready, and of what the daemon does for a peer, and strong
fairness of its heartbeat branch, since the select of ctrl picks a ready branch at random and
that of BLE prefers this one. In `NotifyEmitter` weak fairness of each of the four branches,
for the same reason, of the aggregator's keepalive tick and of its taking decisions. In
`BleManager` weak fairness of the tasks, and strong fairness of `Connected` and `Opened`: a
device that is there and can be connected to again and again is connected at last.
`TokenTracker`, `AllowlistCache` and `SettingsFiles` have only safety properties and need
none. Nothing is assumed of users, of Claude Code, of clients and devices or of the hook
binary.

## Proofs

`ApprovalFlowProofs` proves for all values of the constants that satisfy
`ConstantTypes` and `NullsAreFresh`:

* `TypeCorrect`: `Spec => []TypeOK`.
* `NoApprovalLeaks` and `NoHandlerStranded`: `NoLeakedApproval` and `NoStrandedHandler`, from
  `FlowInv`. Neither is inductive: one must know that a PreToolUse event is in the queue once
  and only while its handler is in phase `sent` (`SentOnce`), and that nothing is in a oneshot
  before the aggregator has seen the call (`RxUnused`). A leak could come from a lapsed
  handler, and there the report must be on its way: the disjunct `ReportDue`.
* `WaitingBacked` and `HeartbeatFresh`: `WaitingIsBacked` and `HeartbeatIsFresh`, from
  `SessionInv`, which adds that a closed session is not waiting.
* `AnswersAuthorised`: `AnswerIsAuthorised`, from `AuthInv`: the queue carries only what
  users sent and what handlers reported (`QueueIsHonest`), what a handler is about to
  write is authorised (`RxIsAuthorised`), only calls that may be prompted are held
  (`HeldAreAsked`), and outcomes follow phases.
* `ClientsToldTruth`: `AppliedIsDeliveredOrLapsed`. A client that waits has one decision in
  the channel, the one it noted (`Requests`), so the answer is about what it asked; a handler
  that elapsed is never handed anything later (`GoneStays`), and a decision stays delivered
  because an entry of `pending` has an unused oneshot, and so has a call whose event is still
  in the channel (`FirstWins`).
* `Refinement`: `Spec => ImplementsApprovalSpec`, step by step, from `AuthInv`.

`TurnDoneProofs`: `TypeCorrect`; `NoticesMeanIdle`, from an invariant that relates
each timer under way to what its session has done since: the serial has not fallen below
the captured one unless the session ended, and equals it only if nothing has happened; and
`NoticesCountTheirLines`, which is `NoticeCountsItsLines`, from `CountInv`: at any time what is
counted and what is unread are no more than the lines of the turn and those it found unread.

`HeartbeatFeedProofs`: `TypeCorrect`, and `FeedCorrect`, which is `DrainedShowsAnnounced`. Its
invariant says that the last heartbeat shows a state there was, that receivers are within
the log, and that a snapshot with nothing after it is as late as the last heartbeat. `CommandsKept`
is `OnlyInterruptedCommandsAreLost`: what a connection has yet to read is the end of what its
peer sent, the heads and tails of commands in turn (`PiecesInPlace`), so that the future of
`read_line` holds at most one piece (`AtMostOneHeld`), a complete line is a lone tail or a whole
command (`LineIsShort`), and whatever is taken from the front is settled (`TakenAreSettled`).

`NotifyEmitterProofs`: `TypeCorrect` (for finitely many sessions, as the number of failed
calls is counted), `SlotsCorrect`, `ClicksCorrect`, `NeverReposted` (`NoRepostAfterAnswer`) and
`OnlyResolvedClosed` (`HeartbeatClosesOnlyResolved`). `SlotsAgree` is inductive by
itself; `ClicksStayInSession` needs `ScreenAgrees`, that what the server shows under an
id on record belongs to the session of the record. `RecordFacts` and `DisplayFacts` say
what a post does slot by slot, `PostKeeps` that it keeps the invariant, for
heartbeats and turn-done events alike. The last two are about what old heartbeats may still
say, and rest on `PastInv`: of the heartbeats under way, and of the prompts there are now
behind them, those that show a prompt stand in a row (`OnceInv`), which begins with the first
one if the emitter has already seen the prompt (`SeenInv`); none shows a prompt that was
answered and is no longer in `dismissed` (`GoneInv`); and what is on record is the session's
`last_prompt_ids` (`LastInv`). So a prompt that a heartbeat no longer shows is not shown by
any later one, and an answered prompt is either in `dismissed` or gone for good.

`TokenTrackerProofs`: `TypeCorrect`; `TodayCorrect`, from `TodayInv`, which adds that no line
is counted on the empty date and that the watcher's count belongs to its own date, a copy at a
time through write, rename and rollover; `CleanCorrect` and `TotalCorrect`, from `TotalInv`:
the midnight task runs exactly while the daemon does (`TasksAgree`), no loaded copy is ahead
of the watcher (`CopiesAreBehind`), what the watcher is about to rename is its present total
or a midnight copy (`TmpIsKnown`), and what a clean watcher has is on the disk (`SavedInv`).

* `UnreadNoticed`: `UnreadIsNoticed`, from `NoticedInv`: during a drain the transcript that is
  open stands for its event (`Noticed`), it is known by its inode (`OpenIsKept`), and no
  offset is beyond the end of its file (`ReadIsThere`).
* `CountersCorrect`: `CountersAgree`, which speaks of an empty queue, from `CountersInv`, which
  speaks of every state: play the queue out (`Foreseen`), and the aggregator's total and the
  updates yet to be sent make up the watcher's; before the totals of former runs have been sent
  it has nothing (`Blank`), so that taking the larger loses nothing. `RolledInv` says that a
  rollover leaves its mark before its `DailyReset` is under way.
* `OnlySplitMissed`: `OnlySplitLinesAreMissed`, from `Due`, the same with the sum written as
  `Sum`. But for the scan at the start, which sets both sides, a step changes what is
  unread of one transcript at most, and the sum by as much (`SumsDiffer`). That the sum
  exists needs finitely many transcripts (`FilesAreFinite`).

`AllowlistCacheProofs`: `TypeCorrect`, and `HeldListsAreFresh`, which is `CachedIsFresh`, for
any tree of directories, any entries and any size of the cache. The strengthening `Fresh`
adds, for every file in use, that a readable content on disk is the one `seen` last, which a
reload needs, and that a file which has become unreadable without being `missed` has left the
lists as they were. On this and on `ListsInv` (every list is what an array parses to, and each
Always had an entry to add) rest three theorems about the answers:

* `AnswersFollow`: `AnswersFollowTheFiles`. `Scan` with its early return has the result that
  `Reference` gives from the set of all matches, because the fold over a list finds a confident
  match if there is one and an ambiguous one otherwise.
* `AlwaysHonoured`: `AlwaysIsHonoured`. The entry derived from a `Plain` call parses to a kind
  whose match with this call is confident: its argument, having no signs of a pattern, matches
  itself as a glob character by character.
* `AlwaysLiteral`: `AlwaysIsLiteral`. The same glob matches nothing else, and the other kinds
  compare for equality.

They hold for texts over any set of tokens (`TextAssumption`: the signs that parsing looks for
are among them, and a call names a tool). `Plain` excepts the calls whose entry is
read back as something else: a tool name with a blank, a bracket or a star, an argument with
blanks at its ends, a path with a sign of a glob (`GlobSign`), a command that ends in `:*`.
That a glob without signs is valid and read as text throughout is `ReadAsText` and `NoSigns`,
that it then matches itself alone `LiteralMatch`.

`SettingsFilesProofs`: `TypeCorrect`, and `NeverPartial`, which is `NoPartialSettings`. Its
strengthening `SettingsInv` says that while a file is not spoiled at most one process saves it
(`Alone`), that this process still has the temporary file open under its name and, once it has
written, has JSON there (`Prepared`), and that whatever a power loss may leave is JSON too
(`Whole`; not for `config.toml`, which is written without a sync).

* `RestIsKept`: `SavesKeepTheRest`, from `SavesInv`, which adds that the job of a process fits
  its place (`Role`) and that the copy of a process which saves a file that is not spoiled is
  what its job makes of the file's present content, and is in the temporary file once written
  (`Intended`).
* `WalkIsRight`: `FindIsLastLive`, a fact about any log. `Balance` counts how many more undos
  than additions of a key some lines have; what the walk knows after the lines from j on
  (`Walked`) is the last live addition among them or, if there is none, for each key the
  greatest `Balance` of lines that begin at j (`Counts`). An addition read next is live exactly
  if that count is zero. The induction goes from the end of the log to its start.
* `AdditionsUndoable`: `AdditionsAreUndoable`, from `UndoInv`. An undo removes the pattern first
  and logs it afterwards, so that the line of a second addition of the same key must not be
  taken twice: a pattern that is in its file has an addition that remains live when the undo
  under way is logged (`Spare`), and an undo under way has one of its own (`Reserved`).
  `KeysInv` says that all lines of one key are of one file. Where no live addition has a root
  that undo refuses, the undos before it, one after the other, come to that addition
  (`UndosReach`); otherwise they stop at the refused one.

The last one uses `LogsAssumption`: logs of earlier runs hold additions only, and a key, a
pattern and a `tool_use_id`, is that of one tool call and so of one project; `Always` has the
same condition.

`BleManagerProofs`: `TypeCorrect`; `OneSessionPerDevice`, which is `OneLiveSession`, with
the strengthening that a task ends only when cancelled (`EndedIsCancelled`) and that there are
neither tasks nor entries before the manager is in its loop (`NoneBefore`); and `MapFollows`,
which is `MapFollowsBluez`, from `MapInv`. It says of every enabled device that is not
`unheard` that what is still to come makes the map right: what the map will have once the channel
is empty (`Served`) agrees with BlueZ if the bus is silent about the device, and otherwise
the bus ends with its removal, holds a single addition of a device that is not served, or an
addition after a removal (`Following`); at the start the seeds take the place of the bus
(`Seeding`).

Induction on numbers is done without the library's theorems, whose parameter is an operator:
`Induction` of `AllowlistCacheProofs`, `SettingsFilesProofs` and `TokenTrackerProofs` is about a
set of numbers and follows from `WFMin`, and from it come `FoldExists` and `SumExists`, that
folds and sums have the values their equations give.

`TypeOK` is proved for every module with state and so is in no run.

So every invariant and action property of the passing runs is proved, for every value of the
constants. Only model-checked is liveness, as fairness and ENABLED are out of the prover's
reach: `EveryCallIsAnswered`, `EveryApprovalIsCleared`, `IdleIsAnnounced`,
`CatchesUp`, `ResolvedIsCleared`, `PromptIsOffered`, `CancelledEnds` and `ServedInTheEnd`.

## Where code and comments differ

Two runs are violated and show a difference, in `findings` with the lines they contradict:
the entry of an Always that no watcher brings back (`permission_stale`), and devices that are
paired after they were seen (`ble_paired_later`). The others were met on the way; the properties
name them as exceptions.

* "`true` while the session is blocked waiting" (`state/mod.rs:285`): with two parallel calls
  the first answer clears `Session.waiting` while the second call waits.
* "if they still match, nothing has happened" (`state/mod.rs:161`): a session that ended
  and starts again counts its serial from the beginning, and may come to the captured one.
  `NoticeMeansIdle` has the ended session as an exception.
* "every command receives exactly one ack" (`emit/ctrl.rs:14`): the heartbeat branch of the
  select drops a `read_line` that has taken the head of a command (`emit/ctrl.rs:223`).
  `OnlyInterruptedCommandsAreLost` bounds the loss.
* "what was this notification about?" (`emit/notify.rs:324`): a new prompt reuses the id of the
  one it replaces (`emit/notify.rs:510`), and a click taken afterwards decides the new one.
  `ClicksStayInSession` is what remains.
* "the original `path` is never touched until `rename` succeeds" (`setup.rs:403`): two
  programs share the name of the temporary file (`setup.rs:412`), and one may rename what the
  other is writing. `NoPartialSettings` excepts files that two programs save at once.
* "evicting an entry calls `.abort()` on both watcher tasks" (`permission/cache.rs:18`):
  `put` returns the replaced value of the same key only (`permission/cache.rs:190`), so that
  the watchers of evicted projects run on.
* "always project-local" (`additions/target.rs`): an Always for a call from the home
  directory writes `~/.claude/settings.local.json`, which no lookup reads.
* "a *literal* pattern - not a glob" (`additions/mod.rs:14`), which the call it was derived from
  always matches (`additions/mod.rs:29`): a path goes into the entry as it is
  (`additions/derive.rs:43`) and is read back as a glob (`pattern.rs:224`), so that an Always
  on `{d,x}` allows `d` and `x`, and not that path itself. So it is with `*`, `?`, a class or a
  backslash in a path; a command that ends in `:*` is read back as a prefix, and an argument
  with blanks at its ends does not match itself. `Plain` excepts these calls.
* "If you click Always by mistake, run `ccbridged undo-last-allow`" (`README.md:103` of the
  repository): without a project an Always writes to the cwd itself (`additions/target.rs:58`),
  and `validate_audit_root` refuses a relative root, `/` and `~/.claude`. Such an addition stays,
  and as it is the last that is not undone, undo refuses all older ones too.
  `AdditionsAreUndoable` is about logs without one (`Refused`).
* "calls `hb_tx.send()` on every state change" (`state/mod.rs:21`): a PreToolUse that the lists
  decide, or whose `tool_use_id` is taken (`state/mod.rs:798`), may make a session
  (`state/mod.rs:639`) and an entry (`state/mod.rs:658`) without a broadcast. Who has taken every
  heartbeat does not see them until the next one, the keepalive tick at the latest:
  `DrainedShowsAnnounced` is about what was broadcast, `CatchesUp` about what was not.
* "turn-done event must carry only the tokens generated *during* that task"
  (`state/mod.rs:2269`, a test): a line that is read after the next prompt counts for the next
  task (`state/mod.rs:1066`). `NoticeCountsItsLines` has such lines as its exception.
* "Seed with already-paired devices." (`emit/ble/discovery.rs:34`): each is sent into a channel
  of 16 (`emit/ble/discovery.rs:38`) whose receiver the manager gets afterwards
  (`emit/ble/mod.rs:98`). With more of them the send never ends and no device is served.
  `ServedInTheEnd` excepts this (`SeedingIsFull`).
* A settings file that is unlinked keeps its lists, as the watcher acts on created and
  modified files only; one that does not parse when it is first loaded counts as empty, while
  one that breaks later keeps its lists.
* "transient errors are retried inside" (`emit/ble/mod.rs:43`): the first error of BlueZ before
  the manager's loop ends it.
* A device that is "already paired at startup" (`emit/ble/discovery.rs:4`) is passed over for
  good when a read of its properties fails (`emit/ble/discovery.rs:95`, `99`), since an error
  counts as a device that does not match. `MapFollowsBluez` and `ServedInTheEnd` except it.
* `PermissionDecisionResult::Applied` is documented as "dispatched the decision to the
  hook handler" (`state/mod.rs:193`), yet is also returned when the handler's timer has
  elapsed and its report is still in the queue; `AppliedIsDeliveredOrLapsed` has the
  second case as a disjunct of its own.
* With a shared `tool_use_id` a late timeout report removes the entry of the second call,
  whose sender is dropped; the hook then gets no answer, which `ApprovalSpec` has as
  `silent` for shared ids only.
* "if the client later subscribes they'll skip to current state" (`emit/ctrl.rs:217`):
  the receiver has kept up to 16 old heartbeats, which are streamed first.
* "an approval for the same session can't actually still be pending here"
  (`emit/notify.rs:633`): turn-done events and heartbeats come over two channels, and a
  notice may replace the approval of a younger prompt. `PromptIsOffered` excepts a slot
  that a notice has taken.
* "every currently-visible ccbridge notification" (`emit/notify.rs:188`): a close taken
  late removes the record of the notification that has reused the id.
* A click on an unknown notification is "from a previous prompt that we already handled or
  replaced" (`emit/notify.rs:694`); the server closes a notification when it is clicked, and
  when the emitter takes the close first the click is ignored though its prompt is pending.
* "monotonically increasing" (`ingest/jsonl/tokens.rs:24`): the midnight task loads the
  file, zeroes `today` and saves; a save of the watcher in between is overwritten, and as
  the watcher is clean then, the smaller total stays until the next token. It is the
  exception in `TotalDropsOnlyAtMidnight` and `CleanIsSaved`.
* `tokens_today` is "output tokens since local midnight" (`README.md:143` of the repository):
  the watcher spawns the `DailyReset` and the `TokensUpdate` of one line as separate tasks,
  so the reset may zero the token that caused it, and updates of the old day may
  arrive after it. `CountersAgree` claims the count of today only before a rollover.
* "For each new assistant line" (`ingest/jsonl/watcher.rs:19`): a line that was written
  in two parts with a drain between them is read as two fragments, neither of which parses.
  A drain that cannot open, stat, seek or read its file (`ingest/jsonl/offsets.rs:80`, `88`,
  `115`, `131`) spends the event: the rest waits for the next write, and behind a line that
  is not UTF-8 every drain ends again. `UnreadIsNoticed` excepts the file until then.
* "history is not replayed" (`ingest/jsonl/offsets.rs:47`): a file that the start-up scan
  cannot stat, or one in a directory that it cannot read (`ingest/jsonl/offsets.rs:58`, `154`),
  gets no offset, and its next event replays it from the beginning.

## Plan

Modelled and checked: the approval flow with its refinement, the turn-done gate, the
heartbeat feed, the notification emitter, the token tracker, pattern evaluation and the
allowlist cache, the settings files with their three writers, the BLE manager. Every
safety property of theirs is proved. What is left, by worth:

1. Liveness of a settings reload: that a change a watcher hears of is read in the end. The
   graph of `AllowlistCache` is too large for it with the lists of `permission.cfg`.
2. The daemon without a projects directory, which starts no watcher and no midnight task,
   and the branches of start-up on an unreadable `tokens.json`.
3. The watchdog ping of `main.rs`, a snapshot round trip that is given up after a time.

## Not modelled

* The HTTP endpoint: stateless, one snapshot per request.
* The configuration: values read once, which are constants of the models.
* Packaging and service units, and the step of `setup` that enables them.
* The wire types beyond the fields the models use, and the parsing of transcript lines:
  data without behaviour of its own. Whether a line parses is in `TokenTracker`.
* Reading and limiting the hook binary's standard input, and its silent error paths, which end
  before a call exists.
* Logging, texts of notifications, entry texts and recap snippets.
