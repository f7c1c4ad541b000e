----------------------------- MODULE BleManager -----------------------------
(***************************************************************************)
(* Which BLE devices have a session: the discovery task that follows       *)
(* BlueZ (emit/ble/discovery.rs), the manager with its map of sessions     *)
(* (emit/ble/mod.rs), and the life of a session task (emit/ble/session.rs: *)
(* connect, open the characteristics, stream, sleep, again).  What a       *)
(* session streams and answers is the subject of HeartbeatFeed.            *)
(*                                                                         *)
(* BlueZ keeps an object per device it has seen.  The adapter announces    *)
(* objects that come and go; a device that is paired later, or whose UUIDs *)
(* change, changes properties of its own object only.                      *)
(***************************************************************************)
EXTENDS Integers, Sequences, FiniteSets

CONSTANTS
    Device,
    Disabled,     \* devices with `disabled` in the configuration
    Unreadable,   \* devices whose properties BlueZ may fail to read
    Capacity,     \* of the channel from discovery to the manager
    MaxChanges    \* bound: what devices and their user do

ASSUME DisabledAssumption == Disabled \subseteq Device
ASSUME CapacityAssumption == Capacity \in Nat \ {0}
ASSUME BoundAssumption == MaxChanges \in Nat

None == 0

VARIABLES
    bluez,      \* devices with an object; those that are paired and have our UUID
    link,       \* devices that are connected
    discovery,  \* what watch_paired and run_loop are doing
    seeds,      \* addresses of the first list that are still to be looked at
    bus,        \* AdapterEvents the discovery task has not taken
    channel,    \* DeviceEvents the manager has not taken
    managing,   \* is the manager in its loop
    sessions,   \* the manager's map, to the number of a task
    tasks,      \* all session tasks: [dev, cancel, phase]
    changes,    \* changes so far
    unheard     \* history: devices with a change that nothing told discovery of,
                \* or that it failed to read when it looked at them last

devices == <<bluez, link, changes>>
world   == <<devices, unheard>>
finding == <<discovery, seeds, bus>>
vars == <<world, finding, channel, managing, sessions, tasks>>

Match == {"absent", "other", "paired"}
Phase == {"top", "connecting", "opening", "streaming", "cut", "resting", "ended"}
AdapterEvent == [kind : {"added", "removed", "gone"}, dev : Device]
DeviceEvent  == [kind : {"Add", "Remove"}, dev : Device]
Event(kind, d) == [kind |-> kind, dev |-> d]
Task(d, cancel, phase) == [dev |-> d, cancel |-> cancel, phase |-> phase]

TypeOK ==
    /\ bluez \in [Device -> Match] /\ link \in SUBSET Device
    /\ discovery \in {"seeding", "watching", "ended"} /\ seeds \in SUBSET Device
    /\ bus \in Seq(AdapterEvent) /\ channel \in Seq(DeviceEvent)
    /\ managing \in BOOLEAN
    /\ sessions \in [Device -> {None} \cup DOMAIN tasks]
    /\ tasks \in Seq([dev : Device, cancel : BOOLEAN, phase : Phase])
    /\ changes \in Nat /\ unheard \in SUBSET Device

-----------------------------------------------------------------------------
(* Discovery.                                                              *)

\* Discovery will look at d later, and see what it is then.
Announced(events, d) == \E i \in DOMAIN events : events[i] = Event("added", d)
WillLook(d) ==
    \/ discovery = "seeding" /\ d \in seeds
    \/ discovery = "watching" /\ Announced(bus, d)

\* is_paired and uuids: a read that fails is one of a device that does not match.
matches_service(d) ==
    IF bluez[d] # "paired" THEN {FALSE}
    ELSE IF d \in Unreadable THEN {TRUE, FALSE} ELSE {TRUE}

\* tx.send waits for room.  While the list is gone through, nobody takes
\* anything out: watch_paired has not returned the receiver yet.
send(kind, d) ==
    /\ Len(channel) < Capacity
    /\ channel' = Append(channel, Event(kind, d))

\* A device is looked at, or even its handle is not to be had.
Look(d, again) == \E found \in matches_service(d) :
    /\ IF found THEN send("Add", d) ELSE UNCHANGED channel
    /\ unheard' = IF found \/ bluez[d] # "paired" \/ again THEN unheard ELSE unheard \cup {d}

\* watch_paired: a device of the list that was read at the start.
Seed(d) ==
    /\ discovery = "seeding" /\ d \in seeds
    /\ seeds' = seeds \ {d}
    /\ UNCHANGED <<devices, discovery, bus, managing, sessions, tasks>>
    /\ Look(d, FALSE)

\* adapter.events(): only now is there a subscription; the manager gets the receiver.
Subscribe ==
    /\ discovery = "seeding" /\ seeds = {}
    /\ discovery' = "watching" /\ managing' = TRUE
    /\ UNCHANGED <<world, seeds, bus, channel, sessions, tasks>>

\* run returns with the first error of bluez before its loop.
Fail ==
    /\ discovery = "seeding" /\ discovery' = "ended"
    /\ UNCHANGED <<world, seeds, bus, channel, managing, sessions, tasks>>

\* Mutant: a device that does not match when it appears is not passed on when
\* it leaves either.
Bug_TakeRemoved(d) ==
    IF sessions[d] = None THEN UNCHANGED channel ELSE send("Remove", d)

TakeRemoved(d) == send("Remove", d)

\* run_loop: the device is looked at when its event is taken.
Take(evt) ==
    CASE evt.kind = "added"   -> Look(evt.dev, Announced(Tail(bus), evt.dev))
      [] evt.kind = "removed" -> TakeRemoved(evt.dev) /\ UNCHANGED unheard
      [] OTHER                -> UNCHANGED <<channel, unheard>>

Discover ==
    /\ discovery = "watching" /\ bus # <<>>
    /\ bus' = Tail(bus)
    /\ discovery' = IF Head(bus).kind = "gone" THEN "ended" ELSE "watching"
    /\ UNCHANGED <<devices, seeds, managing, sessions, tasks>>
    /\ Take(Head(bus))

-----------------------------------------------------------------------------
(* The manager's loop (run).                                               *)

\* Mutant: a second Add starts a second session.
Bug_HasSession(d) == FALSE

HasSession(d) == sessions[d] # None

\* session::start: the task begins at the top of its loop.
Add(d) ==
    IF d \in Disabled \/ HasSession(d) THEN UNCHANGED <<sessions, tasks>>
    ELSE /\ tasks' = Append(tasks, Task(d, FALSE, "top"))
         /\ sessions' = [sessions EXCEPT ![d] = Len(tasks) + 1]

\* Handle::shutdown sets the flag of the task; nobody waits for it.
Cancelled(t) == Task(tasks[t].dev, TRUE, tasks[t].phase)

Remove(d) ==
    /\ sessions' = [sessions EXCEPT ![d] = None]
    /\ tasks' = [t \in DOMAIN tasks |-> IF t = sessions[d] THEN Cancelled(t) ELSE tasks[t]]

Manage ==
    /\ managing /\ channel # <<>>
    /\ channel' = Tail(channel)
    /\ IF Head(channel).kind = "Add" THEN Add(Head(channel).dev) ELSE Remove(Head(channel).dev)
    /\ UNCHANGED <<world, finding, managing>>

\* The events end: the map and its handles are dropped, the tasks run on.
Leave ==
    /\ managing /\ channel = <<>> /\ discovery = "ended"
    /\ managing' = FALSE
    /\ sessions' = [d \in Device |-> None]
    /\ UNCHANGED <<world, finding, channel, tasks>>

-----------------------------------------------------------------------------
(* A session task.                                                         *)

In(t, phase) == t \in DOMAIN tasks /\ tasks[t].phase = phase
Moved(t, phase) == Task(tasks[t].dev, tasks[t].cancel, phase)
Becomes(t, phase) == tasks' = [tasks EXCEPT ![t] = Moved(t, phase)]
idle == <<finding, channel, managing, sessions>>

\* The channels a task holds end with the link they were opened on.
Hung(d) == [t \in DOMAIN tasks |->
    IF tasks[t].dev = d /\ tasks[t].phase = "streaming" THEN Moved(t, "cut") ELSE tasks[t]]

\* while !cancel
Top(t) ==
    /\ In(t, "top")
    /\ Becomes(t, IF tasks[t].cancel THEN "ended" ELSE "connecting")
    /\ UNCHANGED <<world, idle>>

\* run_once: the device is connected unless it is.
Connected(t) ==
    /\ In(t, "connecting") /\ bluez[tasks[t].dev] # "absent"
    /\ Becomes(t, "opening")
    /\ link' = link \cup {tasks[t].dev}
    /\ UNCHANGED <<bluez, changes, unheard, idle>>

\* Services resolved, both characteristics opened, the handshake written.
Opened(t) ==
    /\ In(t, "opening") /\ tasks[t].dev \in link
    /\ Becomes(t, "streaming")
    /\ UNCHANGED <<world, idle>>

\* Any of it fails: the link is left as it is.
Failed(t) ==
    /\ In(t, "connecting") \/ In(t, "opening")
    /\ Becomes(t, "resting")
    /\ UNCHANGED <<world, idle>>

\* Mutant: the flag is looked at after the writer failed, never on a quiet link.
Bug_Notice(t) ==
    /\ In(t, "cut") /\ tasks[t].cancel
    /\ Becomes(t, "resting")
    /\ UNCHANGED <<world, idle>>

\* The flag is looked at on each turn of the loop; the device is disconnected,
\* whoever made the link.
Notice(t) ==
    LET d == tasks[t].dev IN
    /\ In(t, "streaming") \/ In(t, "cut")
    /\ tasks[t].cancel
    /\ tasks' = [Hung(d) EXCEPT ![t] = Moved(t, "resting")]
    /\ link' = link \ {d}
    /\ UNCHANGED <<bluez, changes, unheard, idle>>

\* The end of the reader, or a write that fails.
HungUp(t) ==
    /\ In(t, "cut")
    /\ Becomes(t, "resting")
    /\ UNCHANGED <<world, idle>>

\* Mutant: a session is over when the device hangs up.
Bug_Rest(t) == In(t, "resting") /\ Becomes(t, "ended") /\ UNCHANGED <<world, idle>>

\* The flag again, then the sleep (1 to 30 seconds, without bearing on the order).
Rest(t) ==
    /\ In(t, "resting")
    /\ Becomes(t, IF tasks[t].cancel THEN "ended" ELSE "top")
    /\ UNCHANGED <<world, idle>>

-----------------------------------------------------------------------------
(* BlueZ, the devices and their user.                                      *)

change == changes < MaxChanges /\ changes' = changes + 1
announce(kind, d) ==
    bus' = IF discovery = "watching" THEN Append(bus, Event(kind, d)) ELSE bus

\* An object for d: found by a scan, or known from an earlier pairing.
Appear(d) ==
    /\ change /\ bluez[d] = "absent"
    /\ \E m \in {"other", "paired"} : bluez' = [bluez EXCEPT ![d] = m]
    /\ announce("added", d)
    /\ unheard' = IF discovery = "watching" \/ WillLook(d) THEN unheard ELSE unheard \cup {d}
    /\ UNCHANGED <<link, discovery, seeds, channel, managing, sessions, tasks>>

\* d is paired or its UUIDs are resolved; or they lose ours.
Update(d) ==
    /\ change /\ bluez[d] # "absent"
    /\ \E m \in {"other", "paired"} \ {bluez[d]} : bluez' = [bluez EXCEPT ![d] = m]
    /\ unheard' = IF WillLook(d) THEN unheard ELSE unheard \cup {d}
    /\ UNCHANGED <<link, idle, tasks>>

\* d is removed, as by unpairing it.
Vanish(d) ==
    /\ change /\ bluez[d] # "absent"
    /\ bluez' = [bluez EXCEPT ![d] = "absent"]
    /\ link' = link \ {d} /\ tasks' = Hung(d)
    /\ announce("removed", d)
    /\ unheard' = IF discovery = "watching" THEN unheard \ {d}
                  ELSE IF WillLook(d) THEN unheard ELSE unheard \cup {d}
    /\ UNCHANGED <<discovery, seeds, channel, managing, sessions>>

\* Out of range, or switched off.
Drop(d) ==
    /\ change /\ d \in link
    /\ link' = link \ {d} /\ tasks' = Hung(d)
    /\ UNCHANGED <<bluez, unheard, idle>>

AdapterGone(d) ==
    /\ change /\ discovery = "watching" /\ announce("gone", d)
    /\ UNCHANGED <<bluez, link, unheard, discovery, seeds, channel, managing, sessions, tasks>>

Init ==
    /\ bluez \in [Device -> Match] /\ link = {}
    /\ discovery = "seeding" /\ seeds = {d \in Device : bluez[d] # "absent"}
    /\ bus = <<>> /\ channel = <<>>
    /\ managing = FALSE /\ sessions = [d \in Device |-> None] /\ tasks = <<>>
    /\ changes = 0 /\ unheard = {}

Daemon == (\E d \in Device : Seed(d)) \/ Subscribe \/ Discover \/ Manage \/ Leave
Session(t) ==
    Top(t) \/ Connected(t) \/ Opened(t) \/ Failed(t) \/ Notice(t) \/ HungUp(t) \/ Rest(t)
World(d) == Appear(d) \/ Update(d) \/ Vanish(d) \/ Drop(d) \/ AdapterGone(d)
Next ==
    \/ Daemon \/ Fail
    \/ \E t \in DOMAIN tasks : Session(t)
    \/ \E d \in Device : World(d)

Spec == Init /\ [][Next]_vars

\* Every task is scheduled; a device that is there and can be connected to again
\* and again is connected at last, and its characteristics opened.
TaskBound == 1..Cardinality(Device \ Disabled) + MaxChanges \div 2
FairSpec ==
    /\ Spec /\ WF_vars(Daemon)
    /\ \A t \in TaskBound :
         WF_vars(Session(t)) /\ SF_vars(Connected(t)) /\ SF_vars(Opened(t))

-----------------------------------------------------------------------------
(* Properties.                                                             *)

Live(t) == tasks[t].phase # "ended"

\* A device has at most one session that is not cancelled, and that one is in
\* the manager's map while there is a manager: Remove reaches it.  A session in
\* the map is that of its device, not cancelled, and still running: Add does
\* not pass over a device that nothing serves.
OneLiveSession ==
    /\ \A t, u \in DOMAIN tasks :
         ~tasks[t].cancel /\ ~tasks[u].cancel /\ tasks[t].dev = tasks[u].dev => t = u
    /\ \A t \in DOMAIN tasks :
         managing /\ ~tasks[t].cancel => sessions[tasks[t].dev] = t
    /\ \A d \in Device : sessions[d] # None =>
         LET t == sessions[d] IN tasks[t].dev = d /\ ~tasks[t].cancel /\ Live(t)

\* Once every event is handled, the map holds the devices that are paired and
\* not disabled, but for those with a change that BlueZ announces to nobody and
\* those it failed to read when discovery looked at them last.
Settled == discovery = "watching" /\ bus = <<>> /\ channel = <<>>
MapFollowsBluez ==
    Settled => \A d \in Device \ unheard :
                 sessions[d] # None <=> bluez[d] = "paired" /\ d \notin Disabled

\* A session that is cancelled ends, also on a link where nothing happens.
CancelledEnds ==
    \A t \in TaskBound :
      (t \in DOMAIN tasks /\ tasks[t].cancel) ~> (t \in DOMAIN tasks /\ tasks[t].phase = "ended")

\* The seeding has filled the channel, and nobody has its receiver.
SeedingIsFull == discovery = "seeding" /\ Len(channel) = Capacity

\* A device that stays paired, and of which discovery was told and could read, is
\* streamed to in the end, whatever happened before: a full channel, removals and
\* returns, older sessions of the device that cut the link of the newer one.  Only
\* more seeds than the channel holds stop everything for ever.
Streamed(d) == \E t \in DOMAIN tasks :
    tasks[t].dev = d /\ ~tasks[t].cancel /\ tasks[t].phase = "streaming"
ServedInTheEnd ==
    \A d \in Device \ Disabled :
      <>[](bluez[d] = "paired" /\ d \notin unheard /\ discovery # "ended" /\ ~SeedingIsFull)
        => <>[]Streamed(d)

\* "Yields Add for ... every device that becomes paired afterwards" and Remove
\* when "its UUIDs no longer include ours" (discovery.rs).
EveryPairedDeviceIsServed ==
    Settled => \A d \in Device \ Disabled : sessions[d] # None <=> bluez[d] = "paired"
=============================================================================
