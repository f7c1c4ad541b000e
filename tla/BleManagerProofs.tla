-------------------------- MODULE BleManagerProofs --------------------------
(***************************************************************************)
(* A device never has two sessions the manager has not cancelled, and the  *)
(* map never keeps one that is over, for every set of devices, size of the *)
(* channel, and order of events, cancellations and lost links.  And once   *)
(* all events are handled the map holds the devices BlueZ has paired: what *)
(* the bus and the channel still say of a device always makes up for the   *)
(* difference between the map and BlueZ (MapInv).                          *)
(***************************************************************************)
EXTENDS BleManager, TLAPS

TaskType == [dev : Device, cancel : BOOLEAN, phase : Phase]

\* A task is over only if it was cancelled, and there is none before the manager.
EndedIsCancelled == \A t \in DOMAIN tasks : tasks[t].phase = "ended" => tasks[t].cancel
NoneBefore == discovery = "seeding" => tasks = <<>> /\ ~managing
IInv == TypeOK /\ OneLiveSession /\ EndedIsCancelled /\ NoneBefore

\* The map once a channel c is emptied: a device is added last, or not told about.
AddedLast(c, d) ==
    \E i \in 1..Len(c) : /\ c[i].dev = d /\ c[i].kind = "Add"
                         /\ \A j \in i + 1..Len(c) : c[j].dev # d
Untold(c, d) == \A i \in 1..Len(c) : c[i].dev # d
Served(d) == AddedLast(channel, d) \/ (Untold(channel, d) /\ sessions[d] # None)

\* What a bus b says of a device: nothing; at last that it is removed; only that it is added;
\* or at last that it is removed and then added.
About(evt, d) == evt.dev = d /\ evt.kind # "gone"
Silent(b, d) == \A i \in 1..Len(b) : ~About(b[i], d)
EndsRemoved(b, d) ==
    \E i \in 1..Len(b) : /\ About(b[i], d) /\ b[i].kind = "removed"
                         /\ \A j \in i + 1..Len(b) : ~About(b[j], d)
OnlyAdded(b, d) ==
    \E i \in 1..Len(b) : /\ About(b[i], d) /\ b[i].kind = "added"
                         /\ \A j \in 1..Len(b) \ {i} : ~About(b[j], d)
AddedAgain(b, d) ==
    \E i \in 1..Len(b) : \E k \in 1..i - 1 :
        /\ About(b[k], d) /\ b[k].kind = "removed"
        /\ About(b[i], d) /\ b[i].kind = "added"
        /\ \A j \in (k + 1..Len(b)) \ {i} : ~About(b[j], d)

\* Discovery is on the way to what BlueZ has: a device whose appearance it has yet to look
\* at is not served before, or a removal comes first.
Following(d) ==
    \/ Silent(bus, d) /\ (Served(d) <=> bluez[d] = "paired")
    \/ EndsRemoved(bus, d) /\ bluez[d] = "absent"
    \/ OnlyAdded(bus, d) /\ bluez[d] # "absent" /\ ~Served(d)
    \/ AddedAgain(bus, d) /\ bluez[d] # "absent"

\* The same while the list of the start is gone through, when there is no bus.
Seeding(d) == IF d \in seeds THEN ~Served(d) ELSE Served(d) <=> bluez[d] = "paired"

MapInv ==
    /\ \A d \in Disabled : sessions[d] = None
    /\ discovery = "seeding" => bus = <<>>
    /\ \A d \in Device \ (Disabled \cup unheard) :
         /\ discovery = "seeding" => Seeding(d)
         /\ discovery = "watching" => Following(d)

LEMMA TaskFields ==
  ASSUME NEW d, NEW c, NEW p
  PROVE  /\ Task(d, c, p).dev = d /\ Task(d, c, p).cancel = c /\ Task(d, c, p).phase = p
         /\ d \in Device /\ c \in BOOLEAN /\ p \in Phase => Task(d, c, p) \in TaskType
  BY DEF Task, TaskType

LEMMA Domains ==
  ASSUME TypeOK
  PROVE  /\ tasks \in Seq(TaskType)
         /\ DOMAIN tasks = 1..Len(tasks) /\ Len(tasks) \in Nat
         /\ \A t \in DOMAIN tasks : tasks[t] \in TaskType /\ tasks[t].dev \in Device
                /\ tasks[t].cancel \in BOOLEAN /\ tasks[t].phase \in Phase
<1>1. tasks \in Seq(TaskType)
  BY DEF TypeOK, TaskType
<1>2. DOMAIN tasks = 1..Len(tasks) /\ Len(tasks) \in Nat
  BY <1>1
<1>3. \A t \in DOMAIN tasks : tasks[t] \in TaskType
  BY <1>1
<1> QED
  BY <1>1, <1>2, <1>3 DEF TaskType

\* A sequence that a function over the same tasks makes is one of tasks.
LEMMA SameTasks ==
  ASSUME TypeOK, NEW s, s = [t \in DOMAIN tasks |-> s[t]],
         \A t \in DOMAIN tasks : s[t] \in TaskType
  PROVE  s \in Seq(TaskType) /\ DOMAIN s = DOMAIN tasks
<1>1. DOMAIN s = 1..Len(tasks) /\ DOMAIN tasks = 1..Len(tasks) /\ Len(tasks) \in Nat
  BY Domains
<1>2. s \in [1..Len(tasks) -> TaskType]
  BY <1>1
<1> QED
  BY <1>1, <1>2

-----------------------------------------------------------------------------
LEMMA InitHolds == Init => IInv
<1> SUFFICES ASSUME Init PROVE IInv
  OBVIOUS
<1>1. TypeOK
  <2>1. <<>> \in Seq(AdapterEvent) /\ <<>> \in Seq(DeviceEvent) /\ <<>> \in Seq(TaskType)
    OBVIOUS
  <2>2. sessions \in [Device -> {None} \cup DOMAIN tasks]
    BY DEF Init
  <2>3. seeds \in SUBSET Device
    BY DEF Init
  <2> QED
    BY <2>1, <2>2, <2>3 DEF Init, TypeOK, TaskType
<1>2. DOMAIN tasks = {} /\ \A d \in Device : sessions[d] = None
  BY DEF Init
<1>3. OneLiveSession
  BY <1>2 DEF OneLiveSession
<1> QED
  BY <1>1, <1>2, <1>3 DEF IInv, EndedIsCancelled, NoneBefore, Init

\* A step that only moves tasks on keeps the invariant.
LEMMA PhaseStep ==
  ASSUME IInv, tasks' = [t \in DOMAIN tasks |-> tasks'[t]],
         \A t \in DOMAIN tasks : \E p \in Phase :
            tasks'[t] = Moved(t, p) /\ (p = "ended" => tasks[t].cancel),
         UNCHANGED <<sessions, managing>>, discovery' = discovery,
         bluez' \in [Device -> Match], link' \in SUBSET Device, UNCHANGED seeds,
         bus' \in Seq(AdapterEvent),
         UNCHANGED channel, changes' \in Nat, unheard' \in SUBSET Device
  PROVE  IInv'
<1>1. \A t \in DOMAIN tasks : tasks'[t] \in TaskType /\ tasks'[t].dev = tasks[t].dev
        /\ tasks'[t].cancel = tasks[t].cancel
        /\ (tasks'[t].phase = "ended" => tasks[t].cancel)
  BY Domains, TaskFields DEF IInv, Moved
<1>2. tasks' \in Seq(TaskType) /\ DOMAIN tasks' = DOMAIN tasks
  BY <1>1, SameTasks DEF IInv
<1>3. TypeOK'
  BY <1>2 DEF IInv, TypeOK, TaskType
<1>4. OneLiveSession'
  <2>1. \A d \in Device : sessions[d] # None => sessions[d] \in DOMAIN tasks
    BY DEF IInv, TypeOK
  <2>2. \A d \in Device : sessions'[d] # None =>
          tasks'[sessions'[d]].dev = d /\ ~tasks'[sessions'[d]].cancel
            /\ tasks'[sessions'[d]].phase # "ended"
    BY <1>1, <2>1 DEF IInv, OneLiveSession, Live
  <2> QED
    BY <1>1, <1>2, <2>2 DEF IInv, OneLiveSession, Live
<1>5. EndedIsCancelled'
  BY <1>1, <1>2 DEF EndedIsCancelled
<1>6. NoneBefore'
  <2>1. tasks = <<>> => tasks' = <<>>
    BY <1>2, Domains DEF IInv
  <2> QED
    BY <2>1 DEF IInv, NoneBefore
<1> QED
  BY <1>3, <1>4, <1>5, <1>6 DEF IInv

\* A step that leaves tasks, map and manager alone keeps the invariant.
LEMMA QuietStep ==
  ASSUME IInv, UNCHANGED <<tasks, sessions, managing>>,
         discovery' \in {"seeding", "watching", "ended"},
         discovery' = "seeding" => discovery = "seeding",
         bluez' \in [Device -> Match], link' \in SUBSET Device, seeds' \in SUBSET Device,
         bus' \in Seq(AdapterEvent),
         channel' \in Seq(DeviceEvent),
         changes' \in Nat, unheard' \in SUBSET Device
  PROVE  IInv'
<1>1. TypeOK'
  BY DEF IInv, TypeOK
<1>2. OneLiveSession'
  BY DEF IInv, OneLiveSession, Live
<1> QED
  BY <1>1, <1>2 DEF IInv, EndedIsCancelled, NoneBefore

LEMMA HeadTail ==
  ASSUME NEW S, NEW s \in Seq(S), s # <<>>
  PROVE  Head(s) \in S /\ Tail(s) \in Seq(S)
  OBVIOUS

LEMMA SendType ==
  ASSUME IInv, NEW d \in Device, NEW kind \in {"Add", "Remove"},
         send(kind, d) \/ UNCHANGED channel
  PROVE  channel' \in Seq(DeviceEvent)
<1>1. Event(kind, d) \in DeviceEvent
  BY DEF Event, DeviceEvent
<1>2. channel \in Seq(DeviceEvent)
  BY DEF IInv, TypeOK
<1> QED
  BY <1>1, <1>2 DEF send

\* A look sends at most that the device is there. It has not sent it for a device that is
\* paired only where it will be looked at again, or is unheard from now on.
LEMMA Looked ==
  ASSUME IInv, NEW d \in Device, NEW again \in BOOLEAN, Look(d, again)
  PROVE  /\ channel' \in Seq(DeviceEvent) /\ unheard' \in SUBSET Device
         /\ unheard \subseteq unheard' /\ unheard' \subseteq unheard \cup {d}
         /\ \/ send("Add", d) /\ bluez[d] = "paired"
            \/ UNCHANGED channel /\ (bluez[d] # "paired" \/ again \/ d \in unheard')
<1>1. PICK found \in matches_service(d) :
        /\ IF found THEN send("Add", d) ELSE UNCHANGED channel
        /\ unheard' = IF found \/ bluez[d] # "paired" \/ again THEN unheard ELSE unheard \cup {d}
  BY DEF Look
<1>2. found \in BOOLEAN /\ (found => bluez[d] = "paired")
  BY <1>1 DEF matches_service
<1>3. channel' \in Seq(DeviceEvent)
  BY <1>1, SendType
<1>4. unheard \in SUBSET Device
  BY DEF IInv, TypeOK
<1> QED
  BY <1>1, <1>2, <1>3, <1>4

LEMMA DiscoveryKeeps ==
  ASSUME IInv, (\E d \in Device : Seed(d)) \/ Fail \/ Discover PROVE IInv'
<1>1. CASE \E d \in Device : Seed(d)
  <2>1. PICK d \in Device : Seed(d)
    BY <1>1
  <2>2. channel' \in Seq(DeviceEvent) /\ unheard' \in SUBSET Device
    BY <2>1, Looked DEF Seed
  <2> QED
    BY <2>1, <2>2, QuietStep DEF Seed, devices, IInv, TypeOK
<1>2. CASE Fail
  BY <1>2, QuietStep DEF Fail, world, devices, IInv, TypeOK
<1>3. CASE Discover
  <2>1. Head(bus).dev \in Device /\ Tail(bus) \in Seq(AdapterEvent)
    <3>1. Head(bus) \in AdapterEvent /\ Tail(bus) \in Seq(AdapterEvent)
      BY <1>3, HeadTail DEF Discover, IInv, TypeOK
    <3> QED
      BY <3>1 DEF AdapterEvent
  <2>3. channel' \in Seq(DeviceEvent) /\ unheard' \in SUBSET Device
    <3>1. CASE Head(bus).kind = "added"
      <4>1. Look(Head(bus).dev, Announced(Tail(bus), Head(bus).dev))
        BY <1>3, <3>1 DEF Discover, Take
      <4>2. Announced(Tail(bus), Head(bus).dev) \in BOOLEAN
        BY DEF Announced
      <4> QED
        BY <2>1, <4>1, <4>2, Looked
    <3>2. CASE Head(bus).kind = "removed"
      BY <1>3, <2>1, <3>2, SendType DEF Discover, Take, TakeRemoved, IInv, TypeOK
    <3>3. CASE Head(bus).kind # "added" /\ Head(bus).kind # "removed"
      BY <1>3, <3>3 DEF Discover, Take, IInv, TypeOK
    <3> QED
      BY <3>1, <3>2, <3>3
  <2>4. discovery' \in {"watching", "ended"}
    BY <1>3 DEF Discover
  <2> QED
    BY <1>3, <2>1, <2>3, <2>4, QuietStep DEF Discover, devices, IInv, TypeOK
<1> QED
  BY <1>1, <1>2, <1>3

LEMMA SubscribeKeeps == ASSUME IInv, Subscribe PROVE IInv'
<1>1. DOMAIN tasks = {} /\ tasks' = tasks /\ sessions' = sessions
  BY DEF Subscribe, IInv, NoneBefore
<1>2. TypeOK'
  BY DEF Subscribe, IInv, TypeOK, world, devices
<1>3. OneLiveSession'
  <2>1. \A d \in Device : sessions'[d] = None
    BY <1>1 DEF IInv, TypeOK
  <2> QED
    BY <1>1, <2>1 DEF OneLiveSession
<1> QED
  BY <1>1, <1>2, <1>3 DEF IInv, EndedIsCancelled, NoneBefore, Subscribe

LEMMA LeaveKeeps == ASSUME IInv, Leave PROVE IInv'
<1>1. \A d \in Device : sessions'[d] = None
  BY DEF Leave
<1>2. TypeOK'
  BY DEF Leave, IInv, TypeOK, world, devices, finding, None
<1>3. OneLiveSession'
  BY <1>1 DEF Leave, IInv, OneLiveSession
<1> QED
  BY <1>2, <1>3 DEF IInv, EndedIsCancelled, NoneBefore, Leave, finding

-----------------------------------------------------------------------------
\* A device without a session gets one: no other of its tasks is uncancelled.
LEMMA AddKeeps ==
  ASSUME IInv, Manage, NEW d \in Device, Add(d) PROVE IInv'
<1> USE DEF IInv
<1>1. CASE UNCHANGED <<sessions, tasks>>
  <2>1. channel' \in Seq(DeviceEvent)
    BY DEF Manage, TypeOK
  <2> QED
    BY <1>1, <2>1, QuietStep DEF Manage, world, devices, finding, TypeOK
<1>2. CASE ~UNCHANGED <<sessions, tasks>>
  <2> DEFINE n == Len(tasks) + 1
             new == Task(d, FALSE, "top")
  <2>1. /\ sessions[d] = None
        /\ tasks' = Append(tasks, new) /\ sessions' = [sessions EXCEPT ![d] = n]
    BY <1>2 DEF Add, HasSession
  <2>2. new \in TaskType /\ new.dev = d /\ ~new.cancel /\ new.phase = "top"
    BY DEF Phase, Task, TaskType
  <2> HIDE DEF new
  <2>3. /\ tasks' \in Seq(TaskType) /\ DOMAIN tasks' = DOMAIN tasks \cup {n}
        /\ n \notin DOMAIN tasks /\ tasks'[n] = new /\ n # None
        /\ \A t \in DOMAIN tasks : tasks'[t] = tasks[t]
    BY <2>1, <2>2, Domains DEF None
  <2>4. /\ sessions \in [Device -> {None} \cup DOMAIN tasks]
        /\ sessions' \in [Device -> {None} \cup DOMAIN tasks']
        /\ sessions'[d] = n /\ \A e \in Device \ {d} : sessions'[e] = sessions[e]
    BY <2>1, <2>3 DEF TypeOK
  <2>5. TypeOK'
    BY <2>3, <2>4 DEF Manage, TypeOK, TaskType, world, devices, finding
  <2>6. \A t \in DOMAIN tasks : ~tasks[t].cancel => tasks[t].dev # d /\ t # None
    <3>1. managing
      BY DEF Manage
    <3>2. \A t \in DOMAIN tasks : t # None
      BY Domains DEF None
    <3> QED
      BY <2>1, <3>1, <3>2 DEF OneLiveSession
  <2>7. OneLiveSession'
    <3>1. \A t, u \in DOMAIN tasks' : ~tasks'[t].cancel /\ ~tasks'[u].cancel
             /\ tasks'[t].dev = tasks'[u].dev => t = u
      BY <2>2, <2>3, <2>6 DEF OneLiveSession
    <3>2. \A t \in DOMAIN tasks' : managing' /\ ~tasks'[t].cancel => sessions'[tasks'[t].dev] = t
      <4>1. ASSUME NEW t \in DOMAIN tasks, ~tasks[t].cancel PROVE sessions'[tasks[t].dev] = t
        <5>1. tasks[t].dev \in Device \ {d}
          BY <2>6, <4>1, Domains
        <5>2. sessions[tasks[t].dev] = t
          BY <4>1 DEF OneLiveSession, Manage
        <5> QED
          BY <2>4, <5>1, <5>2
      <4> QED
        BY <2>2, <2>3, <2>4, <4>1
    <3>3. ASSUME NEW e \in Device, sessions'[e] # None
          PROVE  tasks'[sessions'[e]].dev = e /\ ~tasks'[sessions'[e]].cancel
                   /\ tasks'[sessions'[e]].phase # "ended"
      <4>1. CASE e = d
        BY <2>2, <2>3, <2>4, <4>1
      <4>2. CASE e # d
        BY <2>3, <2>4, <3>3, <4>2 DEF OneLiveSession, Live
      <4> QED
        BY <4>1, <4>2
    <3> QED
      BY <3>1, <3>2, <3>3 DEF OneLiveSession, Live
  <2>8. EndedIsCancelled'
    BY <2>2, <2>3 DEF EndedIsCancelled
  <2>9. NoneBefore'
    <3>1. discovery # "seeding"
      BY DEF Manage, NoneBefore
    <3> QED
      BY <3>1 DEF NoneBefore, Manage, finding
  <2> QED
    BY <2>5, <2>7, <2>8, <2>9
<1> QED
  BY <1>1, <1>2

\* The session of the map leaves it and is cancelled.
LEMMA RemoveKeeps ==
  ASSUME IInv, Manage, NEW d \in Device, Remove(d) PROVE IInv'
<1> USE DEF IInv
<1>1. \A t \in DOMAIN tasks :
        tasks'[t] = IF t = sessions[d] THEN Cancelled(t) ELSE tasks[t]
  BY DEF Remove
<1>2. \A t \in DOMAIN tasks :
        /\ tasks'[t] \in TaskType /\ tasks'[t].dev = tasks[t].dev
        /\ tasks'[t].phase = tasks[t].phase
        /\ tasks'[t].cancel <=> tasks[t].cancel \/ t = sessions[d]
  <2>1. ASSUME NEW t \in DOMAIN tasks, t = sessions[d]
        PROVE  tasks'[t] \in TaskType /\ tasks'[t].dev = tasks[t].dev
                 /\ tasks'[t].phase = tasks[t].phase /\ tasks'[t].cancel
    <3>1. tasks'[t] = [dev |-> tasks[t].dev, cancel |-> TRUE, phase |-> tasks[t].phase]
      BY <1>1, <2>1 DEF Cancelled, Task
    <3>2. tasks[t].dev \in Device /\ tasks[t].phase \in Phase
      BY Domains
    <3>3. tasks'[t] \in TaskType
      BY <3>1, <3>2 DEF TaskType
    <3> QED
      BY <3>1, <3>3
  <2> QED
    BY <1>1, <2>1, Domains
<1>3. tasks' \in Seq(TaskType) /\ DOMAIN tasks' = DOMAIN tasks
  BY <1>2, SameTasks DEF Remove
<1>4. /\ sessions' \in [Device -> {None} \cup DOMAIN tasks] /\ sessions'[d] = None
      /\ \A e \in Device \ {d} : sessions'[e] = sessions[e]
  BY DEF Remove, TypeOK
<1>5. TypeOK'
  <2>1. channel' \in Seq(DeviceEvent)
    BY DEF Manage, TypeOK
  <2> QED
    BY <1>3, <1>4, <2>1 DEF Manage, TypeOK, TaskType, world, devices, finding
<1>6. OneLiveSession'
  <2>1. \A t, u \in DOMAIN tasks' : ~tasks'[t].cancel /\ ~tasks'[u].cancel
           /\ tasks'[t].dev = tasks'[u].dev => t = u
    BY <1>2, <1>3 DEF OneLiveSession
  <2>2. ASSUME NEW t \in DOMAIN tasks', managing', ~tasks'[t].cancel
        PROVE  sessions'[tasks'[t].dev] = t
    <3>1. ~tasks[t].cancel /\ t # sessions[d] /\ t \in DOMAIN tasks
      BY <1>2, <1>3, <2>2
    <3>2. sessions[tasks[t].dev] = t /\ tasks[t].dev \in Device
      BY <3>1, Domains DEF OneLiveSession, Manage
    <3>3. tasks[t].dev # d
      BY <3>1, <3>2
    <3> QED
      BY <1>2, <1>4, <3>1, <3>2, <3>3
  <2>3. ASSUME NEW e \in Device, sessions'[e] # None
        PROVE  tasks'[sessions'[e]].dev = e /\ ~tasks'[sessions'[e]].cancel
                 /\ tasks'[sessions'[e]].phase # "ended"
    <3>1. e # d /\ sessions'[e] = sessions[e] /\ sessions[e] \in DOMAIN tasks
      BY <1>4, <2>3
    <3>2. tasks[sessions[e]].dev = e /\ ~tasks[sessions[e]].cancel
            /\ tasks[sessions[e]].phase # "ended"
      BY <2>3, <3>1 DEF OneLiveSession, Live
    <3>3. sessions[e] # sessions[d]
      <4>1. CASE sessions[d] = None
        BY <2>3, <3>1, <4>1
      <4>2. CASE sessions[d] # None
        BY <3>1, <3>2, <4>2 DEF OneLiveSession
      <4> QED
        BY <4>1, <4>2
    <3> QED
      BY <1>2, <3>1, <3>2, <3>3
  <2> QED
    BY <2>1, <2>2, <2>3 DEF OneLiveSession, Live
<1>7. EndedIsCancelled'
  BY <1>2, <1>3 DEF EndedIsCancelled
<1>8. NoneBefore'
  <2>1. discovery # "seeding"
    BY DEF Manage, NoneBefore
  <2> QED
    BY <2>1 DEF NoneBefore, Manage, finding
<1> QED
  BY <1>5, <1>6, <1>7, <1>8

LEMMA ManageKeeps == ASSUME IInv, Manage PROVE IInv'
<1>1. Head(channel).dev \in Device
  <2>1. Head(channel) \in DeviceEvent
    BY HeadTail DEF Manage, IInv, TypeOK
  <2> QED
    BY <2>1 DEF DeviceEvent
<1>2. CASE Head(channel).kind = "Add"
  BY <1>1, <1>2, AddKeeps DEF Manage
<1>3. CASE Head(channel).kind # "Add"
  BY <1>1, <1>3, RemoveKeeps DEF Manage
<1> QED
  BY <1>2, <1>3

-----------------------------------------------------------------------------
\* One task moves on.
LEMMA BecomesStep ==
  ASSUME IInv, NEW t \in DOMAIN tasks, NEW p \in Phase, Becomes(t, p),
         p = "ended" => tasks[t].cancel, UNCHANGED idle, UNCHANGED <<bluez, changes, unheard>>,
         link' \in SUBSET Device
  PROVE  IInv'
<1>1. tasks' = [u \in DOMAIN tasks |-> tasks'[u]]
  BY DEF Becomes
<1>2. ASSUME NEW u \in DOMAIN tasks
      PROVE \E q \in Phase : tasks'[u] = Moved(u, q) /\ (q = "ended" => tasks[u].cancel)
  <2>1. CASE u = t
    BY <2>1 DEF Becomes
  <2>2. CASE u # t
    <3>1. tasks'[u] = tasks[u]
      BY <2>2 DEF Becomes
    <3>2. tasks[u] = Moved(u, tasks[u].phase) /\ tasks[u].phase \in Phase
      BY Domains DEF IInv, Moved, Task, TaskType
    <3> QED
      BY <3>1, <3>2 DEF IInv, EndedIsCancelled
  <2> QED
    BY <2>1, <2>2
<1> QED
  BY <1>1, <1>2, PhaseStep DEF idle, finding, IInv, TypeOK

\* A link is lost: its tasks are cut, one of them may move on by itself.
LEMMA HungStep ==
  ASSUME IInv, NEW d \in Device, tasks' = [t \in DOMAIN tasks |-> tasks'[t]],
         \A u \in DOMAIN tasks : tasks'[u] = Hung(d)[u] \/ tasks'[u] = Moved(u, "resting"),
         UNCHANGED <<discovery, seeds, channel, managing, sessions>>,
         bluez' \in [Device -> Match], link' \in SUBSET Device,
         bus' \in Seq(AdapterEvent),
         changes' \in Nat, unheard' \in SUBSET Device
  PROVE  IInv'
<1>1. ASSUME NEW u \in DOMAIN tasks
      PROVE \E q \in Phase : tasks'[u] = Moved(u, q) /\ (q = "ended" => tasks[u].cancel)
  <2>1. Hung(d)[u] = Moved(u, "cut") \/ Hung(d)[u] = tasks[u]
    BY DEF Hung
  <2>2. tasks[u] = Moved(u, tasks[u].phase) /\ tasks[u].phase \in Phase
    BY Domains DEF IInv, Moved, Task, TaskType
  <2>3. tasks[u].phase = "ended" => tasks[u].cancel
    BY DEF IInv, EndedIsCancelled
  <2>4. "cut" \in Phase /\ "resting" \in Phase
    BY DEF Phase
  <2> QED
    BY <2>1, <2>2, <2>3, <2>4
<1> QED
  BY <1>1, PhaseStep

LEMMA SessionKeeps ==
  ASSUME IInv, NEW t \in DOMAIN tasks, Session(t) PROVE IInv'
<1> tasks[t].dev \in Device /\ tasks[t].cancel \in BOOLEAN
  BY Domains DEF IInv
<1>1. CASE Top(t)
  <2>1. CASE tasks[t].cancel
    BY <1>1, <2>1, BecomesStep DEF Top, Phase, world, devices, IInv, TypeOK
  <2>2. CASE ~tasks[t].cancel
    BY <1>1, <2>2, BecomesStep DEF Top, Phase, world, devices, IInv, TypeOK
  <2> QED
    BY <2>1, <2>2
<1>2. CASE Connected(t)
  BY <1>2, BecomesStep DEF Connected, Phase, IInv, TypeOK
<1>3. CASE Opened(t)
  BY <1>3, BecomesStep DEF Opened, Phase, world, devices, IInv, TypeOK
<1>4. CASE Failed(t)
  BY <1>4, BecomesStep DEF Failed, Phase, world, devices, IInv, TypeOK
<1>5. CASE Notice(t)
  <2> DEFINE d == tasks[t].dev
  <2>1. tasks' = [u \in DOMAIN tasks |-> tasks'[u]]
    BY <1>5 DEF Notice, Hung
  <2>2. \A u \in DOMAIN tasks : tasks'[u] = Hung(d)[u] \/ tasks'[u] = Moved(u, "resting")
    BY <1>5 DEF Notice, Hung
  <2> QED
    BY <1>5, <2>1, <2>2, HungStep DEF Notice, idle, finding, IInv, TypeOK
<1>6. CASE HungUp(t)
  BY <1>6, BecomesStep DEF HungUp, Phase, world, devices, IInv, TypeOK
<1>7. CASE Rest(t)
  <2>1. CASE tasks[t].cancel
    BY <1>7, <2>1, BecomesStep DEF Rest, Phase, world, devices, IInv, TypeOK
  <2>2. CASE ~tasks[t].cancel
    BY <1>7, <2>2, BecomesStep DEF Rest, Phase, world, devices, IInv, TypeOK
  <2> QED
    BY <2>1, <2>2
<1> QED
  BY <1>1, <1>2, <1>3, <1>4, <1>5, <1>6, <1>7 DEF Session

LEMMA AnnounceType ==
  ASSUME IInv, NEW d \in Device, NEW kind \in {"added", "removed", "gone"}, announce(kind, d)
  PROVE  bus' \in Seq(AdapterEvent)
<1>1. Event(kind, d) \in AdapterEvent
  BY DEF Event, AdapterEvent
<1>2. bus \in Seq(AdapterEvent)
  BY DEF IInv, TypeOK
<1> QED
  BY <1>1, <1>2 DEF announce

LEMMA WorldKeeps ==
  ASSUME IInv, NEW d \in Device, World(d) PROVE IInv'
<1>0. change => changes' \in Nat
  BY DEF change, IInv, TypeOK
<1>1. CASE Appear(d)
  <2>1. bluez' \in [Device -> Match]
    BY <1>1 DEF Appear, IInv, TypeOK, Match
  <2> QED
    BY <1>0, <1>1, <2>1, AnnounceType, QuietStep DEF Appear, IInv, TypeOK
<1>2. CASE Update(d)
  <2>1. bluez' \in [Device -> Match]
    BY <1>2 DEF Update, IInv, TypeOK, Match
  <2> QED
    BY <1>0, <1>2, <2>1, QuietStep DEF Update, IInv, TypeOK, idle, finding
<1>3. CASE Vanish(d)
  <2>1. bluez' \in [Device -> Match] /\ link' \in SUBSET Device
    BY <1>3 DEF Vanish, IInv, TypeOK, Match
  <2>2. tasks' = [u \in DOMAIN tasks |-> tasks'[u]] /\ tasks' = Hung(d)
    BY <1>3 DEF Vanish, Hung
  <2>3. unheard' \in SUBSET Device
    BY <1>3 DEF Vanish, IInv, TypeOK
  <2>4. bus' \in Seq(AdapterEvent)
    BY <1>3, AnnounceType DEF Vanish
  <2> QED
    BY <1>0, <1>3, <2>1, <2>2, <2>3, <2>4, HungStep DEF Vanish
<1>4. CASE Drop(d)
  <2>1. tasks' = [u \in DOMAIN tasks |-> tasks'[u]] /\ tasks' = Hung(d)
    BY <1>4 DEF Drop, Hung
  <2> QED
    BY <1>0, <1>4, <2>1, HungStep DEF Drop, IInv, TypeOK, idle, finding
<1>5. CASE AdapterGone(d)
  BY <1>0, <1>5, AnnounceType, QuietStep DEF AdapterGone, IInv, TypeOK
<1> QED
  BY <1>1, <1>2, <1>3, <1>4, <1>5 DEF World

LEMMA StepKeeps == IInv /\ [Next]_vars => IInv'
<1> SUFFICES ASSUME IInv, [Next]_vars PROVE IInv'
  OBVIOUS
<1>1. CASE Daemon \/ Fail
  BY <1>1, DiscoveryKeeps, SubscribeKeeps, LeaveKeeps, ManageKeeps DEF Daemon
<1>2. CASE \E t \in DOMAIN tasks : Session(t)
  BY <1>2, SessionKeeps
<1>3. CASE \E d \in Device : World(d)
  BY <1>3, WorldKeeps
<1>4. CASE UNCHANGED vars
  BY <1>4, QuietStep DEF vars, world, devices, finding, IInv, TypeOK
<1> QED
  BY <1>1, <1>2, <1>3, <1>4 DEF Next

\* The strengthening of the theorems below is inductive.
THEOREM ManagerInvariant == Spec => []IInv
<1> QED
  BY InitHolds, StepKeeps, PTL DEF Spec

\* Every variable keeps its type.
THEOREM TypeCorrect == Spec => []TypeOK
<1>1. IInv => TypeOK
  BY DEF IInv
<1> QED
  BY <1>1, ManagerInvariant, PTL

\* At most one session of a device is not cancelled, Remove reaches it, and no
\* session in the map is over.
THEOREM OneSessionPerDevice == Spec => []OneLiveSession
<1>1. IInv => OneLiveSession
  BY DEF IInv
<1> QED
  BY <1>1, ManagerInvariant, PTL

-----------------------------------------------------------------------------
(* The map follows BlueZ.                                                  *)

LEMMA Appended ==
  ASSUME NEW S, NEW s \in Seq(S), NEW e \in S
  PROVE  /\ Append(s, e) \in Seq(S) /\ Len(Append(s, e)) = Len(s) + 1 /\ Len(s) \in Nat
         /\ Append(s, e)[Len(s) + 1] = e
         /\ \A i \in 1..Len(s) : Append(s, e)[i] = s[i]
  OBVIOUS

LEMMA Shifted ==
  ASSUME NEW S, NEW s \in Seq(S), s # <<>>
  PROVE  /\ Tail(s) \in Seq(S) /\ Len(s) = Len(Tail(s)) + 1 /\ Len(Tail(s)) \in Nat
         /\ Head(s) = s[1]
         /\ \A i \in 1..Len(Tail(s)) : Tail(s)[i] = s[i + 1]
  OBVIOUS

\* What a message more says of the device.
LEMMA ToldAppend ==
  ASSUME NEW c \in Seq(DeviceEvent), NEW evt \in DeviceEvent, NEW d \in Device
  PROVE  /\ evt.dev = d => /\ AddedLast(Append(c, evt), d) <=> evt.kind = "Add"
                           /\ ~Untold(Append(c, evt), d)
         /\ evt.dev # d => /\ AddedLast(Append(c, evt), d) <=> AddedLast(c, d)
                           /\ Untold(Append(c, evt), d) <=> Untold(c, d)
<1>1. PICK n, s : n = Len(c) /\ s = Append(c, evt)
  OBVIOUS
<1>2. /\ n \in Nat /\ Len(s) = n + 1 /\ s[n + 1] = evt
      /\ \A i \in 1..n : s[i] = c[i]
  BY <1>1, Appended
<1>3. Untold(s, d) <=> Untold(c, d) /\ evt.dev # d
  BY <1>1, <1>2 DEF Untold
<1>4. CASE evt.dev = d
  <2>1. AddedLast(s, d) <=> evt.kind = "Add"
    BY <1>1, <1>2, <1>4 DEF AddedLast
  <2> QED
    BY <1>1, <1>3, <1>4, <2>1
<1>5. CASE evt.dev # d
  <2>1. ASSUME AddedLast(s, d) PROVE AddedLast(c, d)
    <3>1. PICK i \in 1..n + 1 : s[i].dev = d /\ s[i].kind = "Add" /\ \A j \in i + 1..n + 1 : s[j].dev # d
      BY <1>2, <2>1 DEF AddedLast
    <3>2. i \in 1..n /\ \A j \in i + 1..n : s[j].dev # d
      BY <1>2, <1>5, <3>1
    <3>3. c[i].dev = d /\ c[i].kind = "Add" /\ \A j \in i + 1..n : c[j].dev # d
      BY <1>2, <3>1, <3>2
    <3> QED
      BY <1>1, <3>2, <3>3 DEF AddedLast
  <2>2. ASSUME AddedLast(c, d) PROVE AddedLast(s, d)
    <3>1. PICK i \in 1..n : c[i].dev = d /\ c[i].kind = "Add" /\ \A j \in i + 1..n : c[j].dev # d
      BY <1>1, <2>2 DEF AddedLast
    <3>2. \A j \in i + 1..n + 1 : s[j].dev # d
      BY <1>2, <1>5, <3>1
    <3>3. i \in 1..n + 1 /\ s[i] = c[i]
      BY <1>2
    <3> QED
      BY <1>2, <3>1, <3>2, <3>3 DEF AddedLast
  <2> QED
    BY <1>1, <1>3, <1>5, <2>1, <2>2
<1> QED
  BY <1>4, <1>5

\* What is left of it when the first message is taken.
LEMMA ToldTail ==
  ASSUME NEW c \in Seq(DeviceEvent), c # <<>>, NEW d \in Device
  PROVE  /\ Head(c).dev = d => /\ ~Untold(c, d)
                               /\ AddedLast(c, d) <=> \/ AddedLast(Tail(c), d)
                                                      \/ Untold(Tail(c), d) /\ Head(c).kind = "Add"
         /\ Head(c).dev # d => /\ AddedLast(c, d) <=> AddedLast(Tail(c), d)
                               /\ Untold(c, d) <=> Untold(Tail(c), d)
<1>1. PICK n, s, evt : n = Len(Tail(c)) /\ s = Tail(c) /\ evt = Head(c)
  OBVIOUS
<1>2. /\ n \in Nat /\ Len(c) = n + 1 /\ Len(s) = n /\ c[1] = evt
      /\ \A i \in 1..n : s[i] = c[i + 1]
  BY <1>1, Shifted
<1>3. \A i \in 2..n + 1 : i - 1 \in 1..n /\ c[i] = s[i - 1]
  BY <1>2
<1>4. Untold(c, d) <=> Untold(s, d) /\ evt.dev # d
  <2>1. Untold(c, d) => Untold(s, d) /\ evt.dev # d
    BY <1>2 DEF Untold
  <2>2. Untold(s, d) /\ evt.dev # d => Untold(c, d)
    <3> SUFFICES ASSUME Untold(s, d), evt.dev # d, NEW i \in 1..n + 1 PROVE c[i].dev # d
      BY <1>2 DEF Untold
    <3>1. CASE i = 1
      BY <1>2, <3>1
    <3>2. CASE i # 1
      BY <1>2, <1>3, <3>2 DEF Untold
    <3> QED
      BY <3>1, <3>2
  <2> QED
    BY <2>1, <2>2
<1>5. ASSUME AddedLast(c, d) PROVE AddedLast(s, d) \/ (Untold(s, d) /\ evt.dev = d /\ evt.kind = "Add")
  <2>1. PICK i \in 1..n + 1 : c[i].dev = d /\ c[i].kind = "Add" /\ \A j \in i + 1..n + 1 : c[j].dev # d
    BY <1>2, <1>5 DEF AddedLast
  <2>2. CASE i = 1
    <3>1. \A j \in 1..n : s[j].dev # d
      BY <1>2, <2>1, <2>2
    <3> QED
      BY <1>2, <2>1, <2>2, <3>1 DEF Untold
  <2>3. CASE i # 1
    <3>1. i - 1 \in 1..n /\ c[i] = s[i - 1]
      BY <1>2, <1>3, <2>3
    <3>2. \A j \in (i - 1) + 1..n : j + 1 \in i + 1..n + 1 /\ s[j] = c[j + 1]
      BY <1>2, <3>1
    <3> QED
      BY <1>2, <2>1, <3>1, <3>2 DEF AddedLast
  <2> QED
    BY <2>2, <2>3
<1>6. ASSUME AddedLast(s, d) PROVE AddedLast(c, d)
  <2>1. PICK i \in 1..n : s[i].dev = d /\ s[i].kind = "Add" /\ \A j \in i + 1..n : s[j].dev # d
    BY <1>2, <1>6 DEF AddedLast
  <2>2. i + 1 \in 1..n + 1 /\ c[i + 1] = s[i]
    BY <1>2
  <2>3. \A j \in (i + 1) + 1..n + 1 : j - 1 \in i + 1..n /\ c[j] = s[j - 1]
    BY <1>2, <1>3
  <2> QED
    BY <1>2, <2>1, <2>2, <2>3 DEF AddedLast
<1>7. ASSUME Untold(s, d), evt.dev = d, evt.kind = "Add" PROVE AddedLast(c, d)
  <2>1. \A j \in 1 + 1..n + 1 : c[j].dev # d
    BY <1>2, <1>3, <1>7 DEF Untold
  <2>2. 1 \in 1..n + 1
    BY <1>2
  <2> QED
    BY <1>2, <1>7, <2>1, <2>2 DEF AddedLast
<1> QED
  BY <1>1, <1>4, <1>5, <1>6, <1>7

\* What an event more says of the device.
LEMMA BusAppend ==
  ASSUME NEW b \in Seq(AdapterEvent), NEW evt \in AdapterEvent, NEW d \in Device
  PROVE  /\ ~About(evt, d) =>
              /\ Silent(b, d) => Silent(Append(b, evt), d)
              /\ EndsRemoved(b, d) => EndsRemoved(Append(b, evt), d)
              /\ OnlyAdded(b, d) => OnlyAdded(Append(b, evt), d)
              /\ AddedAgain(b, d) => AddedAgain(Append(b, evt), d)
         /\ About(evt, d) /\ evt.kind = "removed" => EndsRemoved(Append(b, evt), d)
         /\ About(evt, d) /\ evt.kind = "added" =>
              /\ Silent(b, d) => OnlyAdded(Append(b, evt), d)
              /\ EndsRemoved(b, d) => AddedAgain(Append(b, evt), d)
<1>1. PICK n, s : n = Len(b) /\ s = Append(b, evt)
  OBVIOUS
<1>2. /\ n \in Nat /\ Len(s) = n + 1 /\ s[n + 1] = evt
      /\ \A i \in 1..n : s[i] = b[i]
  BY <1>1, Appended
<1>3. \A i \in 1..n + 1 : i \in 1..n \/ i = n + 1
  BY <1>2
<1>4. CASE ~About(evt, d)
  <2>1. Silent(b, d) => Silent(s, d)
    BY <1>1, <1>2, <1>3, <1>4 DEF Silent
  <2>2. ASSUME EndsRemoved(b, d) PROVE EndsRemoved(s, d)
    <3>1. PICK i \in 1..n : About(b[i], d) /\ b[i].kind = "removed" /\ \A j \in i + 1..n : ~About(b[j], d)
      BY <1>1, <2>2 DEF EndsRemoved
    <3>2. i \in 1..n + 1 /\ s[i] = b[i] /\ \A j \in i + 1..n + 1 : ~About(s[j], d)
      BY <1>2, <1>3, <1>4, <3>1
    <3> QED
      BY <1>2, <3>1, <3>2 DEF EndsRemoved
  <2>3. ASSUME OnlyAdded(b, d) PROVE OnlyAdded(s, d)
    <3>1. PICK i \in 1..n : About(b[i], d) /\ b[i].kind = "added" /\ \A j \in 1..n \ {i} : ~About(b[j], d)
      BY <1>1, <2>3 DEF OnlyAdded
    <3>2. i \in 1..n + 1 /\ s[i] = b[i] /\ \A j \in 1..n + 1 \ {i} : ~About(s[j], d)
      BY <1>2, <1>3, <1>4, <3>1
    <3> QED
      BY <1>2, <3>1, <3>2 DEF OnlyAdded
  <2>4. ASSUME AddedAgain(b, d) PROVE AddedAgain(s, d)
    <3>1. PICK i \in 1..n : \E k \in 1..i - 1 :
            /\ About(b[k], d) /\ b[k].kind = "removed"
            /\ About(b[i], d) /\ b[i].kind = "added"
            /\ \A j \in (k + 1..n) \ {i} : ~About(b[j], d)
      BY <1>1, <2>4 DEF AddedAgain
    <3>2. PICK k \in 1..i - 1 :
            /\ About(b[k], d) /\ b[k].kind = "removed"
            /\ About(b[i], d) /\ b[i].kind = "added"
            /\ \A j \in (k + 1..n) \ {i} : ~About(b[j], d)
      BY <3>1
    <3>3. i \in 1..n + 1 /\ s[i] = b[i] /\ s[k] = b[k]
      BY <1>2
    <3>4. \A j \in (k + 1..n + 1) \ {i} : ~About(s[j], d)
      BY <1>2, <1>3, <1>4, <3>2
    <3> QED
      BY <1>2, <3>2, <3>3, <3>4 DEF AddedAgain
  <2> QED
    BY <1>1, <1>4, <2>1, <2>2, <2>3, <2>4
<1>5. CASE About(evt, d) /\ evt.kind = "removed"
  <2>1. n + 1 \in 1..n + 1 /\ \A j \in (n + 1) + 1..n + 1 : ~About(s[j], d)
    BY <1>2
  <2>2. EndsRemoved(s, d)
    BY <1>2, <1>5, <2>1 DEF EndsRemoved
  <2> QED
    BY <1>1, <1>5, <2>2
<1>6. CASE About(evt, d) /\ evt.kind = "added"
  <2>0. n + 1 \in 1..n + 1 /\ About(s[n + 1], d) /\ s[n + 1].kind = "added"
    BY <1>2, <1>6
  <2>1. ASSUME Silent(b, d) PROVE OnlyAdded(s, d)
    <3>1. \A j \in 1..n + 1 \ {n + 1} : ~About(s[j], d)
      BY <1>1, <1>2, <1>3, <2>1 DEF Silent
    <3> QED
      BY <1>2, <2>0, <3>1 DEF OnlyAdded
  <2>2. ASSUME EndsRemoved(b, d) PROVE AddedAgain(s, d)
    <3>1. PICK k \in 1..n : About(b[k], d) /\ b[k].kind = "removed" /\ \A j \in k + 1..n : ~About(b[j], d)
      BY <1>1, <2>2 DEF EndsRemoved
    <3>2. k \in 1..(n + 1) - 1 /\ s[k] = b[k]
      BY <1>2
    <3>3. \A j \in (k + 1..n + 1) \ {n + 1} : ~About(s[j], d)
      BY <1>2, <1>3, <3>1
    <3> QED
      BY <1>2, <2>0, <3>1, <3>2, <3>3 DEF AddedAgain
  <2> QED
    BY <1>1, <1>6, <2>1, <2>2
<1> QED
  BY <1>4, <1>5, <1>6 DEF AdapterEvent, About

\* What is left of it when the first event is taken.
LEMMA BusTail ==
  ASSUME NEW b \in Seq(AdapterEvent), b # <<>>, NEW d \in Device
  PROVE  /\ Silent(b, d) => ~About(Head(b), d) /\ Silent(Tail(b), d)
         /\ EndsRemoved(b, d) => \/ EndsRemoved(Tail(b), d)
                                 \/ /\ About(Head(b), d) /\ Head(b).kind = "removed"
                                    /\ Silent(Tail(b), d)
         /\ OnlyAdded(b, d) => \/ ~About(Head(b), d) /\ OnlyAdded(Tail(b), d)
                               \/ /\ About(Head(b), d) /\ Head(b).kind = "added"
                                  /\ Silent(Tail(b), d)
         /\ AddedAgain(b, d) => \/ AddedAgain(Tail(b), d)
                                \/ /\ About(Head(b), d) /\ Head(b).kind = "removed"
                                   /\ OnlyAdded(Tail(b), d)
<1>1. PICK n, s, evt : n = Len(Tail(b)) /\ s = Tail(b) /\ evt = Head(b)
  OBVIOUS
<1>2. /\ n \in Nat /\ Len(b) = n + 1 /\ Len(s) = n /\ b[1] = evt
      /\ \A i \in 1..n : s[i] = b[i + 1]
  BY <1>1, Shifted
<1>3. /\ \A i \in 1..n + 1 : i # 1 => i - 1 \in 1..n /\ b[i] = s[i - 1]
      /\ \A i \in 1..n : i + 1 \in 1..n + 1
  BY <1>2
<1>4. ASSUME Silent(b, d) PROVE ~About(evt, d) /\ Silent(s, d)
  BY <1>2, <1>3, <1>4 DEF Silent
<1>5. ASSUME EndsRemoved(b, d)
      PROVE  EndsRemoved(s, d) \/ (About(evt, d) /\ evt.kind = "removed" /\ Silent(s, d))
  <2>1. PICK i \in 1..n + 1 : About(b[i], d) /\ b[i].kind = "removed" /\ \A j \in i + 1..n + 1 : ~About(b[j], d)
    BY <1>2, <1>5 DEF EndsRemoved
  <2>2. \A j \in 1..n : j + 1 \in i + 1..n + 1 => ~About(s[j], d)
    BY <1>2, <2>1
  <2>3. CASE i = 1
    <3>1. \A j \in 1..n : ~About(s[j], d)
      BY <1>2, <2>2, <2>3
    <3> QED
      BY <1>2, <2>1, <2>3, <3>1 DEF Silent
  <2>4. CASE i # 1
    <3>1. i - 1 \in 1..n /\ b[i] = s[i - 1]
      BY <1>3, <2>4
    <3>2. \A j \in (i - 1) + 1..n : j \in 1..n /\ j + 1 \in i + 1..n + 1
      BY <1>2, <3>1
    <3> QED
      BY <1>2, <2>1, <2>2, <3>1, <3>2 DEF EndsRemoved
  <2> QED
    BY <2>3, <2>4
<1>6. ASSUME OnlyAdded(b, d)
      PROVE  \/ ~About(evt, d) /\ OnlyAdded(s, d)
             \/ About(evt, d) /\ evt.kind = "added" /\ Silent(s, d)
  <2>1. PICK i \in 1..n + 1 : About(b[i], d) /\ b[i].kind = "added" /\ \A j \in 1..n + 1 \ {i} : ~About(b[j], d)
    BY <1>2, <1>6 DEF OnlyAdded
  <2>2. \A j \in 1..n : j + 1 # i => ~About(s[j], d)
    BY <1>2, <1>3, <2>1
  <2>3. CASE i = 1
    <3>1. \A j \in 1..n : ~About(s[j], d)
      BY <1>2, <2>2, <2>3
    <3> QED
      BY <1>2, <2>1, <2>3, <3>1 DEF Silent
  <2>4. CASE i # 1
    <3>1. i - 1 \in 1..n /\ b[i] = s[i - 1]
      BY <1>3, <2>4
    <3>2. \A j \in 1..n \ {i - 1} : ~About(s[j], d)
      BY <1>2, <2>2, <3>1
    <3>3. ~About(evt, d)
      BY <1>2, <2>1, <2>4
    <3> QED
      BY <1>2, <2>1, <3>1, <3>2, <3>3 DEF OnlyAdded
  <2> QED
    BY <2>3, <2>4
<1>7. ASSUME AddedAgain(b, d)
      PROVE  AddedAgain(s, d) \/ (About(evt, d) /\ evt.kind = "removed" /\ OnlyAdded(s, d))
  <2>1. PICK i \in 1..n + 1 : \E k \in 1..i - 1 :
          /\ About(b[k], d) /\ b[k].kind = "removed"
          /\ About(b[i], d) /\ b[i].kind = "added"
          /\ \A j \in (k + 1..n + 1) \ {i} : ~About(b[j], d)
    BY <1>2, <1>7 DEF AddedAgain
  <2>2. PICK k \in 1..i - 1 :
          /\ About(b[k], d) /\ b[k].kind = "removed"
          /\ About(b[i], d) /\ b[i].kind = "added"
          /\ \A j \in (k + 1..n + 1) \ {i} : ~About(b[j], d)
    BY <2>1
  <2>3. i - 1 \in 1..n /\ b[i] = s[i - 1]
    BY <1>2, <1>3, <2>2
  <2>4. CASE k = 1
    <3>1. \A j \in 1..n \ {i - 1} : j + 1 \in (k + 1..n + 1) \ {i} /\ s[j] = b[j + 1]
      BY <1>2, <2>3, <2>4
    <3>2. \A j \in 1..n \ {i - 1} : ~About(s[j], d)
      BY <2>2, <3>1
    <3>3. OnlyAdded(s, d)
      BY <1>2, <2>2, <2>3, <3>2 DEF OnlyAdded
    <3> QED
      BY <1>2, <2>2, <2>4, <3>3
  <2>5. CASE k # 1
    <3>1. k - 1 \in 1..(i - 1) - 1 /\ b[k] = s[k - 1]
      BY <1>2, <1>3, <2>5
    <3>2. \A j \in ((k - 1) + 1..n) \ {i - 1} : j + 1 \in (k + 1..n + 1) \ {i} /\ s[j] = b[j + 1]
      BY <1>2, <2>3, <2>5
    <3>3. \A j \in ((k - 1) + 1..n) \ {i - 1} : ~About(s[j], d)
      BY <2>2, <3>2
    <3> QED
      BY <1>2, <2>2, <2>3, <3>1, <3>3 DEF AddedAgain
  <2> QED
    BY <2>4, <2>5
<1> QED
  BY <1>1, <1>4, <1>5, <1>6, <1>7

LEMMA ServedNow ==
  ASSUME NEW e
  PROVE  Served(e) <=> \/ AddedLast(channel, e)
                       \/ Untold(channel, e) /\ sessions[e] # None
  BY DEF Served

LEMMA ServedNext ==
  ASSUME NEW e
  PROVE  Served(e)' <=> \/ AddedLast(channel', e)
                        \/ Untold(channel', e) /\ sessions'[e] # None
  BY DEF Served, AddedLast, Untold

\* What a message to the manager means for the map in the end.
LEMMA ServedSend ==
  ASSUME IInv, NEW d \in Device, NEW kind \in {"Add", "Remove"}, send(kind, d), UNCHANGED sessions,
         NEW e \in Device
  PROVE  Served(e)' <=> IF e = d THEN kind = "Add" ELSE Served(e)
<1>1. PICK evt : evt = Event(kind, d)
  OBVIOUS
<1>2. evt \in DeviceEvent /\ evt.dev = d /\ evt.kind = kind
  BY <1>1 DEF Event, DeviceEvent
<1>3. channel \in Seq(DeviceEvent) /\ channel' = Append(channel, evt)
  BY <1>1 DEF IInv, TypeOK, send
<1>4. /\ evt.dev = e => (AddedLast(channel', e) <=> evt.kind = "Add") /\ ~Untold(channel', e)
      /\ evt.dev # e => /\ AddedLast(channel', e) <=> AddedLast(channel, e)
                        /\ Untold(channel', e) <=> Untold(channel, e)
  BY <1>2, <1>3, ToldAppend
<1>5. Served(e) <=> AddedLast(channel, e) \/ (Untold(channel, e) /\ sessions[e] # None)
  BY ServedNow
<1>6. Served(e)' <=> AddedLast(channel', e) \/ (Untold(channel', e) /\ sessions'[e] # None)
  BY ServedNext
<1>7. sessions'[e] = sessions[e]
  OBVIOUS
<1>8. CASE e = d
  <2>1. (AddedLast(channel', e) <=> kind = "Add") /\ ~Untold(channel', e)
    BY <1>2, <1>4, <1>8
  <2>2. Served(e)' <=> kind = "Add"
    BY <1>6, <2>1
  <2> QED
    BY <1>8, <2>2
<1>9. CASE e # d
  <2>1. evt.dev # e
    BY <1>2, <1>9
  <2>2. AddedLast(channel', e) <=> AddedLast(channel, e)
    BY <1>4, <2>1
  <2>3. Untold(channel', e) <=> Untold(channel, e)
    BY <1>4, <2>1
  <2>4. Served(e)' <=> Served(e)
    BY <1>5, <1>6, <1>7, <2>2, <2>3
  <2> QED
    BY <1>9, <2>4
<1> QED
  BY <1>8, <1>9

\* The manager only carries out what was told.
LEMMA ServedManage ==
  ASSUME IInv, Manage, NEW e \in Device \ Disabled
  PROVE  Served(e)' <=> Served(e)
<1>1. /\ channel \in Seq(DeviceEvent) /\ channel # <<>> /\ channel' = Tail(channel)
      /\ Head(channel) \in DeviceEvent
  BY HeadTail DEF IInv, TypeOK, Manage
<1>2. PICK evt, d : evt = Head(channel) /\ d = evt.dev
  OBVIOUS
<1>3. d \in Device /\ evt.kind \in {"Add", "Remove"}
  BY <1>1, <1>2 DEF DeviceEvent
<1>4. /\ evt.dev = e => /\ ~Untold(channel, e)
                        /\ AddedLast(channel, e) <=> \/ AddedLast(channel', e)
                                                     \/ Untold(channel', e) /\ evt.kind = "Add"
      /\ evt.dev # e => /\ AddedLast(channel, e) <=> AddedLast(channel', e)
                        /\ Untold(channel, e) <=> Untold(channel', e)
  BY <1>1, <1>2, ToldTail
<1>5. sessions \in [Device -> {None} \cup DOMAIN tasks] /\ Len(tasks) \in Nat
  BY Domains DEF IInv, TypeOK
<1>6. CASE evt.kind = "Add"
  <2>1. Add(d)
    BY <1>2, <1>6 DEF Manage
  <2>2. \A f \in Device \ {d} : sessions'[f] = sessions[f]
    BY <1>5, <2>1 DEF Add
  <2>3. ASSUME d \notin Disabled PROVE sessions'[d] # None
    <3>1. CASE HasSession(d)
      BY <2>1, <2>3, <3>1 DEF Add, HasSession
    <3>2. CASE ~HasSession(d)
      <4>1. sessions' = [sessions EXCEPT ![d] = Len(tasks) + 1]
        BY <2>1, <2>3, <3>2 DEF Add
      <4>2. Len(tasks) + 1 # None
        BY <1>5 DEF None
      <4> QED
        BY <1>3, <1>5, <4>1, <4>2
    <3> QED
      BY <3>1, <3>2
  <2>4. CASE d = e
    BY <1>2, <1>4, <1>6, <2>3, <2>4, ServedNow, ServedNext
  <2>5. CASE d # e
    <3>1. sessions'[e] = sessions[e]
      BY <2>2, <2>5
    <3> QED
      BY <1>2, <1>4, <2>5, <3>1, ServedNow, ServedNext
  <2> QED
    BY <2>4, <2>5
<1>7. CASE evt.kind = "Remove"
  <2>1. Remove(d)
    BY <1>2, <1>7 DEF Manage
  <2>2. sessions'[d] = None /\ \A f \in Device \ {d} : sessions'[f] = sessions[f]
    BY <1>3, <1>5, <2>1 DEF Remove
  <2>3. CASE d = e
    BY <1>2, <1>4, <1>7, <2>2, <2>3, ServedNow, ServedNext
  <2>4. CASE d # e
    <3>1. sessions'[e] = sessions[e]
      BY <2>2, <2>4
    <3> QED
      BY <1>2, <1>4, <2>4, <3>1, ServedNow, ServedNext
  <2> QED
    BY <2>3, <2>4
<1> QED
  BY <1>3, <1>6, <1>7

LEMMA MapInit == ASSUME Init PROVE MapInv
<1>1. \A d \in Device : ~Served(d)
  <2>1. Len(channel) = 0 /\ \A d \in Device : sessions[d] = None
    BY DEF Init
  <2> QED
    BY <2>1 DEF Served, AddedLast
<1>2. \A d \in Device : d \notin seeds => bluez[d] # "paired"
  BY DEF Init
<1> QED
  BY <1>1, <1>2, DisabledAssumption DEF Init, MapInv, Seeding, DisabledAssumption

\* A step that leaves devices, bus, channel and map alone.
LEMMA MapKept ==
  ASSUME MapInv, UNCHANGED <<bluez, seeds, bus, channel, sessions>>,
         discovery' = discovery \/ discovery' = "ended", unheard \subseteq unheard'
  PROVE  MapInv'
<1>1. \A d \in Device : Served(d)' <=> Served(d)
  BY DEF Served
<1>2. \A d \in Device : (Seeding(d)' <=> Seeding(d)) /\ (Following(d)' <=> Following(d))
  BY <1>1 DEF Seeding, Following
<1> QED
  BY <1>2 DEF MapInv

LEMMA MapSeed ==
  ASSUME IInv, MapInv, NEW d \in Device, Seed(d) PROVE MapInv'
<1>1. /\ discovery = "seeding" /\ d \in seeds /\ seeds' = seeds \ {d}
      /\ UNCHANGED <<bluez, discovery, bus, sessions>>
  BY DEF Seed, devices
<1>2. /\ unheard \subseteq unheard'
      /\ \/ send("Add", d) /\ bluez[d] = "paired"
         \/ UNCHANGED channel /\ (bluez[d] # "paired" \/ d \in unheard')
  BY Looked DEF Seed
<1>3. ASSUME NEW e \in Device \ (Disabled \cup unheard') PROVE Seeding(e)'
  <2>1. Seeding(e)
    BY <1>1, <1>2, <1>3 DEF MapInv
  <2>2. CASE send("Add", d) /\ bluez[d] = "paired"
    <3>1. Served(e)' <=> IF e = d THEN TRUE ELSE Served(e)
      BY <1>1, <2>2, ServedSend
    <3> QED
      BY <1>1, <2>1, <2>2, <3>1 DEF Seeding
  <2>3. CASE UNCHANGED channel /\ (bluez[d] # "paired" \/ d \in unheard')
    <3>1. Served(e)' <=> Served(e)
      BY <1>1, <2>3 DEF Served
    <3> QED
      BY <1>1, <1>3, <2>1, <2>3, <3>1 DEF Seeding
  <2> QED
    BY <1>2, <2>2, <2>3
<1> QED
  BY <1>1, <1>3 DEF MapInv

LEMMA MapSubscribe == ASSUME MapInv, Subscribe PROVE MapInv'
<1>1. /\ discovery = "seeding" /\ seeds = {} /\ discovery' = "watching" /\ bus = <<>>
      /\ UNCHANGED <<bluez, unheard, bus, channel, sessions>>
  BY DEF Subscribe, world, devices, MapInv
<1>2. ASSUME NEW e \in Device \ (Disabled \cup unheard) PROVE Following(e)'
  <2>1. Served(e) <=> bluez[e] = "paired"
    BY <1>1 DEF MapInv, Seeding
  <2>2. Served(e)' <=> bluez'[e] = "paired"
    BY <1>1, <2>1 DEF Served
  <2>3. Silent(bus', e)
    BY <1>1 DEF Silent
  <2> QED
    BY <2>2, <2>3 DEF Following
<1> QED
  BY <1>1, <1>2 DEF MapInv

\* An event is taken: what was due at the end of the bus still is.
LEMMA MapDiscover == ASSUME IInv, MapInv, Discover PROVE MapInv'
<1>1. /\ discovery = "watching" /\ bus # <<>> /\ bus' = Tail(bus) /\ Take(Head(bus))
      /\ UNCHANGED <<bluez, sessions, seeds>> /\ discovery' # "seeding"
  BY DEF Discover, devices
<1>2. PICK evt, d : evt = Head(bus) /\ d = evt.dev
  OBVIOUS
<1>3. bus \in Seq(AdapterEvent) /\ evt \in AdapterEvent /\ d \in Device
  <2>1. bus \in Seq(AdapterEvent)
    BY DEF IInv, TypeOK
  <2>2. evt \in AdapterEvent
    BY <1>1, <1>2, <2>1, HeadTail
  <2> QED
    BY <1>2, <2>1, <2>2 DEF AdapterEvent
<1>4. evt.kind = "added" =>
        /\ unheard \subseteq unheard'
        /\ \/ send("Add", d) /\ bluez[d] = "paired"
           \/ UNCHANGED channel /\ (bluez[d] # "paired" \/ Announced(bus', d) \/ d \in unheard')
  <2>1. evt.kind = "added" => Look(d, Announced(bus', d))
    BY <1>1, <1>2 DEF Take
  <2>2. Announced(bus', d) \in BOOLEAN
    BY DEF Announced
  <2> QED
    BY <1>3, <2>1, <2>2, Looked
<1>5. unheard \subseteq unheard'
  BY <1>1, <1>2, <1>4 DEF Take
<1>6. ASSUME NEW e \in Device \ (Disabled \cup unheard') PROVE Following(e)'
  <2>1. Following(e)
    BY <1>1, <1>6, <1>5 DEF MapInv
  <2>2. /\ Silent(bus, e) => ~About(evt, e) /\ Silent(bus', e)
        /\ EndsRemoved(bus, e) => \/ EndsRemoved(bus', e)
                                  \/ About(evt, e) /\ evt.kind = "removed" /\ Silent(bus', e)
        /\ OnlyAdded(bus, e) => \/ ~About(evt, e) /\ OnlyAdded(bus', e)
                                \/ About(evt, e) /\ evt.kind = "added" /\ Silent(bus', e)
        /\ AddedAgain(bus, e) => \/ AddedAgain(bus', e)
                                 \/ About(evt, e) /\ evt.kind = "removed" /\ OnlyAdded(bus', e)
    BY <1>1, <1>2, <1>3, BusTail
  <2>3. ~About(evt, e) => (Served(e)' <=> Served(e))
    <3>1. CASE evt.kind = "removed"
      <4>1. send("Remove", d)
        BY <1>1, <1>2, <3>1 DEF Take, TakeRemoved
      <4> QED
        BY <1>1, <1>2, <1>3, <3>1, <4>1, ServedSend DEF About
    <3>2. CASE evt.kind = "added"
      <4>1. send("Add", d) \/ UNCHANGED channel
        BY <1>4, <3>2
      <4>2. CASE UNCHANGED channel
        BY <1>1, <4>2 DEF Served
      <4> QED
        BY <1>1, <1>2, <1>3, <3>2, <4>1, <4>2, ServedSend DEF About
    <3>3. CASE evt.kind # "removed" /\ evt.kind # "added"
      <4>1. UNCHANGED channel
        BY <1>1, <1>2, <3>3 DEF Take
      <4> QED
        BY <1>1, <4>1 DEF Served
    <3> QED
      BY <3>1, <3>2, <3>3
  <2>4. About(evt, e) /\ evt.kind = "removed" => ~Served(e)'
    <3> SUFFICES ASSUME About(evt, e), evt.kind = "removed" PROVE ~Served(e)'
      OBVIOUS
    <3>1. send("Remove", d) /\ e = d
      BY <1>1, <1>2 DEF Take, TakeRemoved, About
    <3> QED
      BY <1>1, <3>1, ServedSend
  <2>5. About(evt, e) /\ evt.kind = "added" /\ Silent(bus', e) /\ ~Served(e)
           => (Served(e)' <=> bluez[e] = "paired")
    <3> SUFFICES ASSUME About(evt, e), evt.kind = "added", Silent(bus', e), ~Served(e)
                 PROVE  Served(e)' <=> bluez[e] = "paired"
      OBVIOUS
    <3>0. e = d
      BY <1>2 DEF About
    <3>1. CASE send("Add", d) /\ bluez[d] = "paired"
      BY <1>1, <3>0, <3>1, ServedSend
    <3>2. CASE UNCHANGED channel /\ (bluez[d] # "paired" \/ Announced(bus', d))
      <4>1. ~Announced(bus', d)
        <5>1. bus' \in Seq(AdapterEvent)
          BY <1>1, <1>3, HeadTail
        <5> QED
          BY <3>0, <5>1 DEF Announced, Silent, About, Event
      <4> QED
        BY <1>1, <3>0, <3>2, <4>1 DEF Served
    <3> QED
      BY <1>6, <1>4, <3>0, <3>1, <3>2
  <2>6. CASE Silent(bus, e) /\ (Served(e) <=> bluez[e] = "paired")
    BY <1>1, <2>2, <2>3, <2>6 DEF Following
  <2>7. CASE EndsRemoved(bus, e) /\ bluez[e] = "absent"
    BY <1>1, <2>2, <2>4, <2>7 DEF Following
  <2>8. CASE OnlyAdded(bus, e) /\ bluez[e] # "absent" /\ ~Served(e)
    BY <1>1, <2>2, <2>3, <2>5, <2>8 DEF Following
  <2>9. CASE AddedAgain(bus, e) /\ bluez[e] # "absent"
    BY <1>1, <2>2, <2>4, <2>9 DEF Following
  <2> QED
    BY <2>1, <2>6, <2>7, <2>8, <2>9 DEF Following
<1> QED
  BY <1>1, <1>6 DEF MapInv

\* The manager takes a message: what is due stays due.
LEMMA MapManage == ASSUME IInv, MapInv, Manage PROVE MapInv'
<1>1. UNCHANGED <<bluez, unheard, discovery, seeds, bus>>
  BY DEF Manage, world, devices, finding
<1>2. \A e \in Device \ Disabled : Served(e)' <=> Served(e)
  BY ServedManage
<1>3. \A e \in Device \ Disabled : (Seeding(e)' <=> Seeding(e)) /\ (Following(e)' <=> Following(e))
  BY <1>1, <1>2 DEF Seeding, Following
<1>4. ASSUME NEW d \in Disabled PROVE sessions'[d] = None
  <2>1. sessions \in [Device -> {None} \cup DOMAIN tasks] /\ sessions[d] = None /\ d \in Device
    BY DisabledAssumption DEF IInv, TypeOK, MapInv, DisabledAssumption
  <2>2. PICK f : f = Head(channel).dev
    OBVIOUS
  <2>3. CASE Add(f)
    BY <2>1, <2>3 DEF Add
  <2>4. CASE Remove(f)
    BY <2>1, <2>4 DEF Remove
  <2> QED
    BY <2>2, <2>3, <2>4 DEF Manage
<1> QED
  BY <1>1, <1>3, <1>4 DEF MapInv

LEMMA MapLeave == ASSUME MapInv, Leave PROVE MapInv'
<1>1. discovery' = "ended" /\ \A d \in Disabled : sessions'[d] = None
  BY DisabledAssumption DEF Leave, finding, DisabledAssumption
<1> QED
  BY <1>1 DEF MapInv

\* What happens to one device leaves the others where they were.
LEMMA MapOthers ==
  ASSUME IInv, MapInv, UNCHANGED <<discovery, seeds, channel, sessions>>,
         NEW evt \in AdapterEvent, discovery = "watching" => bus' = bus \/ bus' = Append(bus, evt),
         NEW e \in Device \ (Disabled \cup unheard), bluez'[e] = bluez[e], ~About(evt, e)
  PROVE  /\ discovery = "seeding" => Seeding(e)'
         /\ discovery = "watching" => Following(e)'
<1>1. Served(e)' <=> Served(e)
  BY DEF Served
<1>2. discovery = "seeding" => Seeding(e)'
  BY <1>1 DEF Seeding, MapInv
<1>3. ASSUME discovery = "watching" PROVE Following(e)'
  <2>1. bus \in Seq(AdapterEvent) /\ Following(e)
    BY <1>3 DEF IInv, TypeOK, MapInv
  <2>2. /\ Silent(bus, e) => Silent(bus', e)
        /\ EndsRemoved(bus, e) => EndsRemoved(bus', e)
        /\ OnlyAdded(bus, e) => OnlyAdded(bus', e)
        /\ AddedAgain(bus, e) => AddedAgain(bus', e)
    BY <1>3, <2>1, BusAppend
  <2> QED
    BY <1>1, <2>1, <2>2 DEF Following
<1> QED
  BY <1>2, <1>3

LEMMA Events ==
  ASSUME NEW d \in Device, NEW kind \in {"added", "removed", "gone"}
  PROVE  /\ Event(kind, d) \in AdapterEvent
         /\ kind = "gone" => \A e : ~About(Event(kind, d), e)
         /\ \A e : e # d => ~About(Event(kind, d), e)
         /\ kind # "gone" => About(Event(kind, d), d) /\ Event(kind, d).kind = kind
  BY DEF Event, AdapterEvent, About

LEMMA MapAppear == ASSUME IInv, MapInv, NEW d \in Device, Appear(d) PROVE MapInv'
<1>1. /\ UNCHANGED <<discovery, seeds, channel, sessions>> /\ bluez[d] = "absent"
      /\ discovery = "watching" => bus' = Append(bus, Event("added", d))
      /\ discovery # "watching" => bus' = bus
      /\ bluez'[d] # "absent" /\ \A e \in Device : e # d => bluez'[e] = bluez[e]
  BY DEF Appear, announce, IInv, TypeOK
<1>2. /\ unheard \subseteq unheard'
      /\ d \notin unheard' => discovery = "watching" \/ (discovery = "seeding" /\ d \in seeds)
  BY DEF Appear, WillLook
<1>3. PICK evt \in AdapterEvent : evt = Event("added", d)
  BY Events
<1>4. evt.kind = "added" /\ About(evt, d) /\ \A e : e # d => ~About(evt, e)
  BY <1>3, Events
<1>5. ASSUME d \notin Disabled, d \notin unheard'
      PROVE  /\ discovery = "seeding" => Seeding(d)'
             /\ discovery = "watching" => Following(d)'
  <2>1. Served(d)' <=> Served(d)
    BY <1>1 DEF Served
  <2>2. discovery = "seeding" => Seeding(d)'
    BY <1>1, <1>2, <1>5, <2>1 DEF Seeding, MapInv
  <2>3. ASSUME discovery = "watching" PROVE Following(d)'
    <3>1. bus \in Seq(AdapterEvent) /\ Following(d) /\ bus' = Append(bus, evt)
      BY <1>1, <1>2, <1>3, <1>5, <2>3 DEF IInv, TypeOK, MapInv
    <3>2. /\ Silent(bus, d) => OnlyAdded(bus', d)
          /\ EndsRemoved(bus, d) => AddedAgain(bus', d)
      BY <1>4, <3>1, BusAppend
    <3> QED
      BY <1>1, <2>1, <3>1, <3>2 DEF Following
  <2> QED
    BY <2>2, <2>3
<1>6. ASSUME NEW e \in Device \ (Disabled \cup unheard'), e # d
      PROVE  /\ discovery = "seeding" => Seeding(e)'
             /\ discovery = "watching" => Following(e)'
  <2>1. e \in Device \ (Disabled \cup unheard) /\ bluez'[e] = bluez[e] /\ ~About(evt, e)
    BY <1>1, <1>2, <1>4, <1>6
  <2>2. discovery = "watching" => bus' = bus \/ bus' = Append(bus, evt)
    BY <1>1, <1>3
  <2> QED
    BY <1>1, <2>1, <2>2, MapOthers
<1> QED
  BY <1>1, <1>5, <1>6 DEF MapInv

LEMMA MapUpdate == ASSUME IInv, MapInv, NEW d \in Device, Update(d) PROVE MapInv'
<1>1. /\ UNCHANGED <<discovery, seeds, bus, channel, sessions>> /\ bluez[d] # "absent"
      /\ bluez'[d] # "absent" /\ \A e \in Device : e # d => bluez'[e] = bluez[e]
  BY DEF Update, idle, finding, IInv, TypeOK
<1>2. unheard \subseteq unheard' /\ (d \notin unheard' => WillLook(d))
  BY DEF Update
<1>3. PICK evt \in AdapterEvent : evt = Event("added", d)
  BY Events
<1>4. evt.kind = "added" /\ About(evt, d) /\ \A e : e # d => ~About(evt, e)
  BY <1>3, Events
<1>5. ASSUME d \notin Disabled, d \notin unheard'
      PROVE  /\ discovery = "seeding" => Seeding(d)'
             /\ discovery = "watching" => Following(d)'
  <2>1. Served(d)' <=> Served(d)
    BY <1>1 DEF Served
  <2>2. discovery = "seeding" => Seeding(d)'
    <3>1. discovery = "seeding" => d \in seeds
      BY <1>2, <1>5 DEF WillLook
    <3> QED
      BY <1>1, <1>2, <1>5, <2>1, <3>1 DEF Seeding, MapInv
  <2>3. ASSUME discovery = "watching" PROVE Following(d)'
    <3>1. Following(d) /\ bus \in Seq(AdapterEvent)
      BY <1>2, <1>5, <2>3 DEF MapInv, IInv, TypeOK
    <3>2. \E i \in DOMAIN bus : bus[i] = evt
      BY <1>2, <1>3, <1>5, <2>3 DEF WillLook, Announced
    <3>3. ~Silent(bus, d)
      BY <1>4, <3>1, <3>2 DEF Silent
    <3> QED
      BY <1>1, <2>1, <3>1, <3>3 DEF Following
  <2> QED
    BY <2>2, <2>3
<1>6. ASSUME NEW e \in Device \ (Disabled \cup unheard'), e # d
      PROVE  /\ discovery = "seeding" => Seeding(e)'
             /\ discovery = "watching" => Following(e)'
  <2>1. e \in Device \ (Disabled \cup unheard) /\ bluez'[e] = bluez[e] /\ ~About(evt, e)
    BY <1>1, <1>2, <1>4, <1>6
  <2> QED
    BY <1>1, <2>1, MapOthers
<1> QED
  BY <1>1, <1>5, <1>6 DEF MapInv

LEMMA MapVanish == ASSUME IInv, MapInv, NEW d \in Device, Vanish(d) PROVE MapInv'
<1>1. /\ UNCHANGED <<discovery, seeds, channel, sessions>>
      /\ discovery = "watching" => bus' = Append(bus, Event("removed", d))
      /\ discovery # "watching" => bus' = bus
      /\ bluez'[d] = "absent" /\ \A e \in Device : e # d => bluez'[e] = bluez[e]
  BY DEF Vanish, announce, IInv, TypeOK
<1>2. /\ unheard \subseteq unheard' \cup {d}
      /\ discovery = "seeding" /\ d \notin unheard' => d \in seeds /\ d \notin unheard
  BY DEF Vanish, WillLook
<1>3. PICK evt \in AdapterEvent : evt = Event("removed", d)
  BY Events
<1>4. evt.kind = "removed" /\ About(evt, d) /\ \A e : e # d => ~About(evt, e)
  BY <1>3, Events
<1>5. ASSUME d \notin Disabled, d \notin unheard'
      PROVE  /\ discovery = "seeding" => Seeding(d)'
             /\ discovery = "watching" => Following(d)'
  <2>1. Served(d)' <=> Served(d)
    BY <1>1 DEF Served
  <2>2. discovery = "seeding" => Seeding(d)'
    BY <1>1, <1>2, <1>5, <2>1 DEF Seeding, MapInv
  <2>3. ASSUME discovery = "watching" PROVE Following(d)'
    <3>1. bus \in Seq(AdapterEvent) /\ bus' = Append(bus, evt)
      BY <1>1, <1>3, <2>3 DEF IInv, TypeOK
    <3>2. EndsRemoved(bus', d)
      BY <1>4, <3>1, BusAppend
    <3> QED
      BY <1>1, <3>2 DEF Following
  <2> QED
    BY <2>2, <2>3
<1>6. ASSUME NEW e \in Device \ (Disabled \cup unheard'), e # d
      PROVE  /\ discovery = "seeding" => Seeding(e)'
             /\ discovery = "watching" => Following(e)'
  <2>1. e \in Device \ (Disabled \cup unheard) /\ bluez'[e] = bluez[e] /\ ~About(evt, e)
    BY <1>1, <1>2, <1>4, <1>6
  <2>2. discovery = "watching" => bus' = bus \/ bus' = Append(bus, evt)
    BY <1>1, <1>3
  <2> QED
    BY <1>1, <2>1, <2>2, MapOthers
<1> QED
  BY <1>1, <1>5, <1>6 DEF MapInv

LEMMA MapGone == ASSUME IInv, MapInv, NEW d \in Device, AdapterGone(d) PROVE MapInv'
<1>1. /\ UNCHANGED <<bluez, unheard, discovery, seeds, channel, sessions>>
      /\ discovery = "watching" /\ bus' = Append(bus, Event("gone", d))
  BY DEF AdapterGone, announce
<1>2. PICK evt \in AdapterEvent : evt = Event("gone", d)
  BY Events
<1>3. \A e : ~About(evt, e)
  BY <1>2, Events
<1>4. ASSUME NEW e \in Device \ (Disabled \cup unheard) PROVE Following(e)'
  BY <1>1, <1>2, <1>3, MapOthers
<1> QED
  BY <1>1, <1>4 DEF MapInv

LEMMA MapStep == IInv /\ MapInv /\ [Next]_vars => MapInv'
<1> SUFFICES ASSUME IInv, MapInv, [Next]_vars PROVE MapInv'
  OBVIOUS
<1>1. CASE Daemon \/ Fail
  <2>1. ASSUME NEW d \in Device, Seed(d) PROVE MapInv'
    BY <2>1, MapSeed
  <2>2. CASE Fail
    BY <2>2, MapKept DEF Fail, world, devices
  <2> QED
    BY <1>1, <2>1, <2>2, MapSubscribe, MapDiscover, MapManage, MapLeave DEF Daemon
<1>2. ASSUME NEW t \in DOMAIN tasks, Session(t) PROVE MapInv'
  <2>1. UNCHANGED <<bluez, seeds, bus, channel, sessions, discovery, unheard>>
    BY <1>2 DEF Session, Top, Connected, Opened, Failed, Notice, HungUp, Rest, idle, world, devices, finding
  <2> QED
    BY <2>1, MapKept
<1>3. ASSUME NEW d \in Device, World(d) PROVE MapInv'
  <2>1. CASE Drop(d)
    BY <2>1, MapKept DEF Drop, idle, finding
  <2> QED
    BY <1>3, <2>1, MapAppear, MapUpdate, MapVanish, MapGone DEF World
<1>4. CASE UNCHANGED vars
  BY <1>4, MapKept DEF vars, world, devices, finding
<1> QED
  BY <1>1, <1>2, <1>3, <1>4 DEF Next

LEMMA MapInvGives == MapInv => MapFollowsBluez
<1> SUFFICES ASSUME MapInv, Settled, NEW d \in Device \ unheard
             PROVE  sessions[d] # None <=> bluez[d] = "paired" /\ d \notin Disabled
  BY DEF MapFollowsBluez
<1>1. Len(bus) = 0 /\ Len(channel) = 0 /\ discovery = "watching"
  BY DEF Settled
<1>2. CASE d \in Disabled
  BY <1>2 DEF MapInv
<1>3. CASE d \notin Disabled
  <2>1. Following(d)
    BY <1>1, <1>3 DEF MapInv
  <2>2. ~EndsRemoved(bus, d) /\ ~OnlyAdded(bus, d) /\ ~AddedAgain(bus, d)
    BY <1>1 DEF EndsRemoved, OnlyAdded, AddedAgain
  <2>3. Served(d) <=> sessions[d] # None
    BY <1>1 DEF Served, AddedLast, Untold
  <2> QED
    BY <1>3, <2>1, <2>2, <2>3 DEF Following
<1> QED
  BY <1>2, <1>3

\* Once the events are handled, the map of sessions holds the devices BlueZ has
\* paired and the configuration does not disable, but for those with a change it
\* announces to nobody (discovery.rs, the manager's loop).
THEOREM MapFollows == Spec => []MapFollowsBluez
<1>1. Spec => []IInv
  BY ManagerInvariant
<1>2. Init => MapInv
  BY MapInit
<1>3. IInv /\ MapInv /\ [Next]_vars => MapInv'
  BY MapStep
<1> QED
  BY <1>1, <1>2, <1>3, MapInvGives, PTL DEF Spec
=============================================================================
