------------------------- MODULE TokenTrackerProofs -------------------------
(***************************************************************************)
(* Theorems about the token tracker, for any transcripts and bounds.       *)
(*                                                                         *)
(* TodayIsOfItsDate is inductive once no line is counted for the empty     *)
(* date and the watcher's memory is under the claim at all times.  The     *)
(* two facts about saved totals rest on what tokens.json.tmp holds while   *)
(* somebody is about to rename it: the watcher's present total, or a copy  *)
(* of the midnight task's that is no larger.                               *)
(*                                                                         *)
(* UnreadIsNoticed extends to the open transcript (NoticedInv), which also *)
(* says that what is open is known by its inode; the lines counted and     *)
(* those unread then add up (Due), by a sum over the transcripts of which  *)
(* a step changes one value.  The aggregator's totals agree with the       *)
(* watcher's in every state once its queue and the tasks yet to send are   *)
(* played out (CountersInv).                                               *)
(***************************************************************************)
EXTENDS TokenTracker, FiniteSetTheorems, WellFoundedInduction, TLAPS

NoDateCountsNothing == counted[0] = 0

MemoryIsOfItsDate == memory.today <= counted[memory.current_date]

TodayInv == NoDateCountsNothing /\ MemoryIsOfItsDate /\ TodayIsOfItsDate

Renaming == pc \in {"rolling", "saving"}

\* The midnight task runs with the watcher.
TasksAgree == pc = "down" <=> midnight.pc = "down"

\* No copy of the total is ahead of the watcher.
CopiesAreBehind ==
    /\ pc # "down" => disk.cumulative <= memory.cumulative
    /\ midnight.copy.cumulative <= IF pc = "down" THEN 0 ELSE memory.cumulative
    /\ Renaming \/ midnight.pc = "saving" => tmp.cumulative <= memory.cumulative

\* What the two writers leave in tokens.json.tmp.
TmpIsKnown ==
    /\ tmp = NoFile \/ tmp.by \in {"watcher", "midnight"}
    /\ Renaming /\ tmp.by = "watcher" => tmp.cumulative = memory.cumulative
    /\ midnight.pc = "saving" /\ tmp.by = "watcher" => Renaming
    /\ midnight.pc \in {"loaded", "saving"} => midnight.copy.by = "midnight"

SavedInv ==
    /\ Renaming => memory.dirty
    /\ pc # "down" /\ ~memory.dirty /\ disk.by # "midnight" =>
           disk.cumulative = memory.cumulative

TotalInv == TasksAgree /\ CopiesAreBehind /\ TmpIsKnown /\ SavedInv

\* No more has been read of an inode than was written to it.
ReadIsThere == \A f \in File : kept[f] => offset[f] <= size[f]

\* The transcript that is open is known by its inode, and a line about to be counted is there.
OpenIsKept ==
    /\ pc \in Draining => kept[at]
    /\ pc \in {"rolling", "count"} => WholeLine

\* From the scan on, what is unread is about to be read, has an event waiting, or was
\* overlooked.
Noticed ==
    pc \in AtWork \cup {"snapped"} =>
        \A f \in File : \/ kept[f] /\ offset[f] = size[f]
                        \/ f \in notified \cup overlooked
                        \/ pc \in Draining /\ f = at

NoticedInv == ReadIsThere /\ OpenIsKept /\ Noticed

\* The aggregator's totals after a message.
Display == [cumulative : Nat, today : Nat, date : 0..MaxDay]
After(t, m) ==
    IF m.type = "TokensUpdate" THEN
        [cumulative |-> t.cumulative + 1, today |-> t.today + 1, date |-> t.date]
    ELSE IF m.type = "DailyReset" THEN
        [cumulative |-> t.cumulative, today |-> 0, date |-> m.date]
    ELSE [cumulative |-> larger(t.cumulative, m.cumulative),
          today |-> larger(t.today, m.today),
          date |-> IF t.date = 0 THEN m.date ELSE t.date]

\* shown is what the aggregator has, and will have after each message of the channel.
Foreseen(shown) ==
    /\ shown \in [1..Len(queue) + 1 -> Display]
    /\ shown[1] = agg
    /\ \A i \in 1..Len(queue) : shown[i + 1] = After(shown[i], queue[i])

\* What it will have in the end and what is yet to be sent are the watcher's counts.
Agrees(last) ==
    /\ last.cumulative + updates = memory.cumulative
    /\ ~rolled => last.today + updates = memory.today /\ last.date = memory.current_date

\* Before the totals of former runs are sent there is nothing to lose in taking the larger.
Blank(last) ==
    /\ last.cumulative = 0 /\ last.today = 0 /\ updates = 0 /\ resets = {}
    /\ ~rolled => last.date \in {0, memory.current_date}

SentInv == \E shown : /\ Foreseen(shown)
                      /\ IF Up THEN Agrees(shown[Len(queue) + 1]) ELSE Blank(shown[Len(queue) + 1])

\* A rollover leaves its mark before its DailyReset is under way.
RolledInv ==
    /\ ~rolled => resets = {} /\ midnight.pc \in {"down", "asleep"}
    /\ pc = "down" => queue = <<>> /\ agg.date = 0 /\ ~rolled

CountersInv == SentInv /\ RolledInv

-----------------------------------------------------------------------------
(* Sums over the transcripts. *)

Below == {p \in Nat \X Nat : p[1] < p[2]}

\* Induction, for a set of numbers.
LEMMA Induction ==
    ASSUME NEW S, 0 \in S, \A n \in Nat : n \in S => n + 1 \in S
    PROVE  Nat \subseteq S
  <1> SUFFICES ASSUME ~(Nat \subseteq S) PROVE FALSE
    OBVIOUS
  <1>1. PICK R : R = Nat \ S
    OBVIOUS
  <1>2. IsWellFoundedOn(Below, Nat)
    BY NatLessThanWellFounded DEF OpToRel, Below
  <1>3. R \subseteq Nat /\ R # {}
    BY <1>1
  <1>4. PICK x \in R : \A y \in R : ~(<<y, x>> \in Below)
    BY <1>2, <1>3, WFMin
  <1>5. x - 1 \in Nat
    BY <1>1
  <1>6. x - 1 \in R
    BY <1>1, <1>5
  <1>7. <<x - 1, x>> \in Nat \X Nat
    BY <1>1, <1>5
  <1> QED
    BY <1>3, <1>4, <1>5, <1>6, <1>7 DEF Below

First(s) == CHOOSE x \in s : TRUE

\* f sums the values of u over every set of transcripts.
IsSum(f, u) ==
    /\ f \in [SUBSET File -> Int]
    /\ \A s \in SUBSET File : f[s] = IF s = {} THEN 0 ELSE u[First(s)] + f[s \ {First(s)}]

Sum(u) == CHOOSE v : \E f : IsSum(f, u) /\ v = f[File]

LEMMA SubsetFacts ==
    /\ \A s \in SUBSET File : IsFiniteSet(s) /\ Cardinality(s) \in Nat /\ (Cardinality(s) = 0 <=> s = {})
    /\ \A s \in SUBSET File : s # {} =>
          First(s) \in s /\ First(s) \in File /\ s \ {First(s)} \in SUBSET File
          /\ Cardinality(s \ {First(s)}) = Cardinality(s) - 1
  <1>1. \A s \in SUBSET File : IsFiniteSet(s) /\ Cardinality(s) \in Nat /\ (Cardinality(s) = 0 <=> s = {})
    BY FilesAreFinite, FS_Subset, FS_CardinalityType, FS_EmptySet DEF FilesAreFinite
  <1>2. ASSUME NEW s \in SUBSET File, s # {}
        PROVE  First(s) \in s /\ Cardinality(s \ {First(s)}) = Cardinality(s) - 1
    <2>1. First(s) \in s
      BY <1>2 DEF First
    <2> QED
      BY <1>1, <2>1, FS_RemoveElement
  <1> QED
    BY <1>1, <1>2

LEMMA SumExists == ASSUME NEW u \in [File -> Int] PROVE \E f : IsSum(f, u)
  <1> DEFINE A(n) == {s \in SUBSET File : Cardinality(s) <= n}
             Value(f, s) == IF s = {} THEN 0 ELSE u[First(s)] + f[s \ {First(s)}]
             Good == {n \in Nat : \E f \in [A(n) -> Int] : \A s \in A(n) : f[s] = Value(f, s)}
  <1>1. 0 \in Good
    <2>1. A(0) = {{}}
      BY SubsetFacts
    <2>2. PICK f : f = [s \in A(0) |-> 0]
      OBVIOUS
    <2>3. f \in [A(0) -> Int]
      BY <2>2
    <2>4. \A s \in A(0) : f[s] = Value(f, s)
      BY <2>1, <2>2
    <2> QED
      BY <2>3, <2>4
  <1>2. ASSUME NEW n \in Nat, n \in Good PROVE n + 1 \in Good
    <2>1. PICK f \in [A(n) -> Int] : \A s \in A(n) : f[s] = Value(f, s)
      BY <1>2
    <2>2. PICK h : h = [s \in A(n + 1) |-> IF s \in A(n) THEN f[s] ELSE Value(f, s)]
      OBVIOUS
    <2>3. ASSUME NEW s \in A(n + 1), s # {}
          PROVE  s \ {First(s)} \in A(n) /\ s \ {First(s)} \in A(n + 1) /\ u[First(s)] \in Int
      <3>1. Cardinality(s) \in Nat /\ Cardinality(s) <= n + 1
        BY SubsetFacts
      <3>2. s \ {First(s)} \in SUBSET File /\ Cardinality(s \ {First(s)}) = Cardinality(s) - 1
            /\ First(s) \in File
        BY <2>3, SubsetFacts
      <3> QED
        BY <3>1, <3>2
    <2>4. {} \in A(n)
      BY SubsetFacts
    <2> HIDE DEF A
    <2>5. ASSUME NEW s \in A(n + 1) PROVE h[s] \in Int /\ h[s] = Value(h, s)
      <3>1. CASE s \in A(n)
        <4>1. h[s] = f[s] /\ h[s] \in Int
          BY <2>1, <2>2, <3>1
        <4>2. s # {} => h[s \ {First(s)}] = f[s \ {First(s)}]
          BY <2>2, <2>3
        <4>3. f[s] = Value(f, s)
          BY <2>1, <3>1
        <4> QED
          BY <4>1, <4>2, <4>3
      <3>2. CASE s \notin A(n)
        <4>1. s # {}
          BY <2>4, <3>2
        <4>2. s \ {First(s)} \in A(n) /\ s \ {First(s)} \in A(n + 1) /\ u[First(s)] \in Int
          BY <2>3, <4>1
        <4>3. h[s] = Value(f, s) /\ h[s \ {First(s)}] = f[s \ {First(s)}]
          BY <2>2, <3>2, <4>2
        <4>4. f[s \ {First(s)}] \in Int
          BY <2>1, <4>2
        <4> QED
          BY <4>1, <4>2, <4>3, <4>4
      <3> QED
        BY <3>1, <3>2
    <2>6. h \in [A(n + 1) -> Int]
      BY <2>2, <2>5
    <2> HIDE DEF Value
    <2> QED
      BY <2>5, <2>6
  <1>3. Nat \subseteq Good
    <2> HIDE DEF Good
    <2> QED
      BY <1>1, <1>2, Induction
  <1>4. Cardinality(File) \in Nat /\ A(Cardinality(File)) = SUBSET File
    BY FilesAreFinite, FS_Subset, FS_CardinalityType DEF FilesAreFinite
  <1>5. PICK f \in [A(Cardinality(File)) -> Int] : \A s \in A(Cardinality(File)) : f[s] = Value(f, s)
    BY <1>3, <1>4
  <1> QED
    BY <1>4, <1>5 DEF IsSum

\* Two sums differ by what the values of one transcript do.
LEMMA SumsDiffer ==
    ASSUME NEW u \in [File -> Int], NEW v \in [File -> Int], NEW x, \A y \in File \ {x} : v[y] = u[y],
           NEW f, NEW h, IsSum(f, u), IsSum(h, v)
    PROVE  h[File] = IF x \in File THEN f[File] + v[x] - u[x] ELSE f[File]
  <1> DEFINE Differ(s) == h[s] = IF x \in s THEN f[s] + v[x] - u[x] ELSE f[s]
             Good == {n \in Nat : \A s \in SUBSET File : Cardinality(s) = n => Differ(s)}
  <1>1. 0 \in Good
    <2>1. Differ({})
      BY DEF IsSum
    <2> QED
      BY <2>1, SubsetFacts
  <1>2. ASSUME NEW n \in Nat, n \in Good PROVE n + 1 \in Good
    <2> SUFFICES ASSUME NEW s \in SUBSET File, Cardinality(s) = n + 1 PROVE Differ(s)
      OBVIOUS
    <2>1. s # {}
      BY SubsetFacts
    <2>2. PICK y, r : y = First(s) /\ r = s \ {First(s)}
      OBVIOUS
    <2>3. y \in s /\ y \in File /\ r \in SUBSET File /\ Cardinality(r) = n
      BY <2>1, <2>2, SubsetFacts
    <2>4. h[s] = v[y] + h[r] /\ f[s] = u[y] + f[r]
      BY <2>1, <2>2 DEF IsSum
    <2>5. Differ(r)
      BY <1>2, <2>3
    <2>6. h[r] \in Int /\ f[r] \in Int /\ u[y] \in Int /\ v[y] \in Int
      BY <2>3 DEF IsSum
    <2>7. CASE y = x
      <3>1. x \in s /\ x \notin r
        BY <2>2, <2>3, <2>7
      <3> QED
        BY <2>4, <2>5, <2>6, <2>7, <3>1
    <2>8. CASE y # x
      <3>1. (x \in s <=> x \in r) /\ v[y] = u[y]
        BY <2>2, <2>3, <2>8
      <3>2. x \in s => v[x] \in Int /\ u[x] \in Int
        OBVIOUS
      <3> QED
        BY <2>4, <2>5, <2>6, <3>1, <3>2
    <2> QED
      BY <2>7, <2>8
  <1>3. Nat \subseteq Good
    <2> HIDE DEF Good
    <2> QED
      BY <1>1, <1>2, Induction
  <1>4. Cardinality(File) \in Good /\ File \in SUBSET File
    <2> HIDE DEF Good
    <2> QED
      BY <1>3, SubsetFacts
  <1> QED
    BY <1>4

LEMMA SumIs == ASSUME NEW u \in [File -> Int], NEW f, IsSum(f, u) PROVE Sum(u) = f[File]
  <1>1. ASSUME NEW h, IsSum(h, u) PROVE h[File] = f[File]
    <2>1. h[File] = IF 0 \in File THEN f[File] + u[0] - u[0] ELSE f[File]
      BY <1>1, SumsDiffer
    <2>2. f[File] \in Int /\ (0 \in File => u[0] \in Int)
      BY DEF IsSum
    <2> QED
      BY <2>1, <2>2
  <1> QED
    BY <1>1 DEF Sum

LEMMA SumFacts ==
    /\ \A u \in [File -> Int] : Sum(u) \in Int /\ ((\A x \in File : u[x] = 0) => Sum(u) = 0)
    /\ \A u, v \in [File -> Int], x \in File :
          (\A y \in File \ {x} : v[y] = u[y]) => Sum(v) = Sum(u) + v[x] - u[x]
  <1>1. ASSUME NEW u \in [File -> Int]
        PROVE  Sum(u) \in Int /\ ((\A x \in File : u[x] = 0) => Sum(u) = 0)
    <2>1. PICK f : IsSum(f, u)
      BY SumExists
    <2>2. Sum(u) = f[File] /\ f[File] \in Int
      BY <2>1, SumIs DEF IsSum
    <2>3. ASSUME \A x \in File : u[x] = 0 PROVE Sum(u) = 0
      <3>1. PICK z : z = [s \in SUBSET File |-> 0]
        OBVIOUS
      <3>2. z \in [SUBSET File -> Int] /\ \A s \in SUBSET File : z[s] = 0
        BY <3>1
      <3>3. ASSUME NEW s \in SUBSET File, s # {} PROVE z[s] = u[First(s)] + z[s \ {First(s)}]
        <4>1. u[First(s)] = 0
          BY <2>3, <3>3, SubsetFacts
        <4>2. z[s] = 0 /\ z[s \ {First(s)}] = 0
          BY <3>2
        <4> QED
          BY <4>1, <4>2
      <3>4. z[{}] = 0
        BY <3>2
      <3>5. IsSum(z, u)
        BY <3>2, <3>3, <3>4 DEF IsSum
      <3> QED
        BY <3>2, <3>5, SumIs
    <2> QED
      BY <2>2, <2>3
  <1>2. ASSUME NEW u \in [File -> Int], NEW v \in [File -> Int], NEW x \in File,
               \A y \in File \ {x} : v[y] = u[y]
        PROVE  Sum(v) = Sum(u) + v[x] - u[x]
    <2>1. PICK f : IsSum(f, u)
      BY SumExists
    <2>2. PICK h : IsSum(h, v)
      BY SumExists
    <2>3. Sum(u) = f[File] /\ Sum(v) = h[File]
      BY <2>1, <2>2, SumIs
    <2>4. h[File] = IF x \in File THEN f[File] + v[x] - u[x] ELSE f[File]
      BY <1>2, <2>1, <2>2, SumsDiffer
    <2> QED
      BY <2>3, <2>4
  <1> QED
    BY <1>1, <1>2

LEMMA WholeType == ASSUME NEW from \in Nat, NEW to \in Nat PROVE whole(from, to) \in Nat
  BY DEF whole

\* The types of what is read of the transcripts.
Counts == size \in [File -> Nat] /\ kept \in [File -> BOOLEAN] /\ offset \in [File -> Nat]

LEMMA UnreadType == ASSUME Counts, NEW f \in File PROVE unread(f) \in Nat
  BY WholeType DEF Counts, unread, position

LEMMA UnreadTypeNext ==
    ASSUME Counts', NEW f \in File PROVE unread(f)' \in Nat
  <1>1. (IF kept[f] THEN offset[f] ELSE 0)' \in Nat  BY DEF Counts
  <1> QED  BY <1>1, WholeType DEF Counts, unread, position

\* The lines yet to be read.
Unread == [f \in File |-> unread(f)]

UnreadIsSummed == MapThenSumSet(unread, File) = Sum(Unread) /\ Sum(Unread) \in Int

LEMMA Summed == Counts => UnreadIsSummed
  <1> SUFFICES ASSUME Counts PROVE UnreadIsSummed
    OBVIOUS
  <1> DEFINE Body(f, s) == IF s = {} THEN 0
                           ELSE LET x == CHOOSE x \in s : TRUE IN unread(x) + f[s \ {x}]
             iter == CHOOSE f : f = [s \in SUBSET File |-> Body(f, s)]
  <1>1. MapThenSumSet(unread, File) = iter[File]
    BY DEF MapThenSumSet, MapThenFoldSet
  <1>2. PICK u \in [File -> Int] : u = Unread
    <2>1. \A f \in File : unread(f) \in Int
      BY UnreadType
    <2>2. Unread \in [File -> Int]
      BY <2>1 DEF Unread
    <2> QED
      BY <2>2
  <1>3. ASSUME NEW s \in SUBSET File, NEW f
        PROVE  Body(f, s) = IF s = {} THEN 0 ELSE u[First(s)] + f[s \ {First(s)}]
    BY <1>2, SubsetFacts DEF First, Unread
  <1> HIDE DEF Body
  <1>4. PICK f : IsSum(f, u)
    BY SumExists
  <1>5. f = [s \in SUBSET File |-> Body(f, s)]
    BY <1>3, <1>4 DEF IsSum
  <1>6. iter = [s \in SUBSET File |-> Body(iter, s)]
    BY <1>5
  <1> HIDE DEF iter
  <1> DEFINE Good == {n \in Nat : \A s \in SUBSET File : Cardinality(s) = n => iter[s] = f[s]}
  <1>7. 0 \in Good
    <2>1. iter[{}] = Body(iter, {})
      BY <1>6
    <2>2. iter[{}] = 0 /\ f[{}] = 0
      BY <1>3, <1>4, <2>1 DEF IsSum
    <2> QED
      BY <2>2, SubsetFacts
  <1>8. ASSUME NEW n \in Nat, n \in Good PROVE n + 1 \in Good
    <2> SUFFICES ASSUME NEW s \in SUBSET File, Cardinality(s) = n + 1 PROVE iter[s] = f[s]
      OBVIOUS
    <2>1. s # {}
      BY SubsetFacts
    <2>2. s \ {First(s)} \in SUBSET File /\ Cardinality(s \ {First(s)}) = n
      BY <2>1, SubsetFacts
    <2>3. iter[s \ {First(s)}] = f[s \ {First(s)}]
      BY <1>8, <2>2
    <2>4. iter[s] = Body(iter, s)
      BY <1>6
    <2>5. Body(iter, s) = u[First(s)] + iter[s \ {First(s)}]
      BY <1>3, <2>1
    <2> QED
      BY <1>4, <2>1, <2>3, <2>4, <2>5 DEF IsSum
  <1>9. Nat \subseteq Good
    <2> HIDE DEF Good
    <2> QED
      BY <1>7, <1>8, Induction
  <1>10. iter[File] = f[File]
    <2>1. Cardinality(File) \in Nat /\ File \in SUBSET File
      BY SubsetFacts
    <2> QED
      BY <1>9, <2>1
  <1>11. Sum(u) = f[File]
    BY <1>4, SumIs
  <1>12. Sum(u) \in Int
    BY SumFacts
  <1> QED
    BY <1>1, <1>2, <1>10, <1>11, <1>12 DEF UnreadIsSummed

LEMMA SummedNext == Counts' => UnreadIsSummed'
  BY Summed, PTL

-----------------------------------------------------------------------------
(* Types. *)

LEMMA DefaultType == Default \in PersistedTokens /\ Default.today = 0 /\ Default.cumulative = 0
  BY MaxDayAssumption DEF Default, PersistedTokens, MaxDayAssumption

LEMMA CatchUpType ==
    ASSUME TypeOK, NEW tokens \in PersistedTokens, NEW who \in {"start", "midnight"}
    PROVE  /\ catch_up(tokens, who) \in PersistedTokens
           /\ catch_up(tokens, who).date = day
           /\ catch_up(tokens, who).today = 0
           /\ catch_up(tokens, who).cumulative = tokens.cumulative
           /\ catch_up(tokens, who).by = who
  BY DEF TypeOK, catch_up, PersistedTokens, Date

LEMMA AdoptType ==
    ASSUME TypeOK, NEW tokens \in PersistedTokens
    PROVE  /\ adopt(tokens) \in PersistedTokens
           /\ adopt(tokens).date \in Date
           /\ adopt(tokens).today = tokens.today
           /\ adopt(tokens).cumulative = tokens.cumulative
           /\ tokens.date # 0 => adopt(tokens).date = tokens.date
  <1> DEFINE date == IF tokens.date = 0 THEN day ELSE tokens.date
  <1>1. /\ tokens.date \in 0..MaxDay /\ tokens.today \in Nat /\ tokens.cumulative \in Nat
        /\ tokens.by \in {"nobody", "start", "watcher", "midnight"}
    BY DEF PersistedTokens
  <1>2. date \in Date /\ date \in 0..MaxDay
    <2>1. day \in Date
      BY DEF TypeOK
    <2>2. tokens.date # 0 => tokens.date \in Date
      BY <1>1 DEF Date
    <2>3. date \in Date
      BY <2>1, <2>2
    <2> HIDE DEF date
    <2>4. Date \subseteq 0..MaxDay
      BY DEF Date
    <2> QED  BY <2>3, <2>4
  <1>3. adopt(tokens) = [date |-> date, today |-> tokens.today,
                         cumulative |-> tokens.cumulative, by |-> tokens.by]
    BY DEF adopt
  <1> HIDE DEF date
  <1>4. adopt(tokens) \in PersistedTokens
    BY <1>1, <1>2, <1>3 DEF PersistedTokens
  <1>5. adopt(tokens).date = date
    BY <1>3
  <1> QED  BY <1>2, <1>3, <1>4, <1>5 DEF date

LEMMA SnapshotType ==
    ASSUME TypeOK
    PROVE  /\ snapshot \in PersistedTokens
           /\ snapshot.date = memory.current_date
           /\ snapshot.today = memory.today
           /\ snapshot.cumulative = memory.cumulative
           /\ snapshot.by = "watcher"
  BY DEF TypeOK, snapshot, PersistedTokens, Date

LEMMA RememberType ==
    ASSUME NEW tokens \in PersistedTokens, tokens.date \in Date, remember(tokens)
    PROVE  /\ memory' \in [cumulative : Nat, today : Nat, current_date : Date, dirty : BOOLEAN]
           /\ memory'.cumulative = tokens.cumulative
           /\ memory'.today = tokens.today
           /\ memory'.current_date = tokens.date
           /\ memory'.dirty = FALSE
  BY DEF remember, PersistedTokens

LEMMA SendType ==
    ASSUME TypeOK, NEW m \in Message, send(m) PROVE queue' \in Seq(Message)
  BY DEF TypeOK, send

LEMMA ReceiveType ==
    ASSUME TypeOK, NEW type, receive(type)
    PROVE  Head(queue) \in Message /\ queue' \in Seq(Message)
  BY DEF TypeOK, receive

LEMMA SpendType ==
    ASSUME TypeOK, NEW b \in Bound, spend(b) PROVE left' \in [Bound -> Nat]
  BY DEF TypeOK, spend

LEMMA FaultType == ASSUME TypeOK, Fault PROVE left' \in [Bound -> Nat]
  BY SpendType DEF Fault, Bound

LEMMA RenameType ==
    ASSUME TypeOK, rename \/ renameFails
    PROVE  disk' \in PersistedTokens /\ tmp' \in PersistedTokens \cup {NoFile}
  BY DEF TypeOK, rename, renameFails, files

LEMMA TouchedType ==
    ASSUME TypeOK, NEW f \in File, Touched(f)
    PROVE  notified' \subseteq File /\ overlooked' \subseteq File
  BY DEF TypeOK, Touched

LEMMA InitType == ASSUME Init PROVE TypeOK
  <1> USE BoundsAssumption, MaxDayAssumption DEF BoundsAssumption, MaxDayAssumption
  <1>1. memory \in [cumulative : Nat, today : Nat, current_date : Date, dirty : BOOLEAN]
    BY DEF Init, NoMemory, Date
  <1>2. left \in [Bound -> Nat]
    BY DEF Init
  <1>3. agg \in [cumulative : Nat, today : Nat, date : 0..MaxDay]
    BY DEF Init
  <1>4. midnight \in [pc : {"down", "asleep", "loaded", "saving", "tell"}, copy : PersistedTokens]
    BY DefaultType DEF Init
  <1>5. day \in Date /\ expected \in Int /\ counted \in [0..MaxDay -> Nat]
    BY DEF Init, Date
  <1>6. midnight.pc = "down" /\ queue \in Seq(Message)
    BY DEF Init
  <1> QED  BY <1>1, <1>2, <1>3, <1>4, <1>5, <1>6, DefaultType DEF Init, TypeOK

-----------------------------------------------------------------------------
LEMMA EnvironmentType == ASSUME TypeOK, Environment PROVE TypeOK'
  <1> USE DEF transcripts, watcher, files, spawned, history
  <1>1. CASE DayBreaks
    <2>1. day' \in Date
      BY <1>1, MaxDayAssumption DEF TypeOK, DayBreaks, Date, MaxDayAssumption
    <2> QED  BY <1>1, <2>1 DEF TypeOK, DayBreaks
  <1>2. ASSUME NEW f \in File, Write(f) PROVE TypeOK'
    <2>1. size' \in [File -> Nat] /\ offset' \in [File -> Nat]
      <3>1. size' = [size EXCEPT ![f] = @ + 1] /\ offset' = offset
        BY <1>2 DEF Write
      <3>2. size \in [File -> Nat] /\ offset \in [File -> Nat]
        BY DEF TypeOK
      <3> QED  BY <3>1, <3>2
    <2>2. expected' \in Int
      BY <1>2, <2>1, UnreadType, UnreadTypeNext DEF TypeOK, Counts, Write
    <2>3. left' \in [Bound -> Nat]
      BY <1>2, SpendType DEF Write, Bound
    <2> QED  BY <1>2, <2>1, <2>2, <2>3, TouchedType DEF TypeOK, Write
  <1>3. ASSUME NEW f \in File, Replace(f) PROVE TypeOK'
    <2>1. size' \in [File -> Nat] /\ offset' \in [File -> Nat]
      BY <1>3 DEF TypeOK, Replace
    <2>4. kept' \in [File -> BOOLEAN]
      BY <1>3 DEF TypeOK, Replace
    <2>2. expected' \in Int
      BY <1>3, <2>1, <2>4, UnreadType, UnreadTypeNext DEF TypeOK, Counts, Replace
    <2>3. left' \in [Bound -> Nat]
      BY <1>3, SpendType DEF Replace, Bound
    <2> QED  BY <1>3, <2>1, <2>2, <2>3, <2>4, TouchedType DEF TypeOK, Replace
  <1> QED  BY <1>1, <1>2, <1>3 DEF Environment

LEMMA DaemonType == ASSUME TypeOK, Daemon PROVE TypeOK'
  <1> USE DEF transcripts, watcher, files, spawned, history
  <1>1. CASE Start
    <2>1. midnight' \in [pc : {"down", "asleep", "loaded", "saving", "tell"}, copy : PersistedTokens]
      BY <1>1 DEF TypeOK, Start
    <2>2. CASE ~stale(disk) /\ remember(adopt(disk)) /\ UNCHANGED <<files, queue, left>>
      <3>1. memory' \in [cumulative : Nat, today : Nat, current_date : Date, dirty : BOOLEAN]
        BY <2>2, AdoptType, RememberType DEF TypeOK
      <3> QED  BY <1>1, <2>1, <2>2, <3>1 DEF TypeOK, Start
    <2>3. CASE /\ remember(catch_up(disk, "start"))
               /\ send([type |-> "DailyReset", date |-> day])
               /\ \/ disk' = catch_up(disk, "start") /\ tmp' = NoFile /\ UNCHANGED left
                  \/ Fault /\ UNCHANGED files
      <3>1. day \in Date /\ disk \in PersistedTokens  BY DEF TypeOK
      <3>2. catch_up(disk, "start") \in PersistedTokens /\ catch_up(disk, "start").date \in Date
        BY <3>1, CatchUpType
      <3>3. memory' \in [cumulative : Nat, today : Nat, current_date : Date, dirty : BOOLEAN]
        BY <2>3, <3>2, RememberType
      <3>4. [type |-> "DailyReset", date |-> day] \in Message
        BY <3>1 DEF Message
      <3>5. queue' \in Seq(Message)
        BY <2>3, <3>4, SendType
      <3>6. left' \in [Bound -> Nat]
        BY <2>3, FaultType DEF TypeOK
      <3>7. disk' \in PersistedTokens /\ tmp' \in PersistedTokens \cup {NoFile}
        BY <2>3, <3>2 DEF TypeOK
      <3> QED  BY <1>1, <2>1, <3>3, <3>5, <3>6, <3>7 DEF TypeOK, Start
    <2> QED  BY <1>1, <2>2, <2>3 DEF Start
  <1>2. CASE SnapshotExisting
    <2>1. [type |-> "SetInitialTokens", cumulative |-> memory.cumulative,
           today |-> memory.today, date |-> memory.current_date] \in Message
      BY DEF TypeOK, Message
    <2>2. queue' \in Seq(Message)
      BY <1>2, <2>1, SendType DEF SnapshotExisting
    <2>3. snapshot_existing /\ size' = size
      BY <1>2 DEF SnapshotExisting
    <2>4. left' \in [Bound -> Nat] /\ overlooked' \subseteq File
      BY <2>3, FaultType DEF TypeOK, snapshot_existing
    <2>5. Counts'
      BY <2>3 DEF TypeOK, Counts, snapshot_existing
    <2>6. expected' \in Int
      <3>1. MapThenSumSet(unread, File)' \in Int
        BY <2>5, SummedNext DEF UnreadIsSummed
      <3>2. expected' = memory.cumulative + MapThenSumSet(unread, File)' /\ memory.cumulative \in Int
        BY <2>3 DEF snapshot_existing, TypeOK
      <3> QED  BY <3>1, <3>2
    <2> QED  BY <1>2, <2>2, <2>4, <2>5, <2>6 DEF TypeOK, Counts, SnapshotExisting
  <1>3. CASE Watch
    BY <1>3 DEF TypeOK, Watch, AtWork
  <1>4. CASE Stop
    <2>1. memory' \in [cumulative : Nat, today : Nat, current_date : Date, dirty : BOOLEAN]
      BY <1>4, MaxDayAssumption DEF Stop, NoMemory, Date, MaxDayAssumption
    <2>2. left' \in [Bound -> Nat]
      BY <1>4, SpendType DEF Stop, Bound
    <2>3. agg' \in [cumulative : Nat, today : Nat, date : 0..MaxDay]
      BY <1>4, MaxDayAssumption DEF Stop, MaxDayAssumption
    <2>4. midnight' \in [pc : {"down", "asleep", "loaded", "saving", "tell"}, copy : PersistedTokens]
      BY <1>4, DefaultType DEF Stop
    <2>5. midnight'.pc = "down" /\ queue' \in Seq(Message)
      BY <1>4 DEF Stop
    <2>6. offset' \in [File -> Nat] /\ expected' \in Int
      BY <1>4 DEF Stop
    <2> QED  BY <1>4, <2>1, <2>2, <2>3, <2>4, <2>5, <2>6 DEF TypeOK, Stop
  <1> QED  BY <1>1, <1>2, <1>3, <1>4 DEF Daemon

LEMMA WatcherType == ASSUME TypeOK, Watcher PROVE TypeOK'
  <1> USE DEF transcripts, watcher, files, spawned, history, AtWork
  <1>1. ASSUME NEW f \in File, handle_event(f) PROVE TypeOK'
    <2>1. kept' \in [File -> BOOLEAN]  BY <1>1 DEF TypeOK, handle_event, position
    <2>2. offset' \in [File -> Nat]  BY <1>1 DEF TypeOK, handle_event, position
    <2> QED  BY <1>1, <2>1, <2>2 DEF TypeOK, handle_event, position
  <1>2. ASSUME NEW f \in File, OpenFails(f) PROVE TypeOK'
    BY <1>2, FaultType DEF TypeOK, OpenFails
  <1>3. CASE EndOfFile
    BY <1>3 DEF TypeOK, EndOfFile
  <1>4. CASE DrainFails
    BY <1>4, FaultType DEF TypeOK, DrainFails
  <1>5. CASE SkipFragment
    BY <1>5 DEF TypeOK, SkipFragment
  <1>6. CASE RollOver
    <2>1. memory' \in [cumulative : Nat, today : Nat, current_date : Date, dirty : BOOLEAN]
      BY <1>6 DEF TypeOK, RollOver
    <2>2. snapshot' \in PersistedTokens
      BY <2>1 DEF snapshot, PersistedTokens, Date
    <2>3. left' \in [Bound -> Nat]
      BY <1>6, FaultType DEF TypeOK, RollOver
    <2>4. tmp' \in PersistedTokens \cup {NoFile}
      BY <1>6, <2>2 DEF TypeOK, RollOver, write
    <2>5. resets' \subseteq Date /\ day' \in Date
      BY <1>6 DEF TypeOK, RollOver
    <2>6. pc' \in AtWork
      BY <1>6 DEF RollOver
    <2> QED  BY <1>6, <2>1, <2>3, <2>4, <2>5, <2>6 DEF TypeOK, RollOver
  <1>7. CASE RolloverSaved
    BY <1>7, RenameType DEF TypeOK, RolloverSaved
  <1>8. CASE CountLine
    <2>1. memory' \in [cumulative : Nat, today : Nat, current_date : Date, dirty : BOOLEAN]
      BY <1>8 DEF TypeOK, CountLine
    <2>2. counted' \in [0..MaxDay -> Nat]
      <3>1. counted' = [counted EXCEPT ![memory.current_date] = @ + 1]
        BY <1>8 DEF CountLine
      <3>2. counted \in [0..MaxDay -> Nat] /\ memory.current_date \in 0..MaxDay
        BY DEF TypeOK, Date
      <3> QED  BY <3>1, <3>2
    <2>3. offset' \in [File -> Nat]
      BY <1>8 DEF TypeOK, CountLine
    <2>4. updates' \in Nat  BY <1>8 DEF TypeOK, CountLine
    <2>5. pc' \in AtWork  BY <1>8 DEF CountLine
    <2>6. UNCHANGED <<day, transcripts, notified, at, files, midnight, resets, queue, agg,
                      left, expected, rolled, overlooked>>
      BY <1>8 DEF CountLine
    <2> QED  BY <2>1, <2>2, <2>3, <2>4, <2>5, <2>6 DEF TypeOK
  <1>9. CASE PersistTick
    <2>1. left' \in [Bound -> Nat]
      BY <1>9, FaultType DEF TypeOK, PersistTick
    <2>2. tmp' \in PersistedTokens \cup {NoFile}
      BY <1>9, SnapshotType DEF TypeOK, PersistTick, write
    <2>3. pc' \in AtWork
      BY <1>9 DEF PersistTick
    <2> QED  BY <1>9, <2>1, <2>2, <2>3 DEF TypeOK, PersistTick
  <1>10. CASE TickSaved
    <2>1. disk' \in PersistedTokens /\ tmp' \in PersistedTokens \cup {NoFile}
      BY <1>10, RenameType DEF TickSaved
    <2>2. memory' \in [cumulative : Nat, today : Nat, current_date : Date, dirty : BOOLEAN]
      BY <1>10 DEF TypeOK, TickSaved
    <2> QED  BY <1>10, <2>1, <2>2 DEF TypeOK, TickSaved
  <1> QED  BY <1>1, <1>2, <1>3, <1>4, <1>5, <1>6, <1>7, <1>8, <1>9, <1>10 DEF Watcher

LEMMA MidnightType == ASSUME TypeOK, Midnight PROVE TypeOK'
  <1> USE DEF transcripts, watcher, files, spawned, history
  <1> DEFINE Task == [pc : {"down", "asleep", "loaded", "saving", "tell"}, copy : PersistedTokens]
  <1>1. CASE MidnightLoads
    <2>1. midnight' \in Task
      BY <1>1, CatchUpType DEF TypeOK, MidnightLoads
    <2>2. midnight'.copy.date # 0
      <3>1. midnight'.copy = catch_up(disk, "midnight")
        BY <1>1 DEF MidnightLoads
      <3>2. disk \in PersistedTokens /\ day \in Date
        BY DEF TypeOK
      <3>3. catch_up(disk, "midnight").date = day
        BY <3>2, CatchUpType
      <3> QED  BY <3>1, <3>2, <3>3 DEF Date
    <2> QED  BY <1>1, <2>1, <2>2 DEF TypeOK, MidnightLoads
  <1>2. CASE MidnightWrites
    <2>1. midnight' \in Task  BY <1>2 DEF TypeOK, MidnightWrites
    <2>2. left' \in [Bound -> Nat]
      BY <1>2, FaultType DEF TypeOK, MidnightWrites
    <2>3. tmp' \in PersistedTokens \cup {NoFile}
      BY <1>2 DEF TypeOK, MidnightWrites, write
    <2> QED  BY <1>2, <2>1, <2>2, <2>3 DEF TypeOK, MidnightWrites
  <1>3. CASE MidnightSaved
    <2>1. midnight' \in Task  BY <1>3 DEF TypeOK, MidnightSaved
    <2> QED  BY <1>3, <2>1, RenameType DEF TypeOK, MidnightSaved
  <1>4. CASE MidnightTells
    <2>0. midnight.copy.date \in Date
      <3>1. midnight.copy \in PersistedTokens /\ midnight.copy.date # 0
        BY <1>4 DEF TypeOK, MidnightTells
      <3>2. midnight.copy.date \in 0..MaxDay
        BY <3>1 DEF PersistedTokens
      <3> QED  BY <3>1, <3>2 DEF Date
    <2>1. [type |-> "DailyReset", date |-> midnight.copy.date] \in Message
      BY <2>0 DEF Message
    <2>2. queue' \in Seq(Message)
      BY <1>4, <2>1, SendType DEF MidnightTells
    <2>3. midnight' \in Task  BY <1>4, DefaultType DEF MidnightTells
    <2> QED  BY <1>4, <2>2, <2>3 DEF TypeOK, MidnightTells
  <1> QED  BY <1>1, <1>2, <1>3, <1>4 DEF Midnight

LEMMA AggregatorType == ASSUME TypeOK, Aggregator PROVE TypeOK'
  <1> USE DEF transcripts, watcher, files, spawned, history
  <1>1. CASE SendUpdate
    <2>1. [type |-> "TokensUpdate"] \in Message  BY DEF Message
    <2>2. queue' \in Seq(Message)
      BY <1>1, <2>1, SendType DEF SendUpdate
    <2>3. updates' \in Nat  BY <1>1 DEF TypeOK, SendUpdate
    <2> QED  BY <1>1, <2>2, <2>3 DEF TypeOK, SendUpdate
  <1>2. CASE SendReset
    <2>1. PICK d \in resets : send([type |-> "DailyReset", date |-> d]) /\ resets' = resets \ {d}
      BY <1>2 DEF SendReset
    <2>2. [type |-> "DailyReset", date |-> d] \in Message  BY DEF TypeOK, Message
    <2>3. queue' \in Seq(Message)
      BY <2>1, <2>2, SendType
    <2> QED  BY <1>2, <2>1, <2>3 DEF TypeOK, SendReset
  <1>3. CASE TokensUpdate
    <2>1. agg' \in [cumulative : Nat, today : Nat, date : 0..MaxDay]
      BY <1>3 DEF TypeOK, TokensUpdate
    <2>2. queue' \in Seq(Message)  BY <1>3, ReceiveType DEF TokensUpdate
    <2> QED  BY <1>3, <2>1, <2>2 DEF TypeOK, TokensUpdate
  <1>4. CASE SetInitialTokens
    <2>1. Head(queue) \in Message /\ queue' \in Seq(Message) /\ Head(queue).type = "SetInitialTokens"
      BY <1>4, ReceiveType DEF SetInitialTokens, receive
    <2>2. Head(queue).cumulative \in Nat /\ Head(queue).today \in Nat /\ Head(queue).date \in Date
      BY <2>1 DEF Message
    <2>3. agg' \in [cumulative : Nat, today : Nat, date : 0..MaxDay]
      BY <1>4, <2>2 DEF TypeOK, SetInitialTokens, larger, Date
    <2> QED  BY <1>4, <2>1, <2>3 DEF TypeOK, SetInitialTokens
  <1>5. CASE DailyReset
    <2>1. Head(queue) \in Message /\ queue' \in Seq(Message) /\ Head(queue).type = "DailyReset"
      BY <1>5, ReceiveType DEF DailyReset, receive
    <2>2. Head(queue).date \in Date
      BY <2>1 DEF Message
    <2>3. agg' \in [cumulative : Nat, today : Nat, date : 0..MaxDay]
      BY <1>5, <2>2 DEF TypeOK, DailyReset, Date
    <2> QED  BY <1>5, <2>1, <2>3 DEF TypeOK, DailyReset
  <1> QED  BY <1>1, <1>2, <1>3, <1>4, <1>5 DEF Aggregator

LEMMA NextType == ASSUME TypeOK, [Next]_vars PROVE TypeOK'
  <1>1. CASE UNCHANGED vars
    BY <1>1 DEF TypeOK, vars, transcripts, watcher, files, spawned, history
  <1> QED
    BY <1>1, EnvironmentType, DaemonType, WatcherType, MidnightType, AggregatorType DEF Next

\* Every variable of the tracker keeps its type.
THEOREM TypeCorrect == Spec => []TypeOK
  <1>1. Init => TypeOK  BY InitType
  <1>2. TypeOK /\ [Next]_vars => TypeOK'  BY NextType
  <1> QED  BY <1>1, <1>2, PTL DEF Spec

-----------------------------------------------------------------------------
(* Counts of today. *)

\* No step forgets a line it has counted.
LEMMA CountedGrows ==
    ASSUME TypeOK, [Next]_vars
    PROVE  \A d \in 0..MaxDay : counted[d] <= counted'[d] /\ (d = 0 => counted'[d] = counted[d])
  <1> USE DEF transcripts, watcher, files, spawned, history
  <1>0. \A d \in 0..MaxDay : counted[d] \in Nat
    BY DEF TypeOK
  <1>1. CASE UNCHANGED counted
    BY <1>0, <1>1
  <1>2. CASE CountLine
    <2>1. memory.current_date \in Date /\ counted \in [0..MaxDay -> Nat]
      BY DEF TypeOK
    <2>2. counted' = [counted EXCEPT ![memory.current_date] = @ + 1]
      BY <1>2 DEF CountLine
    <2> QED  BY <2>1, <2>2 DEF Date
  <1> QED
    BY <1>1, <1>2 DEF Next, vars, Environment, Daemon, Watcher, Midnight, Aggregator,
       DayBreaks, Write, Replace, Start, SnapshotExisting, snapshot_existing, Watch, Stop, handle_event, position,
       OpenFails, EndOfFile, DrainFails, SkipFragment, RollOver, RolloverSaved, PersistTick, TickSaved,
       MidnightLoads, MidnightWrites, MidnightSaved, MidnightTells, SendUpdate, SendReset,
       TokensUpdate, SetInitialTokens, DailyReset

\* A record whose count of today is of its date.
OfItsDate(tokens) == tokens.today <= counted[tokens.date]

LEMMA InvIsOfItsDate ==
    ASSUME TypeOK, TodayInv
    PROVE  OfItsDate(disk) /\ OfItsDate(midnight.copy) /\ OfItsDate(tmp)
  BY DEF TodayInv, TodayIsOfItsDate, OfItsDate

\* It stays so while it is kept, written or renamed.
LEMMA Keeps ==
    ASSUME TypeOK, [Next]_vars, NEW tokens \in PersistedTokens \cup {NoFile}, OfItsDate(tokens)
    PROVE  tokens.today <= counted'[tokens.date]
  <1>1. tokens.date \in 0..MaxDay /\ tokens.today \in Nat
    BY MaxDayAssumption DEF PersistedTokens, NoFile, MaxDayAssumption
  <1>2. counted[tokens.date] \in Nat /\ counted'[tokens.date] \in Nat
    BY <1>1, NextType DEF TypeOK
  <1>3. counted[tokens.date] <= counted'[tokens.date]
    BY <1>1, CountedGrows
  <1> QED  BY <1>1, <1>2, <1>3 DEF OfItsDate

LEMMA CatchUpIsOfItsDate ==
    ASSUME TypeOK, NEW tokens \in PersistedTokens, NEW who \in {"start", "midnight"}
    PROVE  OfItsDate(catch_up(tokens, who))
  <1>1. day \in 0..MaxDay /\ counted[day] \in Nat
    BY DEF TypeOK, Date
  <1> QED  BY <1>1, CatchUpType DEF OfItsDate

LEMMA AdoptIsOfItsDate ==
    ASSUME TypeOK, NoDateCountsNothing, NEW tokens \in PersistedTokens, OfItsDate(tokens)
    PROVE  OfItsDate(adopt(tokens))
  <1>1. tokens.date \in 0..MaxDay /\ tokens.today \in Nat
    BY DEF PersistedTokens
  <1>2. adopt(tokens).date \in Date /\ adopt(tokens).today = tokens.today
    BY AdoptType
  <1>3. CASE tokens.date # 0
    BY <1>3, AdoptType DEF OfItsDate
  <1>4. CASE tokens.date = 0
    <2>1. tokens.today = 0
      BY <1>1, <1>4 DEF OfItsDate, NoDateCountsNothing
    <2>2. counted[adopt(tokens).date] \in Nat
      <3>1. counted \in [0..MaxDay -> Nat]
        BY DEF TypeOK
      <3>2. adopt(tokens).date \in 0..MaxDay
        BY <1>2 DEF Date
      <3> QED  BY <3>1, <3>2
    <2> QED  BY <1>2, <2>1, <2>2 DEF OfItsDate
  <1> QED  BY <1>3, <1>4

LEMMA DefaultIsOfItsDate ==
    ASSUME TypeOK, NoDateCountsNothing PROVE OfItsDate(Default) /\ OfItsDate(NoFile)
  BY DEF OfItsDate, Default, NoFile, NoDateCountsNothing

\* The watcher's own count.
LEMMA MemoryKeeps ==
    ASSUME TypeOK, TodayInv, [Next]_vars PROVE MemoryIsOfItsDate'
  <1> USE DEF transcripts, watcher, files, spawned, history
  <1>0. TypeOK' /\ memory.today <= counted[memory.current_date] /\ NoDateCountsNothing
    BY NextType DEF TodayInv, MemoryIsOfItsDate
  <1>1. CASE UNCHANGED <<memory.today, memory.current_date>>
    <2>1. memory.current_date \in 0..MaxDay /\ memory.today \in Nat
      BY DEF TypeOK, Date
    <2>2. counted[memory.current_date] \in Nat /\ counted'[memory.current_date] \in Nat
      BY <1>0, <2>1 DEF TypeOK
    <2>3. counted[memory.current_date] <= counted'[memory.current_date]
      BY <2>1, CountedGrows
    <2> QED  BY <1>0, <1>1, <2>1, <2>2, <2>3 DEF MemoryIsOfItsDate
  <1>2. CASE Start
    <2>0. disk \in PersistedTokens /\ OfItsDate(disk) /\ UNCHANGED counted
      BY <1>2, InvIsOfItsDate DEF TypeOK, Start
    <2>1. CASE remember(adopt(disk))
      <3>1. OfItsDate(adopt(disk)) /\ adopt(disk) \in PersistedTokens /\ adopt(disk).date \in Date
        BY <1>0, <2>0, AdoptIsOfItsDate, AdoptType
      <3>2. memory'.today = adopt(disk).today /\ memory'.current_date = adopt(disk).date
        BY <2>1, <3>1, RememberType
      <3> QED  BY <2>0, <3>1, <3>2 DEF OfItsDate, MemoryIsOfItsDate
    <2>2. CASE remember(catch_up(disk, "start"))
      <3>0. day \in Date  BY DEF TypeOK
      <3>1. /\ OfItsDate(catch_up(disk, "start")) /\ catch_up(disk, "start") \in PersistedTokens
            /\ catch_up(disk, "start").date \in Date
        BY <2>0, <3>0, CatchUpIsOfItsDate, CatchUpType
      <3>2. /\ memory'.today = catch_up(disk, "start").today
            /\ memory'.current_date = catch_up(disk, "start").date
        BY <2>2, <3>1, RememberType
      <3> QED  BY <2>0, <3>1, <3>2 DEF OfItsDate, MemoryIsOfItsDate
    <2> QED  BY <1>2, <2>1, <2>2 DEF Start
  <1>3. CASE Stop \/ RollOver
    <2>1. memory'.today = 0
      <3>1. CASE Stop  BY <3>1 DEF Stop, NoMemory
      <3>2. CASE RollOver
        <4>1. memory \in [cumulative : Nat, today : Nat, current_date : Date, dirty : BOOLEAN]
          BY DEF TypeOK
        <4> QED  BY <3>2, <4>1 DEF RollOver
      <3> QED  BY <1>3, <3>1, <3>2
    <2>2. counted'[memory'.current_date] \in Nat
      <3>1. memory'.current_date \in Date /\ counted' \in [0..MaxDay -> Nat]
        BY <1>0 DEF TypeOK
      <3> QED  BY <3>1 DEF Date
    <2> QED  BY <2>1, <2>2 DEF MemoryIsOfItsDate
  <1>4. CASE CountLine
    <2>1. memory.current_date \in 0..MaxDay /\ memory.today \in Nat
      BY DEF TypeOK, Date
    <2>2. counted'[memory.current_date] = counted[memory.current_date] + 1
      BY <1>4, <2>1 DEF TypeOK, CountLine
    <2>3. memory'.today = memory.today + 1 /\ memory'.current_date = memory.current_date
      BY <1>4 DEF CountLine
    <2>4. counted[memory.current_date] \in Nat
      BY <2>1 DEF TypeOK
    <2> QED  BY <1>0, <2>1, <2>2, <2>3, <2>4 DEF MemoryIsOfItsDate
  <1>5. CASE TickSaved
    <2>1. UNCHANGED <<memory.today, memory.current_date>>
      BY <1>5 DEF TypeOK, TickSaved
    <2> QED  BY <1>1, <2>1
  <1> QED
    BY <1>1, <1>2, <1>3, <1>4, <1>5 DEF Next, vars, Environment, Daemon, Watcher, Midnight,
       Aggregator, DayBreaks, Write, Replace, SnapshotExisting, snapshot_existing, Watch, handle_event, position,
       OpenFails, EndOfFile, DrainFails, SkipFragment, RolloverSaved, PersistTick,
       MidnightLoads, MidnightWrites, MidnightSaved, MidnightTells, SendUpdate, SendReset,
       TokensUpdate, SetInitialTokens, DailyReset

\* The records in the files and in the hands of the midnight task.
LEMMA RecordsKeep ==
    ASSUME TypeOK, TodayInv, [Next]_vars
    PROVE  OfItsDate(disk)' /\ OfItsDate(midnight.copy)' /\ OfItsDate(tmp)'
  <1> USE DEF transcripts, watcher, files, spawned, history
  <1>0. OfItsDate(disk) /\ OfItsDate(midnight.copy) /\ OfItsDate(tmp) /\ NoDateCountsNothing
    BY InvIsOfItsDate DEF TodayInv
  <1>1. /\ disk \in PersistedTokens \cup {NoFile}
        /\ midnight.copy \in PersistedTokens \cup {NoFile}
        /\ tmp \in PersistedTokens \cup {NoFile}
        /\ Default \in PersistedTokens \cup {NoFile}
    BY DefaultType DEF TypeOK
  <1>2. /\ disk.today <= counted'[disk.date]
        /\ midnight.copy.today <= counted'[midnight.copy.date]
        /\ tmp.today <= counted'[tmp.date]
        /\ Default.today <= counted'[Default.date]
        /\ NoFile.today <= counted'[NoFile.date]
    BY <1>0, <1>1, Keeps, DefaultIsOfItsDate
  <1>3. OfItsDate(disk)'
    <2>1. CASE disk' = disk \/ disk' = tmp
      BY <1>2, <2>1 DEF OfItsDate
    <2>2. CASE disk' = catch_up(disk, "start")
      <3>1. catch_up(disk, "start") \in PersistedTokens /\ OfItsDate(catch_up(disk, "start"))
        BY CatchUpType, CatchUpIsOfItsDate DEF TypeOK
      <3> QED  BY <2>2, <3>1, Keeps DEF OfItsDate
    <2> QED
      BY <2>1, <2>2 DEF Next, vars, Environment, Daemon, Watcher, Midnight, Aggregator,
         DayBreaks, Write, Replace, Start, SnapshotExisting, snapshot_existing, Watch, Stop, handle_event, position,
         OpenFails, EndOfFile, DrainFails, SkipFragment, RollOver, RolloverSaved, CountLine, PersistTick,
         TickSaved, MidnightLoads, MidnightWrites, MidnightSaved, MidnightTells, SendUpdate,
         SendReset, TokensUpdate, SetInitialTokens, DailyReset, rename, renameFails
  <1>4. OfItsDate(midnight.copy)'
    <2>1. CASE midnight'.copy = midnight.copy \/ midnight'.copy = Default
      BY <1>2, <2>1 DEF OfItsDate
    <2>2. CASE MidnightLoads
      <3>1. /\ catch_up(disk, "midnight") \in PersistedTokens
            /\ OfItsDate(catch_up(disk, "midnight"))
        BY CatchUpType, CatchUpIsOfItsDate DEF TypeOK
      <3>2. midnight'.copy = catch_up(disk, "midnight")
        BY <2>2 DEF MidnightLoads
      <3> QED  BY <3>1, <3>2, Keeps DEF OfItsDate
    <2>3. CASE Start \/ MidnightWrites \/ MidnightSaved
      <3>1. midnight'.copy = midnight.copy
        BY <2>3 DEF TypeOK, Start, MidnightWrites, MidnightSaved
      <3> QED  BY <2>1, <3>1
    <2>4. CASE Stop \/ MidnightTells
      <3>1. midnight'.copy = Default
        BY <2>4 DEF Stop, MidnightTells
      <3> QED  BY <2>1, <3>1
    <2>5. CASE UNCHANGED midnight
      BY <2>1, <2>5
    <2> QED
      BY <2>2, <2>3, <2>4, <2>5 DEF Next, vars, Environment, Daemon, Watcher, Midnight,
         Aggregator, DayBreaks, Write, Replace, SnapshotExisting, snapshot_existing, Watch, handle_event, position,
         OpenFails, EndOfFile, DrainFails, SkipFragment, RollOver, RolloverSaved, CountLine, PersistTick,
         TickSaved, SendUpdate, SendReset, TokensUpdate, SetInitialTokens, DailyReset
  <1>5. OfItsDate(tmp)'
    <2>1. CASE tmp' = tmp \/ tmp' = NoFile \/ tmp' = midnight.copy
      BY <1>2, <2>1 DEF OfItsDate
    <2>2. CASE PersistTick /\ tmp' = snapshot
      <3>1. snapshot \in PersistedTokens /\ OfItsDate(snapshot)
        BY SnapshotType DEF TodayInv, MemoryIsOfItsDate, OfItsDate
      <3> QED  BY <2>2, <3>1, Keeps DEF OfItsDate
    <2>3. CASE RollOver /\ tmp' = snapshot'
      <3>1. MemoryIsOfItsDate'
        BY MemoryKeeps
      <3>2. snapshot'.today = memory'.today /\ snapshot'.date = memory'.current_date
        BY DEF snapshot
      <3> QED  BY <2>3, <3>1, <3>2 DEF MemoryIsOfItsDate, OfItsDate
    <2> QED
      BY <2>1, <2>2, <2>3 DEF Next, vars, Environment, Daemon, Watcher, Midnight, Aggregator,
         DayBreaks, Write, Replace, Start, SnapshotExisting, snapshot_existing, Watch, Stop, handle_event, position,
         OpenFails, EndOfFile, DrainFails, SkipFragment, RollOver, RolloverSaved, CountLine, PersistTick,
         TickSaved, MidnightLoads, MidnightWrites, MidnightSaved, MidnightTells, SendUpdate,
         SendReset, TokensUpdate, SetInitialTokens, DailyReset, rename, renameFails, write
  <1> QED  BY <1>3, <1>4, <1>5

LEMMA TodayInit == ASSUME Init PROVE TodayInv
  <1>1. TypeOK  BY InitType
  <1>2. NoDateCountsNothing
    BY MaxDayAssumption DEF Init, NoDateCountsNothing, MaxDayAssumption
  <1>3. OfItsDate(Default) /\ OfItsDate(NoFile)
    BY <1>1, <1>2, DefaultIsOfItsDate
  <1>4. memory.today <= counted[memory.current_date]
    <2>1. memory.today = 0 /\ memory.current_date = 1
      BY DEF Init, NoMemory
    <2>2. counted[1] \in Nat
      BY MaxDayAssumption DEF Init, MaxDayAssumption
    <2> QED  BY <2>1, <2>2
  <1>5. disk = Default /\ tmp = NoFile /\ midnight.copy = Default
    BY DEF Init
  <1> QED  BY <1>2, <1>3, <1>4, <1>5 DEF TodayInv, TodayIsOfItsDate, MemoryIsOfItsDate, OfItsDate

LEMMA TodayNext == ASSUME TypeOK, TodayInv, [Next]_vars PROVE TodayInv'
  <1>1. NoDateCountsNothing'
    BY CountedGrows, MaxDayAssumption DEF TodayInv, NoDateCountsNothing, MaxDayAssumption
  <1>2. MemoryIsOfItsDate'  BY MemoryKeeps
  <1>3. TodayIsOfItsDate'
    BY <1>2, RecordsKeep DEF TodayIsOfItsDate, MemoryIsOfItsDate, OfItsDate
  <1> QED  BY <1>1, <1>2, <1>3 DEF TodayInv

\* Whoever saved or loaded it, no count of today contains tokens of another date: neither
\* a stale file after a suspended night nor the race of the two writers carries them over.
THEOREM TodayCorrect == Spec => []TodayIsOfItsDate
  <1>1. Init => TodayInv  BY TodayInit
  <1>2. TypeOK /\ TodayInv /\ [Next]_vars => TodayInv'  BY TodayNext
  <1>3. TodayInv => TodayIsOfItsDate  BY DEF TodayInv
  <1> QED  BY <1>1, <1>2, <1>3, TypeCorrect, PTL DEF Spec

-----------------------------------------------------------------------------
(* Saved totals. *)

LEMMA TotalInit == ASSUME Init PROVE TotalInv
  BY DEF Init, TotalInv, TasksAgree, CopiesAreBehind, TmpIsKnown, SavedInv, Renaming,
     Default, NoFile, NoMemory

LEMMA TotalTypes ==
    ASSUME TypeOK
    PROVE  /\ memory.cumulative \in Nat /\ memory.dirty \in BOOLEAN
           /\ disk.cumulative \in Nat /\ tmp.cumulative \in Nat /\ midnight.copy.cumulative \in Nat
           /\ NoFile.cumulative = 0 /\ NoFile.by = "none" /\ Default.cumulative = 0
  <1>1. memory.cumulative \in Nat /\ memory.dirty \in BOOLEAN
    BY DEF TypeOK
  <1>2. disk \in PersistedTokens /\ tmp \in PersistedTokens \cup {NoFile}
        /\ midnight.copy \in PersistedTokens
    BY DEF TypeOK
  <1>3. NoFile.cumulative = 0 /\ NoFile.by = "none" /\ Default.cumulative = 0
    BY DEF NoFile, Default
  <1>4. \A tokens \in PersistedTokens : tokens.cumulative \in Nat
    BY DEF PersistedTokens
  <1> QED  BY <1>1, <1>2, <1>3, <1>4

\* What the invariant is about.
totals == <<pc, memory.cumulative, memory.dirty, disk, tmp, midnight>>

LEMMA TotalKept == ASSUME TotalInv, UNCHANGED totals PROVE TotalInv'
  BY DEF totals, TotalInv, TasksAgree, CopiesAreBehind, TmpIsKnown, SavedInv, Renaming

\* The watcher begins with the total of the file, and has saved what it begins with.
LEMMA StartTotals ==
    ASSUME TypeOK, Start
    PROVE  memory'.cumulative = disk.cumulative /\ memory'.dirty = FALSE
  <1>1. disk \in PersistedTokens
    BY DEF TypeOK
  <1>2. CASE remember(adopt(disk))
    <2>1. adopt(disk) \in PersistedTokens /\ adopt(disk).date \in Date
          /\ adopt(disk).cumulative = disk.cumulative
      BY <1>1, AdoptType
    <2> QED  BY <1>2, <2>1, RememberType
  <1>3. CASE remember(catch_up(disk, "start"))
    <2>1. catch_up(disk, "start") \in PersistedTokens /\ catch_up(disk, "start").date = day
          /\ catch_up(disk, "start").cumulative = disk.cumulative
      BY <1>1, CatchUpType
    <2>2. day \in Date
      BY DEF TypeOK
    <2> QED  BY <1>3, <2>1, <2>2, RememberType
  <1> QED  BY <1>2, <1>3 DEF Start

LEMMA TotalDaemon == ASSUME TypeOK, TotalInv, Daemon PROVE TotalInv'
  <1> USE TotalTypes DEF transcripts, watcher, files, spawned, history
  <1> USE DEF TotalInv, TasksAgree, CopiesAreBehind, TmpIsKnown, SavedInv, Renaming
  <1>1. CASE Start
    <2>0. midnight.copy \in PersistedTokens /\ midnight'.copy = midnight.copy /\ midnight'.pc = "asleep"
      BY <1>1 DEF TypeOK, Start
    <2>1. disk \in PersistedTokens /\ day \in Date
      BY DEF TypeOK
    <2>2. memory'.cumulative = disk.cumulative /\ memory'.dirty = FALSE
      BY <1>1, StartTotals
    <2>3. disk'.cumulative = disk.cumulative /\ (tmp' = tmp \/ tmp' = NoFile)
      BY ONLY <1>1, <2>1, TypeOK, CatchUpType DEF Start, files
    <2>4. pc' = "started" /\ midnight.copy.cumulative = 0
      BY <1>1 DEF Start
    <2> QED  BY <2>0, <2>2, <2>3, <2>4
  <1>2. CASE SnapshotExisting
    BY <1>2 DEF SnapshotExisting, snapshot_existing
  <1>3. CASE Watch
    BY <1>3 DEF Watch
  <1>4. CASE Stop
    BY <1>4 DEF Stop
  <1> QED  BY <1>1, <1>2, <1>3, <1>4 DEF Daemon

LEMMA TotalWatcher == ASSUME TypeOK, TotalInv, Watcher PROVE TotalInv'
  <1> USE TotalTypes DEF transcripts, watcher, files, spawned, history
  <1> USE DEF TotalInv, TasksAgree, CopiesAreBehind, TmpIsKnown, SavedInv, Renaming
  <1>0. memory \in [cumulative : Nat, today : Nat, current_date : Date, dirty : BOOLEAN]
    BY DEF TypeOK
  <1>1. ASSUME NEW f \in File, handle_event(f) PROVE TotalInv'
    BY <1>1 DEF handle_event, position
  <1>2. ASSUME NEW f \in File, OpenFails(f) PROVE TotalInv'
    BY <1>2 DEF OpenFails
  <1>3. CASE EndOfFile
    BY <1>3 DEF EndOfFile
  <1>4. CASE DrainFails
    BY <1>4 DEF DrainFails
  <1>5. CASE SkipFragment
    BY <1>5 DEF SkipFragment
  <1>6. CASE RollOver
    <2>1. memory'.cumulative = memory.cumulative /\ memory'.dirty = TRUE
      BY <1>0, <1>6 DEF RollOver
    <2>2. snapshot'.cumulative = memory.cumulative /\ snapshot'.by = "watcher"
      BY <2>1 DEF snapshot
    <2>3. \/ pc' = "rolling" /\ tmp' = snapshot'
          \/ pc' = "count" /\ tmp' = tmp
      BY <1>6 DEF RollOver, write
    <2>4. pc = "drain" /\ UNCHANGED <<disk, midnight>>
      BY <1>6 DEF RollOver
    <2> QED  BY <2>1, <2>2, <2>3, <2>4
  <1>7. CASE RolloverSaved
    <2>1. pc = "rolling" /\ pc' = "count" /\ UNCHANGED <<memory, midnight>>
      BY <1>7 DEF RolloverSaved
    <2>2. tmp' = NoFile /\ (disk' = tmp \/ disk' = disk)
      BY <1>7 DEF RolloverSaved, rename, renameFails
    <2> QED  BY <2>1, <2>2
  <1>8. CASE CountLine
    <2>1. memory'.cumulative = memory.cumulative + 1 /\ memory'.dirty = TRUE
      BY <1>8 DEF CountLine
    <2>2. pc \in {"drain", "count"} /\ pc' = "drain" /\ UNCHANGED <<disk, tmp, midnight>>
      BY <1>8 DEF CountLine
    <2> QED  BY <2>1, <2>2
  <1>9. CASE PersistTick
    <2>1. \/ pc' = "saving" /\ tmp' = snapshot
          \/ pc' = "idle" /\ tmp' = tmp
      BY <1>9 DEF PersistTick, write
    <2>2. pc = "idle" /\ memory.dirty /\ UNCHANGED <<memory, disk, midnight>>
      BY <1>9 DEF PersistTick
    <2> QED  BY <2>1, <2>2, SnapshotType
  <1>10. CASE TickSaved
    <2>1. pc = "saving" /\ pc' = "idle" /\ UNCHANGED midnight
      BY <1>10 DEF TickSaved
    <2>2. tmp' = NoFile
      BY <1>10 DEF TickSaved, rename, renameFails
    <2>3. \/ disk' = tmp /\ tmp # NoFile /\ memory'.dirty = FALSE
          \/ disk' = disk /\ memory'.dirty = memory.dirty
      BY <1>0, <1>10 DEF TickSaved, rename, renameFails
    <2>4. memory'.cumulative = memory.cumulative
      BY <1>0, <1>10 DEF TickSaved
    <2> QED  BY <2>1, <2>2, <2>3, <2>4
  <1> QED  BY <1>1, <1>2, <1>3, <1>4, <1>5, <1>6, <1>7, <1>8, <1>9, <1>10 DEF Watcher

LEMMA TotalMidnight == ASSUME TypeOK, TotalInv, Midnight PROVE TotalInv'
  <1> USE TotalTypes DEF transcripts, watcher, files, spawned, history
  <1> USE DEF TotalInv, TasksAgree, CopiesAreBehind, TmpIsKnown, SavedInv, Renaming
  <1>1. CASE MidnightLoads
    <2>1. /\ midnight'.pc = "loaded" /\ midnight'.copy.by = "midnight"
          /\ midnight'.copy.cumulative = disk.cumulative
      BY <1>1, CatchUpType DEF TypeOK, MidnightLoads
    <2>2. midnight.pc = "asleep" /\ UNCHANGED <<pc, memory, disk, tmp>>
      BY <1>1 DEF MidnightLoads
    <2> QED  BY <2>1, <2>2
  <1>2. CASE MidnightWrites
    <2>1. /\ midnight.pc = "loaded" /\ midnight'.copy = midnight.copy
          /\ \/ midnight'.pc = "saving" /\ tmp' = midnight.copy
             \/ midnight'.pc = "tell" /\ tmp' = tmp
      BY <1>2 DEF TypeOK, MidnightWrites, write
    <2>2. UNCHANGED <<pc, memory, disk>>
      BY <1>2 DEF MidnightWrites
    <2> QED  BY <2>1, <2>2
  <1>3. CASE MidnightSaved
    <2>1. midnight.pc = "saving" /\ midnight'.pc = "tell" /\ midnight'.copy = midnight.copy
      BY <1>3 DEF TypeOK, MidnightSaved
    <2>2. tmp' = NoFile /\ ((disk' = tmp /\ tmp # NoFile) \/ disk' = disk)
      BY <1>3 DEF MidnightSaved, rename, renameFails
    <2>3. UNCHANGED <<pc, memory>>
      BY <1>3 DEF MidnightSaved
    <2> QED  BY <2>1, <2>2, <2>3
  <1>4. CASE MidnightTells
    <2>1. midnight.pc = "tell" /\ midnight'.pc = "asleep" /\ midnight'.copy = Default
      BY <1>4 DEF MidnightTells
    <2>2. UNCHANGED <<pc, memory, disk, tmp>>
      BY <1>4 DEF MidnightTells
    <2> QED  BY <2>1, <2>2
  <1> QED  BY <1>1, <1>2, <1>3, <1>4 DEF Midnight

LEMMA TotalNext == ASSUME TypeOK, TotalInv, [Next]_vars PROVE TotalInv'
  <1> USE DEF transcripts, watcher, files, spawned, history
  <1>1. CASE UNCHANGED vars \/ Environment \/ Aggregator
    <2>1. UNCHANGED totals
      BY <1>1 DEF totals, vars, Environment, Aggregator, DayBreaks, Write, Replace,
         SendUpdate, SendReset, TokensUpdate, SetInitialTokens, DailyReset
    <2> QED  BY <2>1, TotalKept
  <1> QED  BY <1>1, TotalDaemon, TotalWatcher, TotalMidnight DEF Next

\* A watcher without unsaved tokens has its total on the disk, however its saves and those
\* of the midnight task interleave and fail, unless the midnight task wrote last.
THEOREM CleanCorrect == Spec => []CleanIsSaved
  <1>1. Init => TotalInv  BY TotalInit
  <1>2. TypeOK /\ TotalInv /\ [Next]_vars => TotalInv'  BY TotalNext
  <1>3. TotalInv => CleanIsSaved  BY DEF TotalInv, SavedInv, CleanIsSaved
  <1> QED  BY <1>1, <1>2, <1>3, TypeCorrect, PTL DEF Spec

LEMMA OnlyMidnightLowers ==
    ASSUME TypeOK, TotalInv, [Next]_vars, disk'.cumulative < disk.cumulative
    PROVE  disk'.by = "midnight"
  <1> USE DEF transcripts, watcher, files, spawned, history
  <1>1. CASE disk' = disk
    BY <1>1, TotalTypes
  <1>2. CASE disk' = tmp /\ tmp # NoFile /\ (Renaming \/ midnight.pc = "saving")
    <2>1. CASE tmp.by = "watcher"
      BY <1>2, <2>1, TotalTypes DEF TotalInv, TasksAgree, CopiesAreBehind, TmpIsKnown, Renaming
    <2> QED  BY <1>2, <2>1 DEF TotalInv, TmpIsKnown
  <1>3. CASE disk' = catch_up(disk, "start")
    <2>1. disk'.cumulative = disk.cumulative
      BY <1>3 DEF catch_up
    <2> QED  BY <2>1, TotalTypes
  <1> QED
    BY <1>1, <1>2, <1>3 DEF Next, vars, Environment, Daemon, Watcher, Midnight, Aggregator,
       DayBreaks, Write, Replace, Start, SnapshotExisting, snapshot_existing, Watch, Stop, handle_event, position,
       OpenFails, EndOfFile, DrainFails, SkipFragment, RollOver, RolloverSaved, CountLine, PersistTick,
       TickSaved, MidnightLoads, MidnightWrites, MidnightSaved, MidnightTells, SendUpdate,
       SendReset, TokensUpdate, SetInitialTokens, DailyReset, rename, renameFails, Renaming

\* The persisted total falls only by the midnight task's save of a copy that was overtaken.
THEOREM TotalCorrect == Spec => TotalDropsOnlyAtMidnight
  <1>1. Init => TotalInv  BY TotalInit
  <1>2. TypeOK /\ TotalInv /\ [Next]_vars => TotalInv'  BY TotalNext
  <1>3. TypeOK /\ TotalInv /\ [Next]_vars =>
            [disk'.cumulative < disk.cumulative => disk'.by = "midnight"]_vars
    BY OnlyMidnightLowers
  <1> QED  BY <1>1, <1>2, <1>3, TypeCorrect, PTL DEF Spec, TotalDropsOnlyAtMidnight

-----------------------------------------------------------------------------
(* Events. *)

LEMMA NoticedInit == ASSUME Init PROVE NoticedInv
  BY DEF Init, NoticedInv, ReadIsThere, OpenIsKept, Noticed, AtWork, Draining

\* What the invariant is about.
readings == <<pc, at, size, kept, offset, notified, overlooked>>

LEMMA NoticedKept == ASSUME NoticedInv, UNCHANGED readings PROVE NoticedInv'
  BY DEF readings, NoticedInv, ReadIsThere, OpenIsKept, Noticed, WholeLine, Remaining

\* A step of the watcher that only moves it to another place.
LEMMA NoticedMoves ==
    ASSUME NoticedInv, UNCHANGED <<at, size, kept, offset, notified, overlooked>>,
           pc \in AtWork \cup {"snapped"}, pc' \in AtWork,
           pc \in Draining <=> pc' \in Draining,
           pc' \in {"rolling", "count"} => WholeLine
    PROVE  NoticedInv'
  BY DEF NoticedInv, ReadIsThere, OpenIsKept, Noticed, WholeLine, Remaining

LEMMA ReadingTypes ==
    ASSUME TypeOK
    PROVE  /\ at \in File
           /\ size \in [File -> Nat] /\ offset \in [File -> Nat] /\ kept \in [File -> BOOLEAN]
           /\ \A f \in File : size[f] \in Nat /\ offset[f] \in Nat
  BY DEF TypeOK

\* A transcript that grows is touched, and so is one that is replaced.
LEMMA NoticedTouched ==
    ASSUME TypeOK, NoticedInv, NEW f \in File, Touched(f), UNCHANGED <<pc, at, offset>>,
           \A g \in File \ {f} : size'[g] = size[g] /\ (kept'[g] <=> kept[g]),
           kept'[f] => kept[f] /\ size[f] <= size'[f],
           size'[f] \in Nat,
           pc \in Draining /\ at = f => (kept'[f] <=> kept[f]) /\ size[f] <= size'[f]
    PROVE  NoticedInv'
  <1> USE ReadingTypes
  <1>1. ReadIsThere'
    BY DEF NoticedInv, ReadIsThere
  <1>2. OpenIsKept'
    <2>1. pc \in Draining => kept'[at]
      BY DEF NoticedInv, OpenIsKept
    <2>2. size[at] <= size'[at] \/ pc \notin Draining
      BY DEF Draining
    <2>3. WholeLine /\ size[at] <= size'[at] => WholeLine'
      BY DEF WholeLine, Remaining
    <2> QED  BY <2>1, <2>2, <2>3 DEF NoticedInv, OpenIsKept, Draining
  <1>3. Noticed'
    <2>1. pc \in AtWork => notified' = notified \cup {f} /\ overlooked' = overlooked \ {f}
      BY DEF Touched
    <2>2. pc \notin AtWork => notified' = notified /\ overlooked' = overlooked \cup {f}
      BY DEF Touched
    <2>3. f \in notified' \cup overlooked'
      BY <2>1, <2>2
    <2>4. notified \cup overlooked \subseteq notified' \cup overlooked'
      BY <2>1, <2>2
    <2> QED  BY <2>3, <2>4 DEF NoticedInv, Noticed
  <1> QED  BY <1>1, <1>2, <1>3 DEF NoticedInv

LEMMA NoticedEnvironment == ASSUME TypeOK, NoticedInv, Environment PROVE NoticedInv'
  <1> USE ReadingTypes DEF transcripts, watcher
  <1>1. CASE DayBreaks
    BY <1>1, NoticedKept DEF DayBreaks, readings, history
  <1>2. ASSUME NEW f \in File, Write(f) PROVE NoticedInv'
    <2>1. size' = [size EXCEPT ![f] = @ + 1] /\ kept' = kept /\ UNCHANGED <<pc, at, offset>>
      BY <1>2 DEF Write
    <2>2. Touched(f)
      BY <1>2 DEF Write
    <2> QED  BY <2>1, <2>2, NoticedTouched
  <1>3. ASSUME NEW f \in File, Replace(f) PROVE NoticedInv'
    <2>1. PICK n \in 0..size[f] : size' = [size EXCEPT ![f] = n]
      BY <1>3 DEF Replace
    <2>2. kept' = [kept EXCEPT ![f] = FALSE] /\ UNCHANGED <<pc, at, offset>>
      BY <1>3 DEF Replace
    <2>3. Touched(f) /\ ~(pc \in Draining /\ at = f)
      BY <1>3 DEF Replace
    <2>4. ~kept'[f] /\ size'[f] \in Nat
      BY <2>1, <2>2
    <2>5. \A g \in File \ {f} : size'[g] = size[g] /\ (kept'[g] <=> kept[g])
      BY <2>1, <2>2
    <2> QED  BY <2>2, <2>3, <2>4, <2>5, NoticedTouched
  <1> QED  BY <1>1, <1>2, <1>3 DEF Environment

LEMMA NoticedDaemon == ASSUME TypeOK, NoticedInv, Daemon PROVE NoticedInv'
  <1> USE ReadingTypes DEF transcripts, history
  <1>1. CASE Start
    <2>1. pc' = "started" /\ UNCHANGED <<size, kept, offset>>
      BY <1>1 DEF Start
    <2> QED
      BY <2>1 DEF NoticedInv, ReadIsThere, OpenIsKept, Noticed, AtWork, Draining
  <1>2. CASE SnapshotExisting
    <2>1. /\ pc' = "snapped" /\ size' = size /\ offset' = size
          /\ \A f \in File : kept'[f] \/ f \in overlooked'
      BY <1>2 DEF SnapshotExisting, snapshot_existing
    <2> QED
      BY <2>1 DEF NoticedInv, ReadIsThere, OpenIsKept, Noticed, AtWork, Draining
  <1>3. CASE Watch
    <2>1. pc = "snapped" /\ pc' = "idle"
      BY <1>3 DEF Watch
    <2>2. UNCHANGED <<at, size, kept, offset, notified, overlooked>>
      BY <1>3 DEF Watch
    <2> QED  BY <2>1, <2>2, NoticedMoves DEF AtWork, Draining
  <1>4. CASE Stop
    <2>1. pc' = "down" /\ UNCHANGED <<size, kept>> /\ \A f \in File : offset'[f] = 0
      BY <1>4 DEF Stop
    <2> QED
      BY <2>1 DEF NoticedInv, ReadIsThere, OpenIsKept, Noticed, AtWork, Draining
  <1> QED  BY <1>1, <1>2, <1>3, <1>4 DEF Daemon

LEMMA NoticedWatcher == ASSUME TypeOK, NoticedInv, Watcher PROVE NoticedInv'
  <1> USE ReadingTypes DEF transcripts, history
  <1>1. ASSUME NEW f \in File, handle_event(f) PROVE NoticedInv'
    <2>1. /\ pc = "idle" /\ pc' = "drain" /\ at' = f /\ notified' = notified \ {f}
          /\ size' = size /\ overlooked' = overlooked \ {f}
      BY <1>1 DEF handle_event
    <2>2. kept'[f] /\ \A g \in File \ {f} : kept'[g] = kept[g] /\ offset'[g] = offset[g]
      BY <1>1 DEF handle_event
    <2>3. offset'[f] <= size'[f]
      BY <1>1, <2>1 DEF handle_event, position, NoticedInv, ReadIsThere
    <2> QED
      BY <2>1, <2>2, <2>3 DEF NoticedInv, ReadIsThere, OpenIsKept, Noticed, AtWork, Draining
  <1>2. ASSUME NEW f \in File, OpenFails(f) PROVE NoticedInv'
    <2>1. /\ notified' = notified \ {f} /\ overlooked' = overlooked \cup {f}
          /\ UNCHANGED <<pc, at, size, kept, offset>>
      BY <1>2 DEF OpenFails, watcher
    <2> QED
      BY <2>1 DEF NoticedInv, ReadIsThere, OpenIsKept, Noticed, WholeLine, Remaining
  <1>3. CASE EndOfFile
    <2>1. pc = "drain" /\ pc' = "idle" /\ UNCHANGED <<at, size, kept, offset, notified, overlooked>>
      BY <1>3 DEF EndOfFile
    <2>2. offset[at] = size[at] /\ kept[at]
      BY <1>3, <2>1 DEF EndOfFile, Remaining, NoticedInv, ReadIsThere, OpenIsKept, Draining
    <2> QED
      BY <2>1, <2>2 DEF NoticedInv, ReadIsThere, OpenIsKept, Noticed, AtWork, Draining
  <1>4. CASE SkipFragment
    <2>1. pc = "drain" /\ UNCHANGED <<pc, at, size, kept, notified, overlooked>>
      BY <1>4 DEF SkipFragment
    <2>2. /\ \A g \in File \ {at} : offset'[g] = offset[g]
          /\ offset'[at] <= size[at]
      BY <1>4 DEF SkipFragment, Remaining
    <2> QED
      BY <2>1, <2>2 DEF NoticedInv, ReadIsThere, OpenIsKept, Noticed, AtWork, Draining
  <1>5. CASE RollOver
    BY <1>5, NoticedMoves DEF RollOver, AtWork, Draining
  <1>6. CASE RolloverSaved
    BY <1>6, NoticedMoves DEF RolloverSaved, AtWork, Draining, NoticedInv, OpenIsKept
  <1>7. CASE CountLine
    <2>1. pc \in {"drain", "count"} /\ pc' = "drain" /\ UNCHANGED <<at, size, kept, notified, overlooked>>
      BY <1>7 DEF CountLine
    <2>2. WholeLine
      BY <1>7 DEF CountLine, NoticedInv, OpenIsKept
    <2>3. /\ \A g \in File \ {at} : offset'[g] = offset[g]
          /\ offset'[at] <= size[at]
      BY <1>7, <2>2 DEF CountLine, WholeLine, Remaining
    <2> QED
      BY <2>1, <2>3 DEF NoticedInv, ReadIsThere, OpenIsKept, Noticed, AtWork, Draining
  <1>8. CASE DrainFails
    <2>1. /\ pc = "drain" /\ pc' = "idle" /\ overlooked' = overlooked \cup {at}
          /\ UNCHANGED <<at, size, kept, offset, notified>>
      BY <1>8 DEF DrainFails
    <2> QED
      BY <2>1 DEF NoticedInv, ReadIsThere, OpenIsKept, Noticed, AtWork, Draining
  <1>9. CASE PersistTick
    BY <1>9, NoticedMoves DEF PersistTick, AtWork, Draining
  <1>10. CASE TickSaved
    BY <1>10, NoticedMoves DEF TickSaved, AtWork, Draining
  <1> QED  BY <1>1, <1>2, <1>3, <1>4, <1>5, <1>6, <1>7, <1>8, <1>9, <1>10 DEF Watcher

LEMMA NoticedNext == ASSUME TypeOK, NoticedInv, [Next]_vars PROVE NoticedInv'
  <1>1. CASE UNCHANGED vars \/ Midnight \/ Aggregator
    <2>1. UNCHANGED readings
      BY <1>1 DEF readings, vars, watcher, transcripts, history, Midnight, Aggregator, MidnightLoads,
         MidnightWrites, MidnightSaved, MidnightTells, SendUpdate, SendReset, TokensUpdate,
         SetInitialTokens, DailyReset
    <2> QED  BY <2>1, NoticedKept
  <1> QED  BY <1>1, NoticedEnvironment, NoticedDaemon, NoticedWatcher DEF Next

LEMMA NoticedCorrect == Spec => []NoticedInv
  <1>1. Init => NoticedInv  BY NoticedInit
  <1>2. TypeOK /\ NoticedInv /\ [Next]_vars => NoticedInv'  BY NoticedNext
  <1> QED  BY <1>1, <1>2, TypeCorrect, PTL DEF Spec

\* No write is lost between the scan, the events and the drains: what is unread has an event
\* waiting, or nobody was watching when it was written, or its scan, open or drain failed.
THEOREM UnreadNoticed == Spec => []UnreadIsNoticed
  <1>1. NoticedInv => UnreadIsNoticed
    BY DEF NoticedInv, Noticed, UnreadIsNoticed, AtWork, Draining
  <1> QED  BY <1>1, NoticedCorrect, PTL

-----------------------------------------------------------------------------
(* The aggregator's totals. *)

LEMMA AfterFacts ==
    ASSUME NEW t \in Display, NEW m \in Message
    PROVE  /\ After(t, m) \in Display
           /\ m.type = "TokensUpdate" =>
                After(t, m) = [cumulative |-> t.cumulative + 1, today |-> t.today + 1, date |-> t.date]
           /\ m.type = "DailyReset" =>
                After(t, m) = [cumulative |-> t.cumulative, today |-> 0, date |-> m.date]
           /\ m.type = "SetInitialTokens" =>
                After(t, m) = [cumulative |-> larger(t.cumulative, m.cumulative),
                               today |-> larger(t.today, m.today),
                               date |-> IF t.date = 0 THEN m.date ELSE t.date]
  <1>0. t.cumulative \in Nat /\ t.today \in Nat /\ t.date \in 0..MaxDay
    BY DEF Display
  <1>1. CASE m.type = "TokensUpdate"
    BY <1>0, <1>1 DEF After, Display
  <1>2. CASE m.type = "DailyReset"
    <2>1. m.date \in 0..MaxDay
      BY <1>2 DEF Message, Date
    <2> QED  BY <1>0, <1>2, <2>1 DEF After, Display
  <1>3. CASE m.type = "SetInitialTokens"
    <2>1. m.cumulative \in Nat /\ m.today \in Nat /\ m.date \in 0..MaxDay
      BY <1>3 DEF Message, Date
    <2>2. larger(t.cumulative, m.cumulative) \in Nat /\ larger(t.today, m.today) \in Nat
      BY <1>0, <2>1 DEF larger
    <2> QED  BY <1>0, <1>3, <2>1, <2>2 DEF After, Display
  <1> QED  BY <1>1, <1>2, <1>3 DEF Message

LEMMA QueueFacts ==
    ASSUME TypeOK
    PROVE  /\ queue \in Seq(Message) /\ Len(queue) \in Nat
           /\ \A i \in 1..Len(queue) : queue[i] \in Message
           /\ agg \in Display
  BY DEF TypeOK, Display

LEMMA ForeseenKept ==
    ASSUME NEW shown, Foreseen(shown), UNCHANGED <<queue, agg>>
    PROVE  Foreseen(shown)'
  BY DEF Foreseen

\* A message that is sent is the last to be handled.
LEMMA ForeseenSend ==
    ASSUME TypeOK, NEW shown, Foreseen(shown), NEW m \in Message, send(m), agg' = agg
    PROVE  \E next : /\ Foreseen(next)'
                     /\ next[Len(queue') + 1] = After(shown[Len(queue) + 1], m)
  <1> DEFINE n == Len(queue)
             last == After(shown[n + 1], m)
  <1>1. PICK next : next = [i \in 1..n + 2 |-> IF i = n + 2 THEN last ELSE shown[i]]
    OBVIOUS
  <1>2. /\ n \in Nat /\ shown \in [1..n + 1 -> Display] /\ shown[1] = agg
        /\ \A i \in 1..n : shown[i + 1] = After(shown[i], queue[i])
    BY QueueFacts DEF Foreseen
  <1>3. last \in Display
    BY <1>2, AfterFacts
  <1>4. queue' = Append(queue, m) /\ Len(queue') = n + 1
    BY QueueFacts DEF send
  <1>5. queue'[n + 1] = m /\ \A i \in 1..n : queue'[i] = queue[i]
    BY <1>4, QueueFacts
  <1>6. next \in [1..n + 2 -> Display] /\ next[1] = agg /\ next[n + 2] = last
    BY <1>1, <1>2, <1>3
  <1>7. \A i \in 1..n + 1 : next[i] = shown[i]
    BY <1>1, <1>2
  <1>8. ASSUME NEW i \in 1..n + 1 PROVE next[i + 1] = After(next[i], queue'[i])
    <2>1. CASE i = n + 1
      <3>1. next[i] = shown[i] /\ next[i + 1] = last /\ queue'[i] = m
        BY <1>2, <1>5, <1>6, <1>7, <2>1
      <3> QED  BY <2>1, <3>1
    <2>2. CASE i # n + 1
      <3>1. i \in 1..n /\ i + 1 \in 1..n + 1
        BY <1>2, <2>2
      <3> QED  BY <1>2, <1>5, <1>7, <3>1
    <2> QED  BY <2>1, <2>2
  <1>9. Foreseen(next)'
    BY <1>2, <1>4, <1>6, <1>8 DEF Foreseen
  <1> QED  BY <1>2, <1>4, <1>6, <1>9

\* A message that is handled leads where it was foreseen to.
LEMMA ForeseenTake ==
    ASSUME TypeOK, NEW shown, Foreseen(shown), queue # <<>>, queue' = Tail(queue),
           agg' = After(agg, Head(queue))
    PROVE  \E next : /\ Foreseen(next)'
                     /\ next[Len(queue') + 1] = shown[Len(queue) + 1]
  <1> DEFINE n == Len(queue)
  <1>1. PICK next : next = [i \in 1..n |-> shown[i + 1]]
    OBVIOUS
  <1>2. /\ n \in Nat /\ shown \in [1..n + 1 -> Display] /\ shown[1] = agg
        /\ \A i \in 1..n : shown[i + 1] = After(shown[i], queue[i])
    BY QueueFacts DEF Foreseen
  <1>3. n >= 1 /\ Head(queue) = queue[1]
    BY QueueFacts
  <1>4. Len(queue') = n - 1 /\ \A i \in 1..n - 1 : queue'[i] = queue[i + 1]
    BY QueueFacts
  <1>5. next \in [1..n -> Display]
    BY <1>1, <1>2
  <1>6. next[1] = agg' /\ next[n] = shown[n + 1]
    BY <1>1, <1>2, <1>3
  <1>7. ASSUME NEW i \in 1..n - 1 PROVE next[i + 1] = After(next[i], queue'[i])
    <2>1. i \in 1..n /\ i + 1 \in 1..n
      BY <1>2
    <2> QED  BY <1>1, <1>2, <1>4, <2>1
  <1>8. Foreseen(next)'
    BY <1>2, <1>4, <1>5, <1>6, <1>7 DEF Foreseen
  <1> QED  BY <1>2, <1>4, <1>6, <1>8

LEMMA CountersInit == ASSUME Init PROVE CountersInv
  <1>1. queue = <<>> /\ Len(queue) = 0 /\ agg = [cumulative |-> 0, today |-> 0, date |-> 0]
    BY DEF Init
  <1>2. agg \in Display
    BY <1>1, MaxDayAssumption DEF Display, MaxDayAssumption
  <1>3. PICK shown : shown = [i \in 1..1 |-> agg]
    OBVIOUS
  <1>4. Foreseen(shown) /\ shown[Len(queue) + 1] = agg
    BY <1>1, <1>2, <1>3 DEF Foreseen
  <1>5. ~Up /\ Blank(agg)
    BY <1>1 DEF Init, Up, Blank
  <1>6. SentInv
    BY <1>4, <1>5 DEF SentInv
  <1> QED  BY <1>1, <1>6 DEF CountersInv, RolledInv, Init

\* A step that takes no message, sends none and leaves the counts alone.
LEMMA SentKept ==
    ASSUME SentInv, UNCHANGED <<queue, agg, updates>>, Up' <=> Up, ~Up => resets' = {},
           memory'.cumulative = memory.cumulative,
           ~rolled' => ~rolled /\ memory'.today = memory.today
                         /\ memory'.current_date = memory.current_date
    PROVE  SentInv'
  <1>1. PICK shown : /\ Foreseen(shown)
                     /\ IF Up THEN Agrees(shown[Len(queue) + 1]) ELSE Blank(shown[Len(queue) + 1])
    BY DEF SentInv
  <1> DEFINE last == shown[Len(queue) + 1]
  <1>2. Foreseen(shown)'
    BY <1>1, ForeseenKept
  <1>3. IF Up' THEN Agrees(last)' ELSE Blank(last)'
    BY <1>1 DEF Agrees, Blank
  <1> QED  BY <1>2, <1>3 DEF SentInv

LEMMA LastShown ==
    ASSUME TypeOK, NEW shown, Foreseen(shown)
    PROVE  /\ shown[Len(queue) + 1] \in Display
           /\ shown[Len(queue) + 1].cumulative \in Nat
           /\ shown[Len(queue) + 1].today \in Nat
  <1>1. shown[Len(queue) + 1] \in Display
    BY QueueFacts DEF Foreseen
  <1> QED  BY <1>1 DEF Display

LEMMA RolledNext == ASSUME TypeOK, CountersInv, TasksAgree, [Next]_vars PROVE RolledInv'
  <1> USE DEF CountersInv, RolledInv, TasksAgree, transcripts, watcher, files, spawned, history
  <1>1. CASE UNCHANGED vars
    BY <1>1 DEF vars
  <1>2. CASE Environment
    BY <1>2 DEF Environment, DayBreaks, Write, Replace
  <1>3. CASE Daemon
    <2>1. CASE Start
      BY <2>1 DEF Start, TypeOK
    <2>2. CASE SnapshotExisting \/ Watch \/ Stop
      BY <2>2 DEF SnapshotExisting, snapshot_existing, Watch, Stop
    <2> QED  BY <1>3, <2>1, <2>2 DEF Daemon
  <1>4. CASE Watcher
    <2>1. pc # "down" /\ pc' # "down" /\ UNCHANGED midnight
      BY <1>4 DEF Watcher, handle_event, OpenFails, EndOfFile, DrainFails, SkipFragment, RollOver,
         RolloverSaved, CountLine, PersistTick, TickSaved
    <2>2. rolled' \/ UNCHANGED <<resets, rolled>>
      BY <1>4 DEF Watcher, handle_event, OpenFails, EndOfFile, DrainFails, SkipFragment, RollOver,
         RolloverSaved, CountLine, PersistTick, TickSaved
    <2> QED  BY <2>1, <2>2
  <1>5. CASE Midnight
    <2>1. midnight.pc # "down" /\ UNCHANGED pc
      BY <1>5 DEF Midnight, MidnightLoads, MidnightWrites, MidnightSaved, MidnightTells
    <2>2. rolled' \/ (rolled' = rolled /\ midnight.pc \notin {"down", "asleep"})
      BY <1>5 DEF Midnight, MidnightLoads, MidnightWrites, MidnightSaved, MidnightTells
    <2> QED  BY <2>1, <2>2
  <1>6. CASE Aggregator
    <2>1. UNCHANGED <<pc, rolled, midnight>>
      BY <1>6 DEF Aggregator, SendUpdate, SendReset, TokensUpdate, SetInitialTokens, DailyReset
    <2>2. resets' \subseteq resets
      BY <1>6 DEF Aggregator, SendUpdate, SendReset, TokensUpdate, SetInitialTokens, DailyReset
    <2>3. pc = "down" => updates = 0 /\ resets = {} /\ queue = <<>>
      BY DEF SentInv, Up, Blank
    <2>4. updates \in Nat
      BY DEF TypeOK
    <2>5. pc # "down"
      <3>1. CASE SendUpdate
        BY <2>3, <2>4, <3>1 DEF SendUpdate
      <3>2. CASE SendReset
        BY <2>3, <3>2 DEF SendReset
      <3>3. CASE TokensUpdate \/ SetInitialTokens \/ DailyReset
        BY <2>3, <3>3 DEF TokensUpdate, SetInitialTokens, DailyReset, receive
      <3> QED  BY <1>6, <3>1, <3>2, <3>3 DEF Aggregator
    <2> QED  BY <2>1, <2>2, <2>5
  <1> QED  BY <1>1, <1>2, <1>3, <1>4, <1>5, <1>6 DEF Next

LEMMA SentDaemon == ASSUME TypeOK, CountersInv, Daemon PROVE SentInv'
  <1> USE DEF transcripts, files, spawned, history
  <1>0. PICK shown : /\ Foreseen(shown)
                     /\ IF Up THEN Agrees(shown[Len(queue) + 1]) ELSE Blank(shown[Len(queue) + 1])
    BY DEF CountersInv, SentInv
  <1> DEFINE last == shown[Len(queue) + 1]
  <1>1. CASE Start
    <2>1. /\ queue = <<>> /\ Len(queue) = 0 /\ agg.date = 0 /\ ~Up /\ ~Up' /\ ~rolled
          /\ UNCHANGED <<agg, updates, resets, rolled>>
      BY <1>1 DEF Start, CountersInv, RolledInv, Up
    <2>2. Blank(agg)
      BY <1>0, <2>1 DEF Foreseen
    <2>3. CASE queue' = queue
      <3>1. Blank(agg)'
        BY <2>1, <2>2 DEF Blank
      <3>2. Foreseen(shown)' /\ shown[Len(queue') + 1] = agg'
        BY <1>0, <2>1, <2>3, ForeseenKept DEF Foreseen
      <3> QED  BY <2>1, <3>1, <3>2 DEF SentInv
    <2>4. CASE stale(disk)
      <3>1. PICK m : m = [type |-> "DailyReset", date |-> day]
        OBVIOUS
      <3>2. send(m) /\ m \in Message /\ m.date = day /\ m.type = "DailyReset"
        BY <1>1, <2>4, <3>1 DEF Start, Message, TypeOK
      <3>3. PICK next : /\ Foreseen(next)'
                        /\ next[Len(queue') + 1] = After(last, m)
        BY <1>0, <2>1, <3>2, ForeseenSend
      <3>4. memory'.current_date = day
        <4>1. disk \in PersistedTokens /\ day \in Date
          BY DEF TypeOK
        <4>2. catch_up(disk, "start") \in PersistedTokens /\ catch_up(disk, "start").date = day
          BY <4>1, CatchUpType
        <4> QED  BY <1>1, <2>4, <4>1, <4>2, RememberType DEF Start
      <3>5. last = agg /\ agg \in Display
        BY <1>0, <2>1, QueueFacts DEF Foreseen
      <3>6. /\ After(last, m).cumulative = 0 /\ After(last, m).today = 0
            /\ After(last, m).date = day
        BY <2>2, <3>2, <3>5, AfterFacts DEF Blank
      <3>7. Blank(next[Len(queue) + 1])'
        BY <2>1, <2>2, <3>3, <3>4, <3>6 DEF Blank
      <3> QED  BY <2>1, <3>3, <3>7 DEF SentInv
    <2> QED  BY <1>1, <2>3, <2>4 DEF Start
  <1>2. CASE SnapshotExisting
    <2>1. ~Up /\ Up' /\ UNCHANGED <<memory, updates, agg, rolled>>
      BY <1>2 DEF SnapshotExisting, Up
    <2>2. PICK m : m = [type |-> "SetInitialTokens", cumulative |-> memory.cumulative,
                        today |-> memory.today, date |-> memory.current_date]
      OBVIOUS
    <2>3. /\ memory.cumulative \in Nat /\ memory.today \in Nat /\ memory.current_date \in Date
          /\ updates \in Nat
      BY DEF TypeOK
    <2>4. send(m) /\ m \in Message
      BY <1>2, <2>2, <2>3 DEF SnapshotExisting, Message
    <2>5. /\ m.type = "SetInitialTokens" /\ m.cumulative = memory.cumulative
          /\ m.today = memory.today /\ m.date = memory.current_date
      BY <2>2
    <2>6. PICK next : /\ Foreseen(next)'
                      /\ next[Len(queue') + 1] = After(last, m)
      BY <1>0, <2>1, <2>4, ForeseenSend
    <2>7. Blank(last) /\ last \in Display
      BY <1>0, <2>1, LastShown
    <2>8. /\ After(last, m).cumulative = memory.cumulative
          /\ After(last, m).today = memory.today
          /\ ~rolled => After(last, m).date = memory.current_date
      BY <2>3, <2>4, <2>5, <2>7, AfterFacts DEF Blank, larger
    <2>9. Agrees(next[Len(queue) + 1])'
      BY <2>1, <2>3, <2>6, <2>7, <2>8 DEF Agrees, Blank
    <2> QED  BY <2>1, <2>6, <2>9 DEF SentInv
  <1>3. CASE Watch
    <2>1. Up /\ Up' /\ UNCHANGED <<queue, agg, updates, memory, rolled>>
      BY <1>3 DEF Watch, Up
    <2> QED  BY <2>1, SentKept DEF CountersInv
  <1>4. CASE Stop
    <2>1. queue' = <<>> /\ Len(queue') = 0 /\ agg' = [cumulative |-> 0, today |-> 0, date |-> 0]
      BY <1>4 DEF Stop
    <2>2. agg' \in Display
      BY <2>1, MaxDayAssumption DEF Display, MaxDayAssumption
    <2>3. PICK next : next = [i \in 1..1 |-> agg']
      OBVIOUS
    <2>4. Foreseen(next)' /\ next[Len(queue') + 1] = agg'
      BY <2>1, <2>2, <2>3 DEF Foreseen
    <2>5. ~Up' /\ Blank(agg)'
      BY <1>4, <2>1 DEF Stop, Up, Blank
    <2> QED  BY <2>4, <2>5 DEF SentInv
  <1> QED  BY <1>1, <1>2, <1>3, <1>4 DEF Daemon

LEMMA SentWatcher == ASSUME TypeOK, CountersInv, Watcher PROVE SentInv'
  <1> USE DEF history
  <1>0. /\ memory.cumulative \in Nat /\ memory.today \in Nat /\ updates \in Nat
        /\ memory \in [cumulative : Nat, today : Nat, current_date : Date, dirty : BOOLEAN]
    BY DEF TypeOK
  <1>1. Up /\ Up'
    BY DEF Watcher, handle_event, OpenFails, watcher, EndOfFile, DrainFails, SkipFragment, RollOver,
       RolloverSaved, CountLine, PersistTick, TickSaved, Up
  <1>2. CASE CountLine
    <2>1. PICK shown : Foreseen(shown) /\ Agrees(shown[Len(queue) + 1])
      BY <1>1 DEF CountersInv, SentInv
    <2> DEFINE last == shown[Len(queue) + 1]
    <2>2. UNCHANGED <<queue, agg, rolled>>
      BY <1>2 DEF CountLine
    <2>3. /\ memory'.cumulative = memory.cumulative + 1 /\ memory'.today = memory.today + 1
          /\ memory'.current_date = memory.current_date /\ updates' = updates + 1
      BY <1>2 DEF CountLine
    <2>4. Foreseen(shown)'
      BY <2>1, <2>2, ForeseenKept
    <2>5. last.cumulative \in Nat /\ last.today \in Nat
      BY <2>1, LastShown
    <2>6. last.cumulative + updates' = memory'.cumulative
      BY <1>0, <2>1, <2>3, <2>5 DEF Agrees
    <2>7. ~rolled' => last.today + updates' = memory'.today /\ last.date = memory'.current_date
      BY <1>0, <2>1, <2>2, <2>3, <2>5 DEF Agrees
    <2>8. shown[Len(queue') + 1] = last
      BY <2>2
    <2>9. Agrees(shown[Len(queue) + 1])'
      BY <2>6, <2>7, <2>8 DEF Agrees
    <2> QED  BY <1>1, <2>4, <2>9 DEF SentInv
  <1>3. CASE RollOver
    <2>1. memory'.cumulative = memory.cumulative /\ rolled'
      BY <1>0, <1>3 DEF RollOver
    <2>2. UNCHANGED <<queue, agg, updates>>
      BY <1>3 DEF RollOver
    <2> QED  BY <1>1, <2>1, <2>2, SentKept DEF CountersInv
  <1>4. CASE TickSaved
    <2>1. UNCHANGED <<queue, agg, updates, rolled>>
      BY <1>4 DEF TickSaved, spawned
    <2>2. /\ memory'.cumulative = memory.cumulative /\ memory'.today = memory.today
          /\ memory'.current_date = memory.current_date
      BY <1>0, <1>4 DEF TickSaved
    <2> QED  BY <1>1, <2>1, <2>2, SentKept DEF CountersInv
  <1>5. CASE UNCHANGED <<memory, queue, agg, updates, rolled>>
    BY <1>1, <1>5, SentKept DEF CountersInv
  <1> QED
    BY <1>2, <1>3, <1>4, <1>5 DEF Watcher, handle_event, OpenFails, watcher, EndOfFile,
       DrainFails, SkipFragment, RolloverSaved, PersistTick, spawned

\* A DailyReset: the date rolled over, and today is not claimed any more.
LEMMA SentReset ==
    ASSUME TypeOK, CountersInv, rolled', NEW d \in Date,
           send([type |-> "DailyReset", date |-> d]),
           UNCHANGED <<pc, memory, agg, updates>>, resets' \subseteq resets
    PROVE  SentInv'
  <1>1. PICK shown : /\ Foreseen(shown)
                     /\ IF Up THEN Agrees(shown[Len(queue) + 1]) ELSE Blank(shown[Len(queue) + 1])
    BY DEF CountersInv, SentInv
  <1> DEFINE last == shown[Len(queue) + 1]
  <1>2. PICK m : m = [type |-> "DailyReset", date |-> d]
    OBVIOUS
  <1>3. send(m) /\ m \in Message /\ m.type = "DailyReset"
    BY <1>2 DEF Message
  <1>4. PICK next : Foreseen(next)' /\ next[Len(queue') + 1] = After(last, m)
    BY <1>1, <1>3, ForeseenSend
  <1>5. last \in Display
    BY <1>1, LastShown
  <1>6. After(last, m).cumulative = last.cumulative /\ After(last, m).today = 0
    BY <1>3, <1>5, AfterFacts
  <1>7. (Up' <=> Up) /\ (Up => Agrees(next[Len(queue) + 1])') /\ (~Up => Blank(next[Len(queue) + 1])')
    BY <1>1, <1>4, <1>6 DEF Agrees, Blank, Up
  <1> QED  BY <1>4, <1>7 DEF SentInv

LEMMA SentMidnight == ASSUME TypeOK, CountersInv, Midnight PROVE SentInv'
  <1> USE DEF history
  <1>1. CASE MidnightTells
    <2>1. rolled /\ rolled' = rolled
      BY <1>1 DEF MidnightTells, CountersInv, RolledInv
    <2>2. midnight.copy.date \in Date
      <3>1. midnight.copy \in PersistedTokens /\ midnight.copy.date # 0
        BY <1>1 DEF TypeOK, MidnightTells
      <3>2. midnight.copy.date \in 0..MaxDay
        BY <3>1 DEF PersistedTokens
      <3> QED  BY <3>1, <3>2 DEF Date
    <2>3. send([type |-> "DailyReset", date |-> midnight.copy.date])
      BY <1>1 DEF MidnightTells
    <2>4. UNCHANGED <<pc, memory, agg, updates, resets>>
      BY <1>1 DEF MidnightTells, watcher, spawned
    <2> QED  BY <2>1, <2>2, <2>3, <2>4, SentReset
  <1>2. CASE MidnightLoads \/ MidnightWrites \/ MidnightSaved
    <2>1. UNCHANGED <<pc, memory, queue, agg, updates, resets>> /\ (rolled' \/ rolled' = rolled)
      BY <1>2 DEF MidnightLoads, MidnightWrites, MidnightSaved, watcher, spawned
    <2>2. (Up' <=> Up) /\ (~Up => resets' = {})
      BY <2>1 DEF Up, CountersInv, SentInv, Blank
    <2> QED  BY <2>1, <2>2, SentKept DEF CountersInv
  <1> QED  BY <1>1, <1>2 DEF Midnight

\* Each handler does what After says.
LEMMA HandlersFollow ==
    ASSUME TypeOK, TokensUpdate \/ SetInitialTokens \/ DailyReset
    PROVE  /\ queue # <<>> /\ queue' = Tail(queue) /\ agg' = After(agg, Head(queue))
           /\ UNCHANGED <<pc, memory, updates, resets, rolled>>
  <1> USE DEF receive, watcher, spawned, history
  <1>1. queue # <<>> /\ queue' = Tail(queue) /\ UNCHANGED <<pc, memory, updates, resets, rolled>>
    BY DEF TokensUpdate, SetInitialTokens, DailyReset
  <1>2. Head(queue) \in Message /\ agg \in Display
    BY <1>1, QueueFacts
  <1>3. CASE TokensUpdate
    <2>1. Head(queue).type = "TokensUpdate"
      BY <1>3 DEF TokensUpdate
    <2> QED  BY <1>1, <1>2, <1>3, <2>1, AfterFacts DEF TokensUpdate
  <1>4. CASE SetInitialTokens
    <2>1. Head(queue).type = "SetInitialTokens"
      BY <1>4 DEF SetInitialTokens
    <2> QED  BY <1>1, <1>2, <1>4, <2>1, AfterFacts DEF SetInitialTokens
  <1>5. CASE DailyReset
    <2>1. Head(queue).type = "DailyReset"
      BY <1>5 DEF DailyReset
    <2> QED  BY <1>1, <1>2, <1>5, <2>1, AfterFacts DEF DailyReset
  <1> QED  BY <1>3, <1>4, <1>5

LEMMA SentAggregator == ASSUME TypeOK, CountersInv, Aggregator PROVE SentInv'
  <1>0. PICK shown : /\ Foreseen(shown)
                     /\ IF Up THEN Agrees(shown[Len(queue) + 1]) ELSE Blank(shown[Len(queue) + 1])
    BY DEF CountersInv, SentInv
  <1> DEFINE last == shown[Len(queue) + 1]
  <1>1. CASE SendUpdate
    <2>1. PICK m : m = [type |-> "TokensUpdate"]
      OBVIOUS
    <2>2. send(m) /\ m \in Message /\ m.type = "TokensUpdate"
      BY <1>1, <2>1 DEF SendUpdate, Message
    <2>3. UNCHANGED <<pc, memory, agg, rolled>> /\ updates > 0 /\ updates' = updates - 1
      BY <1>1 DEF SendUpdate, watcher, history
    <2>4. PICK next : Foreseen(next)' /\ next[Len(queue') + 1] = After(last, m)
      BY <1>0, <2>2, <2>3, ForeseenSend
    <2>5. Up /\ Up'
      BY <1>0, <2>3 DEF Blank, Up
    <2>6. last \in Display /\ last.cumulative \in Nat /\ last.today \in Nat /\ updates \in Nat
      BY <1>0, LastShown DEF TypeOK
    <2>7. /\ After(last, m).cumulative = last.cumulative + 1
          /\ After(last, m).today = last.today + 1 /\ After(last, m).date = last.date
      BY <2>2, <2>6, AfterFacts
    <2>8. Agrees(last)
      BY <1>0, <2>5
    <2>9. Agrees(next[Len(queue) + 1])'
      BY <2>3, <2>4, <2>6, <2>7, <2>8 DEF Agrees
    <2> QED  BY <2>4, <2>5, <2>9 DEF SentInv
  <1>2. CASE SendReset
    <2>1. PICK d \in resets : send([type |-> "DailyReset", date |-> d]) /\ resets' = resets \ {d}
      BY <1>2 DEF SendReset
    <2>2. UNCHANGED <<pc, memory, agg, updates, rolled>>
      BY <1>2 DEF SendReset, watcher, history
    <2>3. d \in Date /\ rolled'
      BY <2>1, <2>2 DEF TypeOK, CountersInv, RolledInv
    <2> QED  BY <2>1, <2>2, <2>3, SentReset
  <1>3. CASE TokensUpdate \/ SetInitialTokens \/ DailyReset
    <2>1. PICK next : Foreseen(next)' /\ next[Len(queue') + 1] = last
      BY <1>0, <1>3, HandlersFollow, ForeseenTake
    <2>2. UNCHANGED <<pc, memory, updates, resets, rolled>>
      BY <1>3, HandlersFollow
    <2>3. (Up' <=> Up) /\ (Up => Agrees(next[Len(queue) + 1])') /\ (~Up => Blank(next[Len(queue) + 1])')
      BY <1>0, <2>1, <2>2 DEF Agrees, Blank, Up
    <2> QED  BY <2>1, <2>3 DEF SentInv
  <1> QED  BY <1>1, <1>2, <1>3 DEF Aggregator

LEMMA CountersNext == ASSUME TypeOK, TasksAgree, CountersInv, [Next]_vars PROVE CountersInv'
  <1>1. CASE UNCHANGED vars \/ Environment
    <2>1. UNCHANGED <<pc, memory, queue, agg, updates, resets, rolled>>
      BY <1>1 DEF vars, Environment, DayBreaks, Write, Replace, watcher, spawned, history
    <2>2. (Up' <=> Up) /\ (~Up => resets' = {})
      BY <2>1 DEF Up, CountersInv, SentInv, Blank
    <2>3. SentInv'
      BY <2>1, <2>2, SentKept DEF CountersInv
    <2> QED  BY <2>3, RolledNext DEF CountersInv
  <1> QED
    BY <1>1, RolledNext, SentDaemon, SentWatcher, SentMidnight, SentAggregator DEF Next, CountersInv

\* Once nothing is on its way the aggregator shows the watcher's total, whatever the order in
\* which updates, resets and the totals of former runs arrived; and its count of today too,
\* unless a date rolled over since the start.
THEOREM CountersCorrect == Spec => []CountersAgree
  <1>1. Init => TotalInv /\ CountersInv  BY TotalInit, CountersInit
  <1>2. TypeOK /\ TotalInv /\ CountersInv /\ [Next]_vars => TotalInv' /\ CountersInv'
    BY TotalNext, CountersNext DEF TotalInv
  <1>3. TypeOK /\ CountersInv => CountersAgree
    <2> SUFFICES ASSUME TypeOK, CountersInv, Up, queue = <<>>, updates = 0 
                 PROVE  /\ agg.cumulative = memory.cumulative
                        /\ ~rolled => agg.today = memory.today /\ agg.date = memory.current_date
      BY DEF CountersAgree
    <2>1. PICK shown : Foreseen(shown) /\ Agrees(shown[Len(queue) + 1])
      BY DEF CountersInv, SentInv
    <2>2. shown[Len(queue) + 1] = agg
      BY <2>1 DEF Foreseen
    <2>3. agg.cumulative \in Nat /\ agg.today \in Nat
      BY DEF TypeOK
    <2> QED  BY <2>1, <2>2, <2>3 DEF Agrees
  <1> QED  BY <1>1, <1>2, <1>3, TypeCorrect, PTL DEF Spec

-----------------------------------------------------------------------------
(* No whole line is missed. *)

Due == Up => memory.cumulative + Sum(Unread) = expected

LEMMA UnreadFacts ==
    ASSUME TypeOK, TypeOK'
    PROVE  /\ Unread \in [File -> Int] /\ Unread' \in [File -> Int]
           /\ \A f \in File : Unread[f] = unread(f) /\ Unread'[f] = unread(f)'
  <1>1. ASSUME NEW f \in File PROVE unread(f) \in Int
    <2>1. unread(f) \in Nat
      BY UnreadType DEF TypeOK, Counts
    <2> QED
      BY <2>1
  <1>2. ASSUME NEW f \in File PROVE unread(f)' \in Int
    <2>1. Counts'
      BY DEF TypeOK, Counts
    <2>2. unread(f)' \in Nat
      BY <2>1, UnreadTypeNext
    <2> QED
      BY <2>2
  <1> QED
    BY <1>1, <1>2 DEF Unread

\* A step that changes what is unread in one transcript.
LEMMA OneMoves ==
    ASSUME TypeOK, TypeOK', NEW f \in File,
           \A g \in File \ {f} : size'[g] = size[g] /\ kept'[g] = kept[g] /\ offset'[g] = offset[g]
    PROVE  /\ Sum(Unread)' = Sum(Unread) + unread(f)' - unread(f)
           /\ Sum(Unread) \in Int /\ unread(f) \in Int /\ unread(f)' \in Int
  <1>1. PICK u, v : u = Unread /\ v = Unread'
    OBVIOUS
  <1>2. u \in [File -> Int] /\ v \in [File -> Int] /\ u[f] = unread(f) /\ v[f] = unread(f)'
    BY <1>1, UnreadFacts
  <1>3. \A g \in File \ {f} : v[g] = u[g]
    BY <1>1, UnreadFacts DEF unread, position
  <1>4. Sum(v) = Sum(u) + v[f] - u[f] /\ Sum(u) \in Int
    BY <1>2, <1>3, SumFacts
  <1>5. Sum(Unread)' = Sum(v)
    BY <1>1 DEF Sum
  <1> QED
    BY <1>1, <1>2, <1>4, <1>5

LEMMA DueKept ==
    ASSUME Due, UNCHANGED <<size, kept, offset, expected>>, memory'.cumulative = memory.cumulative, Up' => Up
    PROVE  Due'
  <1>1. PICK u, v : u = Unread /\ v = Unread'
    OBVIOUS
  <1>2. u = v
    BY <1>1 DEF Unread, unread, position
  <1>3. Sum(Unread)' = Sum(v)
    BY <1>1 DEF Sum
  <1> QED
    BY <1>1, <1>2, <1>3 DEF Due

LEMMA DueEnvironment == ASSUME TypeOK, TypeOK', Due, Environment PROVE Due'
  <1> USE DEF transcripts, watcher, files, spawned, history
  <1>1. ASSUME DayBreaks PROVE Due'
    BY <1>1, DueKept DEF DayBreaks, Up
  <1>2. ASSUME NEW f \in File, Write(f) \/ Replace(f) PROVE Due'
    <2>0. offset' = offset /\ size \in [File -> Nat] /\ kept \in [File -> BOOLEAN]
          /\ \/ kept' = kept /\ size' = [size EXCEPT ![f] = @ + 1]
             \/ kept' = [kept EXCEPT ![f] = FALSE] /\ \E n \in 0..size[f] : size' = [size EXCEPT ![f] = n]
      BY <1>2 DEF Write, Replace, TypeOK
    <2>1. \A g \in File \ {f} : size'[g] = size[g] /\ kept'[g] = kept[g] /\ offset'[g] = offset[g]
      BY <2>0
    <2>2. /\ expected' = IF Up THEN expected + unread(f)' - unread(f) ELSE expected
          /\ memory' = memory /\ pc' = pc
      BY <1>2 DEF Write, Replace
    <2>3. /\ Sum(Unread)' = Sum(Unread) + unread(f)' - unread(f)
          /\ Sum(Unread) \in Int /\ unread(f) \in Int /\ unread(f)' \in Int
      BY <2>1, OneMoves
    <2>4. memory.cumulative \in Int /\ expected \in Int
      BY DEF TypeOK
    <2> QED
      BY <2>2, <2>3, <2>4 DEF Due, Up
  <1> QED
    BY <1>1, <1>2 DEF Environment

LEMMA DueDaemon == ASSUME TypeOK, TypeOK', Due, Daemon PROVE Due'
  <1> USE DEF transcripts, watcher, files, spawned, history
  <1>1. CASE Start \/ Stop
    <2>1. ~Up'
      BY <1>1 DEF Start, Stop, Up
    <2> QED
      BY <2>1 DEF Due
  <1>2. CASE SnapshotExisting
    <2>1. memory' = memory /\ expected' = memory.cumulative + MapThenSumSet(unread, File)'
      BY <1>2 DEF SnapshotExisting, snapshot_existing
    <2>2. UnreadIsSummed'
      BY SummedNext DEF TypeOK, Counts
    <2> QED
      BY <2>1, <2>2 DEF Due, UnreadIsSummed
  <1>3. CASE Watch
    BY <1>3, DueKept DEF Watch, Up
  <1> QED
    BY <1>1, <1>2, <1>3 DEF Daemon

LEMMA WholeSteps ==
    ASSUME NEW o \in Nat, NEW s \in Nat
    PROVE  /\ o % 2 = 0 /\ s - o >= 2 => whole(o + 2, s) = whole(o, s) - 1
           /\ s - o > 0 /\ ~(o % 2 = 0 /\ s - o >= 2) => whole(o + 1, s) = whole(o, s)
  <1>1. PICK k \in Nat, h \in Nat : o \div 2 = k /\ s \div 2 = h
    OBVIOUS
  <1>2. (o = 2 * k \/ o = 2 * k + 1) /\ (s = 2 * h \/ s = 2 * h + 1)
    BY <1>1
  <1>3. CASE o = 2 * k
    <2>1. (o + 1) \div 2 = k /\ (o + 2) \div 2 = k + 1 /\ (o + 3) \div 2 = k + 1 /\ o % 2 = 0
          /\ (o + 1 + 1) \div 2 = k + 1 /\ (o + 2 + 1) \div 2 = k + 1
      BY <1>3
    <2>2. whole(o, s) = IF h > k THEN h - k ELSE 0
      BY <1>1, <2>1 DEF whole
    <2>3. whole(o + 1, s) = IF h > k + 1 THEN h - (k + 1) ELSE 0
      BY <1>1, <2>1 DEF whole
    <2>4. whole(o + 2, s) = IF h > k + 1 THEN h - (k + 1) ELSE 0
      BY <1>1, <2>1 DEF whole
    <2> QED
      BY <1>2, <1>3, <2>1, <2>2, <2>3, <2>4
  <1>4. CASE o = 2 * k + 1
    <2>1. (o + 1) \div 2 = k + 1 /\ (o + 1 + 1) \div 2 = k + 1 /\ o % 2 = 1
      BY <1>4
    <2>2. whole(o, s) = whole(o + 1, s)
      BY <2>1 DEF whole
    <2> QED
      BY <2>1, <2>2
  <1> QED
    BY <1>2, <1>3, <1>4

LEMMA DueWatcher == ASSUME TypeOK, TypeOK', NoticedInv, Due, Watcher PROVE Due'
  <1> USE DEF transcripts, watcher, files, spawned, history
  <1>0. memory.cumulative \in Int /\ expected \in Int /\ at \in File
        /\ \A f \in File : size[f] \in Nat /\ offset[f] \in Nat
    BY DEF TypeOK
  <1>1. ASSUME NEW f \in File, handle_event(f) PROVE Due'
    <2>1. \A g \in File \ {f} : size'[g] = size[g] /\ kept'[g] = kept[g] /\ offset'[g] = offset[g]
      BY <1>1 DEF handle_event, TypeOK
    <2>2. size' = size /\ kept'[f] /\ offset'[f] = position(f)
      BY <1>1 DEF handle_event, TypeOK
    <2>3. unread(f)' = unread(f)
      BY <2>2 DEF unread, position
    <2>4. Sum(Unread)' = Sum(Unread) + unread(f)' - unread(f) /\ Sum(Unread) \in Int /\ unread(f) \in Int
      BY <2>1, OneMoves
    <2>5. memory' = memory /\ expected' = expected /\ Up
      BY <1>1 DEF handle_event, Up
    <2> QED
      BY <1>0, <2>3, <2>4, <2>5 DEF Due
  <1>2. ASSUME NEW f \in File, OpenFails(f) PROVE Due'
    BY <1>2, DueKept DEF OpenFails, Up
  <1>3. CASE EndOfFile \/ DrainFails \/ RolloverSaved \/ PersistTick
    BY <1>3, DueKept DEF EndOfFile, DrainFails, RolloverSaved, PersistTick, Up
  <1>4. CASE RollOver
    <2>1. memory'.cumulative = memory.cumulative
      BY <1>4 DEF RollOver, TypeOK
    <2> QED
      BY <1>4, <2>1, DueKept DEF RollOver, Up
  <1>5. CASE TickSaved
    <2>1. memory'.cumulative = memory.cumulative
      BY <1>5 DEF TickSaved, TypeOK
    <2> QED
      BY <1>5, <2>1, DueKept DEF TickSaved, Up
  <1>6. CASE SkipFragment
    <2>1. /\ \A g \in File \ {at} : size'[g] = size[g] /\ kept'[g] = kept[g] /\ offset'[g] = offset[g]
          /\ size'[at] = size[at] /\ kept'[at] = kept[at] /\ offset'[at] = offset[at] + 1
      BY <1>6 DEF SkipFragment, TypeOK
    <2>2. kept[at] /\ size[at] - offset[at] > 0 /\ ~(offset[at] % 2 = 0 /\ size[at] - offset[at] >= 2)
      BY <1>6 DEF SkipFragment, Remaining, WholeLine, NoticedInv, OpenIsKept, Draining
    <2>3. PICK o \in Nat, s \in Nat : o = offset[at] /\ s = size[at]
      BY <1>0
    <2>4. whole(o + 1, s) = whole(o, s)
      BY <2>2, <2>3, WholeSteps
    <2>5. PICK f \in File : f = at
      BY <1>0
    <2>6. unread(f)' = unread(f)
      BY <2>1, <2>2, <2>3, <2>4, <2>5 DEF unread, position
    <2>7. Sum(Unread)' = Sum(Unread) + unread(f)' - unread(f) /\ Sum(Unread) \in Int /\ unread(f) \in Int
      BY <2>1, <2>5, OneMoves
    <2>8. memory' = memory /\ expected' = expected /\ Up
      BY <1>6 DEF SkipFragment, Up
    <2> QED
      BY <1>0, <2>6, <2>7, <2>8 DEF Due
  <1>7. CASE CountLine
    <2>1. /\ \A g \in File \ {at} : size'[g] = size[g] /\ kept'[g] = kept[g] /\ offset'[g] = offset[g]
          /\ size'[at] = size[at] /\ kept'[at] = kept[at] /\ offset'[at] = offset[at] + 2
      BY <1>7 DEF CountLine, TypeOK
    <2>2. kept[at] /\ offset[at] % 2 = 0 /\ size[at] - offset[at] >= 2
      BY <1>7 DEF CountLine, Remaining, WholeLine, NoticedInv, OpenIsKept, Draining
    <2>3. PICK o \in Nat, s \in Nat : o = offset[at] /\ s = size[at]
      BY <1>0
    <2>4. whole(o + 2, s) = whole(o, s) - 1
      BY <2>2, <2>3, WholeSteps
    <2>5. PICK f \in File : f = at
      BY <1>0
    <2>6. unread(f)' = unread(f) - 1
      BY <2>1, <2>2, <2>3, <2>4, <2>5 DEF unread, position
    <2>7. Sum(Unread)' = Sum(Unread) + unread(f)' - unread(f) /\ Sum(Unread) \in Int /\ unread(f) \in Int
      BY <2>1, <2>5, OneMoves
    <2>8. memory'.cumulative = memory.cumulative + 1 /\ expected' = expected /\ Up
      BY <1>7 DEF CountLine, Up
    <2> QED
      BY <1>0, <2>6, <2>7, <2>8 DEF Due
  <1> QED
    BY <1>1, <1>2, <1>3, <1>4, <1>5, <1>6, <1>7 DEF Watcher

LEMMA DueNext == ASSUME TypeOK, TypeOK', NoticedInv, Due, [Next]_vars PROVE Due'
  <1> USE DEF transcripts, watcher, files, spawned, history
  <1>1. CASE UNCHANGED vars
    BY <1>1, DueKept DEF vars, Up
  <1>2. CASE Midnight
    BY <1>2, DueKept DEF Midnight, MidnightLoads, MidnightWrites, MidnightSaved, MidnightTells, Up
  <1>3. CASE Aggregator
    BY <1>3, DueKept DEF Aggregator, SendUpdate, SendReset, TokensUpdate, SetInitialTokens, DailyReset, Up
  <1> QED
    BY <1>1, <1>2, <1>3, DueEnvironment, DueDaemon, DueWatcher DEF Next

\* The lines counted and those about to be make up what was written since the scan, but
\* for the lines that were split by a read: the drains, the new inodes and the watcher's
\* restarts neither lose nor repeat another.
THEOREM OnlySplitMissed == Spec => []OnlySplitLinesAreMissed
  <1>1. Init => Due
    BY DEF Init, Due, Up
  <1>2. TypeOK /\ TypeOK' /\ NoticedInv /\ Due /\ [Next]_vars => Due'
    BY DueNext
  <1>3. TypeOK /\ Due => OnlySplitLinesAreMissed
    BY Summed DEF TypeOK, Counts, Due, UnreadIsSummed, OnlySplitLinesAreMissed
  <1> QED
    BY <1>1, <1>2, <1>3, TypeCorrect, NoticedCorrect, PTL DEF Spec
=============================================================================
