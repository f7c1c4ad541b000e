------------------------ MODULE AllowlistCacheProofs ------------------------
(***************************************************************************)
(* The lists the daemon holds are those of the last readable content of    *)
(* their files, for every tree of directories, cache size and sequence of  *)
(* changes, unless a change is on its way to a watcher or reached none     *)
(* (HeldListsAreFresh).  From that: an answer depends on what the files    *)
(* say and not on the order of files and entries (AnswersFollow), and the  *)
(* entry an Always adds allows the calls it was derived from               *)
(* (AlwaysHonoured) and no other (AlwaysLiteral).                          *)
(*                                                                         *)
(* The walks through the lists are folds, and a glob is matched by a       *)
(* recursive function: the first section shows that a fold has the value   *)
(* its equation gives, by induction on the number of elements.             *)
(***************************************************************************)
EXTENDS AllowlistCache, FiniteSetTheorems, SequenceTheorems, WellFoundedInduction, TLAPS

-----------------------------------------------------------------------------
(* Folds.                                                                  *)

Below == {p \in Nat \X Nat : p[1] < p[2]}

\* Induction, for a set of numbers.
LEMMA Induction ==
  ASSUME NEW S, 0 \in S, \A n \in Nat : n \in S => n + 1 \in S
  PROVE  Nat \subseteq S
<1> SUFFICES ASSUME ~(Nat \subseteq S) PROVE FALSE
  OBVIOUS
<1>1. PICK T : T = Nat \ S
  OBVIOUS
<1>2. T \subseteq Nat /\ T # {}
  BY <1>1
<1>3. IsWellFoundedOn(Below, Nat)
  BY NatLessThanWellFounded DEF OpToRel, Below
<1>4. PICK x \in T : \A y \in T : ~(<<y, x>> \in Below)
  BY <1>2, <1>3, WFMin
<1>5. x - 1 \in Nat /\ x - 1 < x
  BY <1>1, <1>4
<1>6. <<x - 1, x>> \in Below
  BY <1>2, <1>5 DEF Below
<1>7. x - 1 \in S
  BY <1>1, <1>4, <1>5, <1>6
<1> QED
  BY <1>1, <1>4, <1>5, <1>7

\* A fold over a set whose elements c takes one by one is defined.
Chooses(c, S) == \A s \in SUBSET S : s # {} => c[s] \in s
IsFold(f, S, base, c, g) ==
    \A s \in SUBSET S : f[s] = IF s = {} THEN base ELSE g[<<c[s], f[s \ {c[s]}]>>]
LEMMA FoldExists ==
  ASSUME NEW S, IsFiniteSet(S), NEW V, NEW base \in V, NEW c, NEW g \in [S \X V -> V],
         Chooses(c, S)
  PROVE  \E f \in [SUBSET S -> V] : IsFold(f, S, base, c, g)
<1> DEFINE A(n) == {s \in SUBSET S : Cardinality(s) <= n}
           Fold(f, n) == \A s \in A(n) : f[s] = IF s = {} THEN base ELSE g[<<c[s], f[s \ {c[s]}]>>]
           Good == {n \in Nat : \E f \in [A(n) -> V] : Fold(f, n)}
<1>1. \A s \in SUBSET S : IsFiniteSet(s) /\ Cardinality(s) \in Nat /\ (Cardinality(s) = 0 <=> s = {})
  BY FS_Subset, FS_CardinalityType, FS_EmptySet
<1>2. \A s \in SUBSET S : s # {} => c[s] \in S /\ Cardinality(s \ {c[s]}) = Cardinality(s) - 1
  BY <1>1, FS_RemoveElement DEF Chooses
<1>3. 0 \in Good
  <2>1. A(0) = {{}}
    BY <1>1
  <2>2. PICK f : f = [s \in A(0) |-> base]
    OBVIOUS
  <2>3. f \in [A(0) -> V]
    BY <2>2
  <2>4. Fold(f, 0)
    BY <2>1, <2>2
  <2> QED
    BY <2>3, <2>4
<1>4. ASSUME NEW n \in Nat, n \in Good PROVE n + 1 \in Good
  <2>1. PICK f \in [A(n) -> V] : Fold(f, n)
    BY <1>4
  <2>2. PICK h : h = [s \in A(n + 1) |-> IF s \in A(n) THEN f[s] ELSE g[<<c[s], f[s \ {c[s]}]>>]]
    OBVIOUS
  <2>3. ASSUME NEW s \in A(n + 1), s # {} PROVE s \ {c[s]} \in A(n) /\ s \ {c[s]} \in A(n + 1) /\ c[s] \in S
    BY <1>1, <1>2, <2>3
  <2>4. {} \in A(n) /\ \A s \in A(n + 1) : s \in SUBSET S
    BY <1>1
  <2> HIDE DEF A
  <2>5. ASSUME NEW s \in A(n + 1)
        PROVE  h[s] \in V /\ h[s] = IF s = {} THEN base ELSE g[<<c[s], h[s \ {c[s]}]>>]
    <3>1. CASE s \in A(n)
      <4>1. h[s] = f[s] /\ h[s] \in V
        BY <2>1, <2>2, <3>1
      <4>2. s # {} => h[s \ {c[s]}] = f[s \ {c[s]}]
        BY <2>2, <2>3
      <4>3. f[s] = IF s = {} THEN base ELSE g[<<c[s], f[s \ {c[s]}]>>]
        BY <2>1, <3>1
      <4> QED
        BY <4>1, <4>2, <4>3
    <3>2. CASE s \notin A(n)
      <4>1. s # {}
        BY <2>4, <3>2
      <4>2. s \ {c[s]} \in A(n) /\ s \ {c[s]} \in A(n + 1) /\ c[s] \in S
        BY <2>3, <4>1
      <4>3. h[s] = g[<<c[s], f[s \ {c[s]}]>>] /\ h[s \ {c[s]}] = f[s \ {c[s]}]
        BY <2>2, <3>2, <4>2
      <4>4. f[s \ {c[s]}] \in V
        BY <2>1, <4>2
      <4> QED
        BY <4>1, <4>2, <4>3, <4>4
    <3> QED
      BY <3>1, <3>2
  <2>6. h \in [A(n + 1) -> V]
    BY <2>2, <2>5
  <2>7. Fold(h, n + 1)
    BY <2>5
  <2> HIDE DEF Fold
  <2> QED
    BY <2>6, <2>7
<1>5. Nat \subseteq Good
  <2> HIDE DEF Good
  <2> QED
    BY <1>3, <1>4, Induction
<1>6. Cardinality(S) \in Nat /\ A(Cardinality(S)) = SUBSET S
  BY FS_Subset, FS_CardinalityType
<1>7. PICK f \in [A(Cardinality(S)) -> V] : Fold(f, Cardinality(S))
  BY <1>5, <1>6
<1> QED
  BY <1>6, <1>7 DEF IsFold

LEMMA MaxIs ==
  ASSUME NEW n \in Nat, NEW s \in SUBSET (1..n), s # {}
  PROVE  Max(s) \in s /\ \A y \in s : Max(s) >= y
<1> DEFINE Good == {k \in Nat : \A t \in SUBSET (1..k) : t # {} => \E x \in t : \A y \in t : x >= y}
<1>1. 0 \in Good
  <2>1. \A t \in SUBSET (1..0) : t = {}
    OBVIOUS
  <2> QED
    BY <2>1
<1>2. ASSUME NEW k \in Nat, k \in Good PROVE k + 1 \in Good
  <2> SUFFICES ASSUME NEW t \in SUBSET (1..k + 1), t # {} PROVE \E x \in t : \A y \in t : x >= y
    OBVIOUS
  <2>1. CASE k + 1 \in t
    BY <2>1
  <2>2. CASE k + 1 \notin t
    <3>1. t \in SUBSET (1..k)
      BY <2>2
    <3> QED
      BY <1>2, <3>1
  <2> QED
    BY <2>1, <2>2
<1>3. Nat \subseteq Good
  <2> HIDE DEF Good
  <2> QED
    BY <1>1, <1>2, Induction
<1>4. \E x \in s : \A y \in s : x >= y
  BY <1>3
<1> QED
  BY <1>4 DEF Max

LEMMA MaxUpTo ==
  ASSUME NEW n \in Nat, NEW k \in 1..n
  PROVE  Max(1..k) = k /\ (1..k) \ {k} = 1..k - 1 /\ 1..k \in SUBSET (1..n) /\ 1..k # {}
<1>1. Max(1..k) \in 1..k /\ \A y \in 1..k : Max(1..k) >= y
  <2>1. 1..k \in SUBSET (1..k) /\ 1..k # {} /\ k \in Nat
    OBVIOUS
  <2> QED
    BY <2>1, MaxIs
<1> QED
  BY <1>1

\* What a fold of a sequence computes, step by step.
IsLeftFold(f, n, base, g) ==
    \A s \in SUBSET (1..n) : f[s] = IF s = {} THEN base ELSE g[<<Max(s), f[s \ {Max(s)}]>>]
LEMMA FoldSteps ==
  ASSUME NEW n \in Nat, NEW V, NEW base \in V, NEW g \in [(1..n) \X V -> V]
  PROVE  \E f \in [SUBSET (1..n) -> V] : IsLeftFold(f, n, base, g)
<1>1. PICK S : S = 1..n
  OBVIOUS
<1>2. PICK c : c = [s \in SUBSET S |-> Max(s)]
  OBVIOUS
<1>3. IsFiniteSet(S) /\ g \in [S \X V -> V]
  BY <1>1, FS_Interval
<1>4. \A s \in SUBSET S : c[s] = Max(s) /\ (s # {} => c[s] \in s)
  BY <1>1, <1>2, MaxIs
<1>5. PICK f \in [SUBSET S -> V] : \A s \in SUBSET S :
            f[s] = IF s = {} THEN base ELSE g[<<c[s], f[s \ {c[s]}]>>]
  <2>1. Chooses(c, S)
    BY <1>4 DEF Chooses
  <2>2. PICK f \in [SUBSET S -> V] : IsFold(f, S, base, c, g)
    BY <1>3, <2>1, FoldExists
  <2> QED
    BY <2>2 DEF IsFold
<1>6. \A s \in SUBSET S : f[s] = IF s = {} THEN base ELSE g[<<Max(s), f[s \ {Max(s)}]>>]
  BY <1>4, <1>5
<1> QED
  BY <1>1, <1>6 DEF IsLeftFold

Parses(arr) == {parse(arr[i]) : i \in DOMAIN arr}

\* The strings of an array, parsed, in a sequence.
LEMMA PatternArray ==
  ASSUME NEW arr \in Seq(Seq(Token))
  PROVE  /\ parse_pattern_array(arr) \in Seq(Parses(arr))
         /\ \A i \in DOMAIN arr : arr[i] # NoString =>
              \E k \in DOMAIN parse_pattern_array(arr) : parse_pattern_array(arr)[k] = parse(arr[i])
<1> DEFINE Body(f, s) == IF s = {} THEN <<>>
                         ELSE LET x == Max(s) IN
                              IF arr[x] = NoString THEN f[s \ {x}]
                              ELSE Append(f[s \ {x}], parse(arr[x]))
           iter == CHOOSE f : f = [s \in SUBSET DOMAIN arr |-> Body(f, s)]
           Q == Parses(arr)
<1>1. parse_pattern_array(arr) = iter[DOMAIN arr]
  BY DEF parse_pattern_array, FoldLeft, MapThenFoldSet
<1>2. PICK n \in Nat : n = Len(arr) /\ DOMAIN arr = 1..n /\ \A i \in 1..n : parse(arr[i]) \in Q
  <2>1. PICK n \in Nat : n = Len(arr) /\ DOMAIN arr = 1..n
    OBVIOUS
  <2>2. \A i \in 1..n : parse(arr[i]) \in Q
    BY <2>1, Zenon DEF Parses
  <2> QED
    BY <2>1, <2>2
<1>3. \E f : f = [s \in SUBSET (1..n) |-> Body(f, s)]
  <2>1. PICK g : g = [p \in (1..n) \X Seq(Q) |-> IF arr[p[1]] = NoString THEN p[2]
                                                 ELSE Append(p[2], parse(arr[p[1]]))]
    OBVIOUS
  <2>2. g \in [(1..n) \X Seq(Q) -> Seq(Q)]
    BY <1>2, <2>1
  <2>3. PICK f \in [SUBSET (1..n) -> Seq(Q)] : \A s \in SUBSET (1..n) :
            f[s] = IF s = {} THEN <<>> ELSE g[<<Max(s), f[s \ {Max(s)}]>>]
    <3>1. <<>> \in Seq(Q)
      OBVIOUS
    <3>2. PICK f \in [SUBSET (1..n) -> Seq(Q)] : IsLeftFold(f, n, <<>>, g)
      BY <2>2, <3>1, FoldSteps
    <3> QED
      BY <3>2 DEF IsLeftFold
  <2>4. ASSUME NEW s \in SUBSET (1..n) PROVE f[s] = Body(f, s)
    <3>1. CASE s = {}
      BY <2>3, <3>1
    <3>2. CASE s # {}
      <4>1. PICK x, v : x = Max(s) /\ v = f[s \ {x}]
        OBVIOUS
      <4>2. x \in 1..n /\ v \in Seq(Q)
        BY <2>3, <3>2, <4>1, MaxIs
      <4>3. f[s] = g[<<x, v>>]
        BY <2>3, <3>2, <4>1
      <4>4. g[<<x, v>>] = IF arr[x] = NoString THEN v ELSE Append(v, parse(arr[x]))
        BY <2>1, <4>2
      <4> QED
        BY <3>2, <4>1, <4>3, <4>4
    <3> QED
      BY <3>1, <3>2
  <2> HIDE DEF Body
  <2>5. f = [s \in SUBSET (1..n) |-> Body(f, s)]
    BY <2>3, <2>4
  <2> QED
    BY <2>5
<1>4. iter = [s \in SUBSET (1..n) |-> Body(iter, s)]
  <2> HIDE DEF Body
  <2> QED
    BY <1>2, <1>3
<1> HIDE DEF iter
<1> DEFINE Holds(l, k) ==
             l \in Seq(Q) /\ \A i \in 1..k : arr[i] # NoString => \E j \in DOMAIN l : l[j] = parse(arr[i])
           Good == {k \in Nat : k <= n => Holds(iter[1..k], k)}
<1>5. 0 \in Good
  <2>1. 1..0 = {} /\ {} \in SUBSET (1..n)
    OBVIOUS
  <2>2. iter[{}] = Body(iter, {})
    BY <1>4, <2>1
  <2>3. Holds(<<>>, 0)
    OBVIOUS
  <2> QED
    BY <2>1, <2>2, <2>3
<1>6. ASSUME NEW m \in Nat, m \in Good PROVE m + 1 \in Good
  <2> SUFFICES ASSUME m + 1 <= n PROVE Holds(iter[1..m + 1], m + 1)
    OBVIOUS
  <2>1. PICK k \in 1..n : k = m + 1
    BY <1>2
  <2>2. Max(1..k) = k /\ (1..k) \ {k} = 1..m /\ 1..k \in SUBSET (1..n) /\ 1..k # {}
    BY <2>1, MaxUpTo
  <2>3. PICK old, new : old = iter[1..m] /\ new = iter[1..k]
    OBVIOUS
  <2>4. Holds(old, m)
    BY <1>6, <2>3
  <2>5. new = IF arr[k] = NoString THEN old ELSE Append(old, parse(arr[k]))
    BY <1>4, <2>2, <2>3
  <2>6. \A i \in 1..k : i \in 1..m \/ i = k
    BY <2>1
  <2>7. CASE arr[k] = NoString
    BY <2>1, <2>3, <2>4, <2>5, <2>6, <2>7
  <2>8. CASE arr[k] # NoString
    <3>1. new \in Seq(Q) /\ Len(new) = Len(old) + 1 /\ new[Len(old) + 1] = parse(arr[k])
          /\ \A j \in DOMAIN old : j \in DOMAIN new /\ new[j] = old[j]
      BY <1>2, <2>4, <2>5, <2>8
    <3>2. Len(old) + 1 \in DOMAIN new
      BY <2>4, <3>1
    <3>3. Holds(new, k)
      BY <2>4, <2>6, <3>1, <3>2
    <3> QED
      BY <2>1, <2>3, <3>3
  <2> QED
    BY <2>7, <2>8
<1>7. Nat \subseteq Good
  <2> HIDE DEF Good
  <2> QED
    BY <1>5, <1>6, Induction
<1>8. Holds(iter[1..n], n)
  BY <1>7
<1> QED
  BY <1>1, <1>2, <1>8

Answer == {"Confident", "Ambiguous", "NoMatch"}

LEMMA MatchType == ASSUME NEW p, NEW call PROVE matches(p, call) \in Answer
<1>1. \A h : confident(h) \in Answer
  BY DEF confident, Answer
<1>2. match_tool_args(p, call) \in Answer
  BY <1>1 DEF match_tool_args, Answer
<1> QED
  BY <1>1, <1>2 DEF matches, Answer

\* What the entries of a list say of a call, and what a walk through them makes of it.
Says(list, call, m) == \E i \in DOMAIN list : matches(list[i], call) = m
LEMMA ScanFinds ==
  ASSUME NEW P, NEW list \in Seq(P), NEW call
  PROVE  /\ Scan(list, call).result = "Confident" <=> Says(list, call, "Confident")
         /\ Scan(list, call).result = "Ambiguous" <=>
              ~Says(list, call, "Confident") /\ Says(list, call, "Ambiguous")
<1> DEFINE Next1(seen1, p) == Step(seen1, p, matches(p, call))
           Body(f, s) == IF s = {} THEN Nothing
                         ELSE LET x == Max(s) IN Next1(f[s \ {x}], list[x])
           iter == CHOOSE f : f = [s \in SUBSET DOMAIN list |-> Body(f, s)]
           V == [result : Answer, raw : {<<>>} \cup {list[i].raw : i \in DOMAIN list}]
<1>1. Scan(list, call) = iter[DOMAIN list]
  BY DEF Scan, FoldLeft, MapThenFoldSet
<1>2. PICK n \in Nat : n = Len(list) /\ DOMAIN list = 1..n
  OBVIOUS
<1>3. ASSUME NEW v \in V, NEW i \in 1..n
      PROVE  /\ Next1(v, list[i]) \in V
             /\ Next1(v, list[i]).result = IF v.result = "Confident" \/ matches(list[i], call) = "NoMatch"
                                           THEN v.result ELSE matches(list[i], call)
  <2>1. PICK m \in Answer : m = matches(list[i], call)
    BY MatchType
  <2>2. Found(m, list[i]) \in V /\ Found(m, list[i]).result = m
    BY <1>2 DEF Found
  <2>3. Next1(v, list[i]) = IF v.result = "Confident" \/ m = "NoMatch" THEN v
                            ELSE IF m = "Ambiguous" /\ v.result = "Ambiguous" THEN v
                            ELSE Found(m, list[i])
    BY <2>1 DEF Step
  <2> HIDE DEF V, Next1
  <2> QED
    BY <2>1, <2>2, <2>3
<1>4. Nothing \in V /\ Nothing.result = "NoMatch"
  BY DEF Nothing, Answer
<1> HIDE DEF Next1, V
<1>5. \E f : f = [s \in SUBSET (1..n) |-> Body(f, s)]
  <2>1. PICK g : g = [p \in (1..n) \X V |-> Next1(p[2], list[p[1]])]
    OBVIOUS
  <2>2. g \in [(1..n) \X V -> V]
    BY <1>3, <2>1
  <2>3. PICK f \in [SUBSET (1..n) -> V] : IsLeftFold(f, n, Nothing, g)
    BY <1>4, <2>2, FoldSteps
  <2>4. ASSUME NEW s \in SUBSET (1..n) PROVE f[s] = Body(f, s)
    <3>1. CASE s = {}
      BY <2>3, <3>1 DEF IsLeftFold
    <3>2. CASE s # {}
      <4>1. PICK x, v : x = Max(s) /\ v = f[s \ {x}]
        OBVIOUS
      <4>2. x \in 1..n /\ v \in V
        BY <2>3, <3>2, <4>1, MaxIs
      <4>3. f[s] = g[<<x, v>>]
        BY <2>3, <3>2, <4>1 DEF IsLeftFold
      <4>4. g[<<x, v>>] = Next1(v, list[x])
        BY <2>1, <4>2
      <4> QED
        BY <3>2, <4>1, <4>3, <4>4
    <3> QED
      BY <3>1, <3>2
  <2> HIDE DEF Body
  <2>5. f = [s \in SUBSET (1..n) |-> Body(f, s)]
    BY <2>3, <2>4
  <2> QED
    BY <2>5
<1>6. iter = [s \in SUBSET (1..n) |-> Body(iter, s)]
  <2> HIDE DEF Body
  <2> QED
    BY <1>2, <1>5
<1> HIDE DEF iter
<1> DEFINE Met(k, m) == \E i \in 1..k : matches(list[i], call) = m
           Holds(v, k) == /\ v \in V
                          /\ v.result = "Confident" <=> Met(k, "Confident")
                          /\ v.result = "Ambiguous" <=> ~Met(k, "Confident") /\ Met(k, "Ambiguous")
           Good == {k \in Nat : k <= n => Holds(iter[1..k], k)}
<1>7. 0 \in Good
  <2>1. 1..0 = {} /\ {} \in SUBSET (1..n)
    OBVIOUS
  <2>2. iter[{}] = Body(iter, {})
    BY <1>6, <2>1
  <2>3. Holds(Nothing, 0)
    BY <1>4
  <2> QED
    BY <2>1, <2>2, <2>3
<1>8. ASSUME NEW j \in Nat, j \in Good PROVE j + 1 \in Good
  <2> SUFFICES ASSUME j + 1 <= n PROVE Holds(iter[1..j + 1], j + 1)
    OBVIOUS
  <2>1. PICK k \in 1..n : k = j + 1
    BY <1>2
  <2>2. Max(1..k) = k /\ (1..k) \ {k} = 1..j /\ 1..k \in SUBSET (1..n) /\ 1..k # {}
    BY <2>1, MaxUpTo
  <2>3. PICK old, new : old = iter[1..j] /\ new = iter[1..k]
    OBVIOUS
  <2>4. Holds(old, j)
    BY <1>8, <2>3
  <2>5. new = Next1(old, list[k])
    BY <1>6, <2>2, <2>3
  <2>6. new \in V /\ new.result = IF old.result = "Confident" \/ matches(list[k], call) = "NoMatch"
                                  THEN old.result ELSE matches(list[k], call)
    BY <1>3, <2>4, <2>5
  <2>7. \A m : Met(k, m) <=> Met(j, m) \/ matches(list[k], call) = m
    <3>1. \A i \in 1..k : i \in 1..j \/ i = k
      BY <2>1
    <3>2. \A i \in 1..j : i \in 1..k
      BY <2>1
    <3> QED
      BY <3>1, <3>2
  <2>8. PICK m \in Answer : m = matches(list[k], call)
    BY MatchType
  <2> HIDE DEF Met
  <2>9. Holds(new, k)
    BY <2>4, <2>6, <2>7, <2>8 DEF Answer
  <2> QED
    BY <2>1, <2>3, <2>9
<1>9. Nat \subseteq Good
  <2> HIDE DEF Good
  <2> QED
    BY <1>7, <1>8, Induction
<1>10. Holds(iter[1..n], n)
  BY <1>9
<1> QED
  BY <1>1, <1>2, <1>10 DEF Says

-----------------------------------------------------------------------------
LEMMA EvaluateIs ==
  ASSUME NEW P, NEW list, list.allow \in Seq(P), list.deny \in Seq(P), NEW call,
         NEW denied, NEW allowed,
         \A m \in Answer : /\ m \in denied <=> Says(list.deny, call, m)
                           /\ m \in allowed <=> Says(list.allow, call, m)
  PROVE  evaluate(call, list).is = Reference(call, denied, allowed)
<1>1. PICK deny, allow : deny = Scan(list.deny, call) /\ allow = Scan(list.allow, call)
  OBVIOUS
<1>2. /\ deny.result = "Confident" <=> "Confident" \in denied
      /\ "Confident" \notin denied => (deny.result = "Ambiguous" <=> "Ambiguous" \in denied)
  BY <1>1, ScanFinds DEF Answer
<1>3. /\ allow.result = "Confident" <=> "Confident" \in allowed
      /\ "Confident" \notin allowed => (allow.result = "Ambiguous" <=> "Ambiguous" \in allowed)
  BY <1>1, ScanFinds DEF Answer
<1>4. \A is, by : Verdict(is, by).is = is
  BY DEF Verdict
<1>5. evaluate(call, list) =
        IF call.mode \in PermissiveMode        THEN Verdict("Allow", Nothing)
        ELSE IF deny.result = "Confident"      THEN Verdict("Deny", deny)
        ELSE IF deny.result = "Ambiguous"      THEN Verdict("AskAnnotated", deny)
        ELSE IF allow.result = "Confident"     THEN Verdict("Allow", allow)
        ELSE IF allow.result = "Ambiguous"     THEN Verdict("AskAnnotated", allow)
        ELSE Verdict("Intercept", Nothing)
  BY <1>1 DEF evaluate, Decision
<1> DEFINE d == deny.result
           a == allow.result
<1>6. evaluate(call, list).is =
        IF call.mode \in PermissiveMode THEN "Allow"
        ELSE IF d = "Confident" THEN "Deny" ELSE IF d = "Ambiguous" THEN "AskAnnotated"
        ELSE IF a = "Confident" THEN "Allow" ELSE IF a = "Ambiguous" THEN "AskAnnotated"
        ELSE "Intercept"
  BY <1>4, <1>5
<1> HIDE DEF d, a
<1>7. (d = "Confident" <=> "Confident" \in denied) /\ (a = "Confident" <=> "Confident" \in allowed)
  BY <1>2, <1>3 DEF d, a
<1>8. /\ "Confident" \notin denied => (d = "Ambiguous" <=> "Ambiguous" \in denied)
      /\ "Confident" \notin allowed => (a = "Ambiguous" <=> "Ambiguous" \in allowed)
  BY <1>2, <1>3 DEF d, a
<1>9. PICK e, r : e = evaluate(call, list).is /\ r = Reference(call, denied, allowed)
  OBVIOUS
<1>10. CASE call.mode \in PermissiveMode
  BY <1>6, <1>9, <1>10 DEF Reference
<1>11. CASE call.mode \notin PermissiveMode /\ d = "Confident"
  BY <1>6, <1>7, <1>9, <1>11 DEF Reference
<1>12. CASE call.mode \notin PermissiveMode /\ d = "Ambiguous"
  BY <1>6, <1>7, <1>8, <1>9, <1>12 DEF Reference
<1>13. CASE call.mode \notin PermissiveMode /\ d \notin {"Confident", "Ambiguous"}
  <2>1. "Confident" \notin denied /\ "Ambiguous" \notin denied
    BY <1>7, <1>8, <1>13
  <2>2. e = IF a = "Confident" THEN "Allow" ELSE IF a = "Ambiguous" THEN "AskAnnotated" ELSE "Intercept"
    BY <1>6, <1>9, <1>13
  <2>3. r = IF "Confident" \in allowed THEN "Allow"
            ELSE IF "Ambiguous" \in allowed THEN "AskAnnotated" ELSE "Intercept"
    BY <1>9, <1>13, <2>1 DEF Reference
  <2>4. CASE a = "Confident"
    BY <1>7, <1>9, <2>2, <2>3, <2>4
  <2>5. CASE a # "Confident"
    <3>1. "Confident" \notin allowed /\ (a = "Ambiguous" <=> "Ambiguous" \in allowed)
      BY <1>7, <1>8, <2>5
    <3> QED
      BY <1>9, <2>2, <2>3, <2>5, <3>1
  <2> QED
    BY <2>4, <2>5
<1> QED
  BY <1>9, <1>10, <1>11, <1>12, <1>13

\* All lists come from arrays of texts.
Pattern == {parse(t) : t \in Seq(Token)}
Parsed == {from_settings_json(c) : c \in Content}

LEMMA ContentFields ==
  ASSUME NEW c \in Content
  PROVE  c.allow \in Seq(Seq(Token)) /\ c.deny \in Seq(Seq(Token))
<1>0. <<>> \in Seq(Seq(Token))
  OBVIOUS
<1>1. CASE c = Absent \/ c = Broken
  <2>1. c.allow = <<>> /\ c.deny = <<>>
    BY <1>1 DEF Absent, Broken
  <2> QED
    BY <1>0, <2>1
<1>2. CASE c \notin {Absent, Broken}
  BY <1>2 DEF Content
<1> QED
  BY <1>1, <1>2

LEMMA ParsedLists ==
  ASSUME NEW l \in Parsed
  PROVE  l.allow \in Seq(Pattern) /\ l.deny \in Seq(Pattern)
<1>1. PICK c \in Content : l = from_settings_json(c)
  BY DEF Parsed
<1>2. ASSUME NEW arr \in Seq(Seq(Token)) PROVE parse_pattern_array(arr) \in Seq(Pattern)
  <2>1. parse_pattern_array(arr) \in Seq(Parses(arr))
    BY PatternArray
  <2>2. Parses(arr) \subseteq Pattern
    BY DEF Parses, Pattern
  <2> QED
    BY <2>1, <2>2
<1>3. c.allow \in Seq(Seq(Token)) /\ c.deny \in Seq(Seq(Token))
  BY ContentFields
<1>4. l.allow = parse_pattern_array(c.allow) /\ l.deny = parse_pattern_array(c.deny)
  BY <1>1 DEF from_settings_json
<1> QED
  BY <1>2, <1>3, <1>4

LEMMA NothingParsed == empty \in Parsed /\ \A c \in Content : load(c) \in Parsed
<1>1. Absent \in Content
  BY DEF Content
<1>2. parse_pattern_array(<<>>) = <<>>
  <2>1. <<>> \in Seq(Seq(Token)) /\ Parses(<<>>) = {}
    BY DEF Parses
  <2>2. parse_pattern_array(<<>>) \in Seq({})
    BY <2>1, PatternArray
  <2> QED
    BY <2>2
<1>3. empty = from_settings_json(Absent)
  BY <1>2 DEF empty, from_settings_json, Absent
<1>4. empty \in Parsed
  BY <1>1, <1>3 DEF Parsed
<1> QED
  BY <1>4 DEF load, Parsed

LEMMA SaysMore ==
  ASSUME NEW P, NEW s \in Seq(P), NEW t \in Seq(P), NEW call, NEW m
  PROVE  Says(s \o t, call, m) <=> Says(s, call, m) \/ Says(t, call, m)
<1>1. PICK u : u = s \o t
  OBVIOUS
<1>2. /\ u \in Seq(P) /\ Len(u) = Len(s) + Len(t) /\ Len(s) \in Nat /\ Len(t) \in Nat
      /\ \A i \in 1..Len(s) : u[i] = s[i]
      /\ \A i \in 1..Len(t) : u[Len(s) + i] = t[i]
  BY <1>1
<1>3. DOMAIN u = 1..Len(u) /\ DOMAIN s = 1..Len(s) /\ DOMAIN t = 1..Len(t)
  BY <1>2
<1>4. ASSUME Says(u, call, m) PROVE Says(s, call, m) \/ Says(t, call, m)
  <2>1. PICK i \in 1..Len(u) : matches(u[i], call) = m
    BY <1>3, <1>4 DEF Says
  <2>2. CASE i <= Len(s)
    BY <1>2, <1>3, <2>1, <2>2 DEF Says
  <2>3. CASE i > Len(s)
    <3>1. i - Len(s) \in 1..Len(t) /\ u[Len(s) + (i - Len(s))] = t[i - Len(s)]
      BY <1>2, <2>1, <2>3
    <3>2. Len(s) + (i - Len(s)) = i
      BY <1>2, <2>1
    <3>3. matches(t[i - Len(s)], call) = m
      BY <2>1, <3>1, <3>2
    <3> QED
      BY <1>3, <3>1, <3>3 DEF Says
  <2> QED
    BY <1>2, <2>1, <2>2, <2>3
<1>5. ASSUME Says(s, call, m) PROVE Says(u, call, m)
  <2>1. PICK i \in 1..Len(s) : matches(s[i], call) = m
    BY <1>3, <1>5 DEF Says
  <2>2. i \in 1..Len(u) /\ u[i] = s[i]
    BY <1>2
  <2> QED
    BY <1>3, <2>1, <2>2 DEF Says
<1>6. ASSUME Says(t, call, m) PROVE Says(u, call, m)
  <2>1. PICK i \in 1..Len(t) : matches(t[i], call) = m
    BY <1>3, <1>6 DEF Says
  <2>2. Len(s) + i \in 1..Len(u) /\ u[Len(s) + i] = t[i]
    BY <1>2
  <2>3. matches(u[Len(s) + i], call) = m
    BY <2>1, <2>2
  <2> QED
    BY <1>3, <2>2, <2>3 DEF Says
<1> QED
  BY <1>1, <1>4, <1>5, <1>6

\* What the lists of a cascade say is what any of them says.
LEMMA CascadeSays ==
  ASSUME NEW a \in Parsed, NEW b \in Parsed, NEW c \in Parsed, NEW call, NEW m
  PROVE  LET all == cascade(a, b, c) IN
         /\ all.allow \in Seq(Pattern) /\ all.deny \in Seq(Pattern)
         /\ Says(all.allow, call, m) <=>
              Says(a.allow, call, m) \/ Says(b.allow, call, m) \/ Says(c.allow, call, m)
         /\ Says(all.deny, call, m) <=>
              Says(a.deny, call, m) \/ Says(b.deny, call, m) \/ Says(c.deny, call, m)
<1>1. ASSUME NEW x \in Seq(Pattern), NEW y \in Seq(Pattern), NEW z \in Seq(Pattern)
      PROVE  /\ x \o y \o z \in Seq(Pattern)
             /\ Says(x \o y \o z, call, m) <=>
                  Says(x, call, m) \/ Says(y, call, m) \/ Says(z, call, m)
  <2>1. PICK u : u = x \o y
    OBVIOUS
  <2>2. u \in Seq(Pattern) /\ u \o z \in Seq(Pattern)
    BY <2>1
  <2>3. Says(u, call, m) <=> Says(x, call, m) \/ Says(y, call, m)
    BY <2>1, SaysMore
  <2>4. Says(u \o z, call, m) <=> Says(u, call, m) \/ Says(z, call, m)
    BY <2>2, SaysMore
  <2> QED
    BY <2>1, <2>2, <2>3, <2>4
<1>2. /\ cascade(a, b, c).allow = a.allow \o b.allow \o c.allow
      /\ cascade(a, b, c).deny = a.deny \o b.deny \o c.deny
  BY DEF cascade
<1>3. /\ a.allow \in Seq(Pattern) /\ b.allow \in Seq(Pattern) /\ c.allow \in Seq(Pattern)
      /\ a.deny \in Seq(Pattern) /\ b.deny \in Seq(Pattern) /\ c.deny \in Seq(Pattern)
  BY ParsedLists
<1> QED
  BY <1>1, <1>2, <1>3

-----------------------------------------------------------------------------
(* The lists and their files.                                              *)

\* Per file the daemon answers from: what its watcher has left to do.
Fresh(f) ==
    /\ readable(disk[f]) => seen[f] = load(disk[f])
    /\ f \notin missed \cup notified => lists[f] = seen[f]
    /\ f \notin missed /\ ~readable(disk[f]) => lists[f] = seen[f]
IInv == TypeOK /\ \A f \in File : Tracked(f) => Fresh(f)

LEMMA FileFacts ==
    /\ User \in File
    /\ \A d \in Dir : <<"local", d>> \in File
    /\ \A f \in File : dir(f) \in Dir
  BY DirsAssumption DEF User, File, dir

LEMMA RootType ==
  ASSUME NEW cwd \in Dir
  PROVE  /\ find_project_root(cwd) \in (Dir \ {Home}) \cup {NoRoot}
         /\ resolve_write_target(cwd) \in Dir
<1>1. Up[cwd] \in Seq(Dir) /\ DOMAIN Up[cwd] = 1..Len(Up[cwd]) /\ Len(Up[cwd]) \in Nat
  BY DirsAssumption
<1>2. ASSUME NEW k \in FirstStop(cwd), Up[cwd][k] # Home
      PROVE  Up[cwd][CHOOSE i \in FirstStop(cwd) : TRUE] \in Dir \ {Home}
  <2> DEFINE i == CHOOSE i \in FirstStop(cwd) : TRUE
  <2>1. i \in FirstStop(cwd)
    BY <1>2
  <2> HIDE DEF i
  <2>2. i \in 1..Len(Up[cwd]) /\ k \in 1..Len(Up[cwd])
    BY <1>1, <1>2, <2>1 DEF FirstStop
  <2>3. ~(k < i) /\ ~(i < k)
    BY <1>2, <2>1, <2>2 DEF FirstStop
  <2>4. i = k
    BY <2>2, <2>3
  <2>5. Up[cwd][i] \in Dir \ {Home}
    BY <1>1, <1>2, <2>2, <2>4
  <2> QED
    BY <2>5 DEF i
<1>3. find_project_root(cwd) \in (Dir \ {Home}) \cup {NoRoot}
  BY <1>2 DEF find_project_root
<1> QED
  BY <1>3 DEF resolve_write_target

LEMMA WrittenType ==
  /\ Absent \in Content /\ Broken \in Content
  /\ \A e \in Entries : Json(e.allow, e.deny) \in Content
  BY TextAssumption DEF Absent, Broken, Json, Content

LEMMA AddsType ==
  ASSUME NEW c \in Content, readable(c), NEW call \in Call, derive_pattern(call) # <<>>
  PROVE  Adds(c, derive_pattern(call)[1]) \in Content
<1>1. call.tool \in Seq(Token) /\ call.value \in Seq(Token)
  BY TextAssumption
<1>2. call.tool \o <<"(">> \o call.value \o <<")">> \in Seq(Token)
  <2> DEFINE open == <<"(">>
             close == <<")">>
  <2>1. open \in Seq(Token) /\ close \in Seq(Token)
    BY TextAssumption
  <2> HIDE DEF open, close
  <2>2. call.tool \o open \o call.value \o close \in Seq(Token)
    BY <1>1, <2>1
  <2> QED
    BY <2>2 DEF open, close
<1>3. derive_pattern(call)[1] \in Seq(Token)
  <2> DEFINE t == call.tool \o <<"(">> \o call.value \o <<")">>
  <2>1. derive_pattern(call) = <<call.tool>> \/ derive_pattern(call) = <<t>>
    BY DEF derive_pattern
  <2> HIDE DEF t
  <2>2. <<call.tool>>[1] = call.tool /\ <<t>>[1] = t
    OBVIOUS
  <2> QED
    BY <1>1, <1>2, <2>1, <2>2 DEF t
<1>4. c.allow \in Seq(Seq(Token)) /\ c.deny \in Seq(Seq(Token))
  <2>1. CASE c = Absent
    BY <2>1 DEF Absent
  <2>2. CASE c # Absent
    BY <2>2 DEF Content, readable, Broken
  <2> QED
    BY <2>1, <2>2
<1>5. Append(c.allow, derive_pattern(call)[1]) \in Seq(Seq(Token))
  BY <1>3, <1>4
<1> QED
  BY <1>4, <1>5 DEF Adds, Json, Content

\* A file whose variables a step leaves alone stays fresh.
LEMMA Frame ==
  ASSUME NEW f \in File, Fresh(f),
         disk'[f] = disk[f], seen'[f] = seen[f], lists'[f] = lists[f],
         f \in missed' <=> f \in missed, f \in notified' <=> f \in notified
  PROVE  Fresh(f)'
  BY DEF Fresh, readable, load, from_settings_json

LEMMA BecomesFresh ==
  ASSUME TypeOK, NEW f \in File, NEW c \in Content, NEW event, Becomes(f, c, event),
         UNCHANGED <<lru, lists>>
  PROVE  /\ disk' \in [File -> Content] /\ DOMAIN seen' = File
         /\ notified' \subseteq File /\ missed' \subseteq File
         /\ (\A g \in File : Tracked(g) => Fresh(g)) => \A g \in File : Tracked(g)' => Fresh(g)'
<1>1. /\ disk' = [disk EXCEPT ![f] = c]
      /\ notified' = notified \/ notified' = notified \cup {f}
      /\ seen' = seen \/ seen' = [seen EXCEPT ![f] = from_settings_json(c)]
      /\ missed' \in {missed, missed \cup {f}, missed \ {f}}
  BY DEF Becomes
<1>2. /\ disk' \in [File -> Content] /\ DOMAIN seen' = File
      /\ notified' \subseteq File /\ missed' \subseteq File
  BY <1>1 DEF TypeOK
<1>3. ASSUME \A g \in File : Tracked(g) => Fresh(g), NEW g \in File, Tracked(g)'
      PROVE  Fresh(g)'
  <2>1. Tracked(g) /\ Fresh(g)
    BY <1>3 DEF Tracked, Cached
  <2>2. CASE g # f
    <3>1. disk'[g] = disk[g] /\ seen'[g] = seen[g] /\ lists'[g] = lists[g]
      BY <1>1, <2>2 DEF TypeOK
    <3>2. (g \in missed' <=> g \in missed) /\ (g \in notified' <=> g \in notified)
      BY <1>1, <2>2
    <3> QED
      BY <2>1, <3>1, <3>2, Frame
  <2>3. CASE g = f /\ readable(c)
    <3>1. disk'[f] = c /\ seen'[f] = load(c) /\ readable(disk'[f])
      BY <1>1, <2>3 DEF TypeOK, Becomes, load
    <3>2. f \in missed' \/ f \in notified'
      BY <2>3 DEF Becomes
    <3> QED
      BY <2>3, <3>1, <3>2 DEF Fresh, readable, load
  <2>4. CASE g = f /\ ~readable(c)
    <3>1. disk'[f] = c /\ seen'[f] = seen[f] /\ lists'[f] = lists[f] /\ ~readable(disk'[f])
      BY <1>1, <2>4 DEF TypeOK, Becomes
    <3>2. f \notin missed' => f \notin missed /\ ~(f \in notified /\ readable(disk[f]))
      BY <2>4 DEF Becomes
    <3>3. f \notin missed' => lists[f] = seen[f]
      BY <2>1, <2>4, <3>2 DEF Fresh
    <3> QED
      BY <2>4, <3>1, <3>3 DEF Fresh, readable
  <2> QED
    BY <2>2, <2>3, <2>4
<1> QED
  BY <1>2, <1>3

LEMMA InitFresh == Init => IInv
<1> SUFFICES ASSUME Init PROVE IInv
  OBVIOUS
<1> USE FileFacts
<1>1. disk \in [File -> Content]
  BY WrittenType DEF Init
<1>2. TypeOK
  BY <1>1, DirsAssumption, BoundsAssumption DEF Init, TypeOK
<1>3. ASSUME NEW f \in File, Tracked(f) PROVE Fresh(f)
  <2>1. f = User
    BY <1>3 DEF Init, Tracked, Cached
  <2>2. lists[User] = load(disk[User]) /\ seen = lists
    BY DEF Init
  <2> QED
    BY <2>1, <2>2 DEF Fresh
<1> QED
  BY <1>2, <1>3 DEF IInv

LEMMA LookupKeeps ==
  ASSUME IInv, NEW cwd \in Dir, NEW call \in Call,
         NoProject(cwd, call) \/ \E root \in Dir : Hit(cwd, root, call) \/ Miss(cwd, root, call)
  PROVE  IInv'
<1> USE DEF IInv
<1>1. asked' \in {<<>>} \cup (Dir \X Call)
  <2>1. Asks(cwd, call)
    BY DEF NoProject, Hit, Miss
  <2> QED
    BY <2>1 DEF Asks, TypeOK
<1>2. CASE NoProject(cwd, call)
  <2>1. TypeOK'
    BY <1>1, <1>2 DEF NoProject, TypeOK, history
  <2>2. ASSUME NEW f \in File, Tracked(f)' PROVE Fresh(f)'
    <3>1. Tracked(f)
      BY <1>2, <2>2 DEF NoProject, Tracked, Cached
    <3> QED
      BY <1>2, <3>1, Frame DEF NoProject, history
  <2> QED
    BY <2>1, <2>2
<1>3. ASSUME NEW root \in Dir, Hit(cwd, root, call) PROVE IInv'
  <2>1. PICK i \in DOMAIN lru :
          /\ lru[i] = root
          /\ lru' = [j \in DOMAIN lru |-> IF j = 1 THEN root
                                          ELSE IF j <= i THEN lru[j - 1] ELSE lru[j]]
    BY <1>3 DEF Hit
  <2>2. lru \in Seq(Dir) /\ DOMAIN lru = 1..Len(lru) /\ Len(lru) \in Nat
    BY DEF TypeOK
  <2>3. \A j \in DOMAIN lru : lru'[j] \in Dir /\ \E k \in DOMAIN lru : lru'[j] = lru[k]
    <3> TAKE j \in DOMAIN lru
    <3>1. CASE j = 1
      BY <2>1, <2>2, <3>1
    <3>2. CASE j # 1 /\ j <= i
      <4>1. j - 1 \in DOMAIN lru /\ lru'[j] = lru[j - 1]
        BY <2>1, <2>2, <3>2
      <4> QED
        BY <2>2, <4>1
    <3>3. CASE j # 1 /\ ~(j <= i)
      BY <2>1, <2>2, <3>3
    <3> QED
      BY <3>1, <3>2, <3>3
  <2>4. DOMAIN lru' = DOMAIN lru
    BY <2>1
  <2>5. lru' \in Seq(Dir)
    <3>1. lru' \in [1..Len(lru) -> Dir]
      BY <2>1, <2>2, <2>3, <2>4
    <3> QED
      BY <2>2, <3>1
  <2>6. TypeOK'
    BY <1>1, <1>3, <2>5 DEF Hit, TypeOK, history
  <2>7. ASSUME NEW f \in File, Tracked(f)' PROVE Fresh(f)'
    <3>1. Tracked(f)
      BY <2>3, <2>4, <2>7 DEF Tracked, Cached
    <3> QED
      BY <1>3, <3>1, Frame DEF Hit, history
  <2> QED
    BY <2>6, <2>7
<1>4. ASSUME NEW root \in Dir, Miss(cwd, root, call) PROVE IInv'
  <2> DEFINE rest == IF evicted = {} THEN lru ELSE Front(lru)
  <2>1. lru \in Seq(Dir) /\ Len(lru) \in Nat
    BY DEF TypeOK
  <2>2. rest \in Seq(Dir) /\ \A j \in DOMAIN rest : j \in DOMAIN lru /\ rest[j] = lru[j]
    <3>1. CASE evicted = {}
      BY <2>1, <3>1
    <3>2. CASE evicted # {}
      <4>1. Len(lru) >= 1 /\ rest = SubSeq(lru, 1, Len(lru) - 1)
        BY <2>1, <3>2, CapacityAssumption DEF evicted, Front
      <4> QED
        BY <2>1, <4>1
    <3> QED
      BY <3>1, <3>2
  <2>3. lru' = <<root>> \o rest
    BY <1>4 DEF Miss
  <2> HIDE DEF rest
  <2>4. /\ lru' \in Seq(Dir)
        /\ \A j \in DOMAIN lru' : lru'[j] = root \/ \E k \in DOMAIN lru : lru'[j] = lru[k]
    <3>1. lru' \in Seq(Dir) /\ Len(lru') = 1 + Len(rest)
      BY <2>2, <2>3
    <3>2. ASSUME NEW j \in DOMAIN lru' PROVE lru'[j] = root \/ \E k \in DOMAIN lru : lru'[j] = lru[k]
      <4>1. CASE j = 1
        BY <2>2, <2>3, <4>1
      <4>2. CASE j # 1
        <5>1. j - 1 \in DOMAIN rest /\ lru'[j] = rest[j - 1]
          BY <2>2, <2>3, <3>1, <4>2
        <5> QED
          BY <2>2, <5>1
      <4> QED
        BY <4>1, <4>2
    <3> QED
      BY <3>1, <3>2
  <2>5. FilesOf(root) \cap File \subseteq File /\ \A f \in File : f \in FilesOf(root) => dir(f) = root
    BY DEF FilesOf, dir
  <2>6. TypeOK'
    <3>2. left' \in [edits : Nat, always : Nat, evictions : Nat]
      <4>1. left.evictions > 0 \/ evicted = {}
        BY <1>4 DEF Miss
      <4>2. left \in [edits : Nat, always : Nat, evictions : Nat]
        BY DEF TypeOK
      <4>3. left' = left \/ (left.evictions > 0 /\ left' = [left EXCEPT !.evictions = @ - 1])
        BY <1>4, <4>1, <4>2 DEF Miss
      <4> QED
        BY <4>2, <4>3
    <3>3. DOMAIN lists' = File /\ DOMAIN seen' = File
      BY <1>4 DEF Miss
    <3>4. watcher' \in [File -> {"starting", "watching", "deaf"}]
      BY <1>4 DEF Miss, Of, TypeOK
    <3>5. notified' \subseteq File /\ missed' \subseteq File
      <4>1. User \notin FilesOf(root)
        BY DEF User, FilesOf
      <4>2. ASSUME root # Home PROVE FilesOf(root) \subseteq File
        BY <4>2 DEF FilesOf, File
      <4>3. root # Home
        BY <1>4, RootType, NoRootAssumption DEF Miss
      <4> QED
        BY <1>4, <4>2, <4>3 DEF Miss, TypeOK
    <3> QED
      BY <1>1, <1>4, <2>4, <3>2, <3>3, <3>4, <3>5 DEF Miss, TypeOK
  <2>7. ASSUME NEW f \in File, Tracked(f)' PROVE Fresh(f)'
    <3>1. CASE f \in FilesOf(root)
      <4>1. lists'[f] = load(disk[f]) /\ seen'[f] = load(disk[f]) /\ disk' = disk
        BY <1>4, <3>1 DEF Miss, Of
      <4>2. ~readable(disk[f]) => f \in missed'
        BY <1>4, <3>1 DEF Miss
      <4> QED
        BY <4>1, <4>2 DEF Fresh, readable, load, from_settings_json
    <3>2. CASE f \notin FilesOf(root)
      <4>1. dir(f) # root \/ f = User
        BY <3>2 DEF File, User, FilesOf, dir
      <4>2. Tracked(f)
        BY <2>4, <2>7, <4>1 DEF Tracked, Cached
      <4>3. lists'[f] = lists[f] /\ seen'[f] = seen[f] /\ disk'[f] = disk[f]
        BY <1>4, <3>2 DEF Miss, Of
      <4>4. (f \in missed' <=> f \in missed) /\ (f \in notified' <=> f \in notified)
        BY <1>4, <3>2 DEF Miss
      <4> QED
        BY <4>2, <4>3, <4>4, Frame
    <3> QED
      BY <3>1, <3>2
  <2> QED
    BY <2>6, <2>7
<1> QED
  BY <1>2, <1>3, <1>4

LEMMA WatcherKeeps ==
  ASSUME IInv, NEW f \in File, Watch(f)
  PROVE  IInv'
<1> USE DEF IInv
<1>1. CASE WatcherStarts(f)
  <2>1. TypeOK'
    BY <1>1 DEF WatcherStarts, TypeOK, history
  <2>2. ASSUME NEW g \in File, Tracked(g)' PROVE Fresh(g)'
    <3>1. Tracked(g)
      BY <1>1, <2>2 DEF WatcherStarts, Tracked, Cached
    <3> QED
      BY <1>1, <3>1, Frame DEF WatcherStarts, history
  <2> QED
    BY <2>1, <2>2
<1>2. CASE Reload(f)
  <2>1. lists' = lists \/ lists' = [lists EXCEPT ![f] = from_settings_json(disk[f])]
    BY <1>2 DEF Reload
  <2>2. TypeOK'
    BY <1>2, <2>1 DEF Reload, TypeOK
  <2>3. ASSUME NEW g \in File, Tracked(g)' PROVE Fresh(g)'
    <3>1. Tracked(g) /\ Fresh(g)
      BY <1>2, <2>3 DEF Reload, Tracked, Cached
    <3>2. CASE g # f
      <4>1. lists'[g] = lists[g] /\ seen'[g] = seen[g] /\ disk'[g] = disk[g]
        BY <1>2, <2>1, <3>2 DEF Reload, TypeOK
      <4>2. (g \in missed' <=> g \in missed) /\ (g \in notified' <=> g \in notified)
        BY <1>2, <3>2 DEF Reload
      <4> QED
        BY <3>1, <4>1, <4>2, Frame
    <3>3. CASE g = f /\ readable(disk[f])
      <4>1. lists'[f] = load(disk[f]) /\ disk' = disk /\ seen' = seen
        BY <1>2, <3>3 DEF Reload, load, TypeOK
      <4>2. seen[f] = load(disk[f])
        BY <3>1, <3>3 DEF Fresh
      <4> QED
        BY <3>3, <4>1, <4>2 DEF Fresh, readable, load, from_settings_json
    <3>4. CASE g = f /\ ~readable(disk[f])
      <4>1. UNCHANGED <<lists, disk, seen, missed>>
        BY <1>2, <3>4 DEF Reload
      <4> QED
        BY <3>1, <3>4, <4>1 DEF Fresh, readable, load, from_settings_json
    <3> QED
      BY <3>2, <3>3, <3>4
  <2> QED
    BY <2>2, <2>3
<1> QED
  BY <1>1, <1>2 DEF Watch

LEMMA WorldKeeps ==
  ASSUME IInv, World
  PROVE  IInv'
<1> USE DEF IInv
<1>1. ASSUME NEW b \in {"edits"}, spend(b) PROVE left' \in [edits : Nat, always : Nat, evictions : Nat]
  BY <1>1 DEF spend, TypeOK
<1>2. ASSUME NEW f \in File, Edit(f) PROVE IInv'
  <2>1. PICK c \in Content : Becomes(f, c, "modify")
    BY <1>2, WrittenType DEF Edit
  <2>2. UNCHANGED <<lru, lists, watcher, asked, clicked>>
    BY <1>2 DEF Edit
  <2>3. claude' \subseteq Dir
    BY <1>2, FileFacts DEF Edit, TypeOK
  <2>4. left' \in [edits : Nat, always : Nat, evictions : Nat]
    BY <1>1, <1>2 DEF Edit
  <2> QED
    BY <2>1, <2>2, <2>3, <2>4, BecomesFresh DEF TypeOK
<1>3. ASSUME NEW f \in File, Unlink(f) PROVE IInv'
  <2>1. Becomes(f, Absent, "remove") /\ UNCHANGED <<claude, lru, lists, watcher, asked, clicked>>
    BY <1>3 DEF Unlink
  <2>2. left' \in [edits : Nat, always : Nat, evictions : Nat]
    BY <1>1, <1>3 DEF Unlink
  <2> QED
    BY <2>1, <2>2, BecomesFresh, WrittenType DEF TypeOK
<1>4. ASSUME NEW d \in Dir, RemoveDir(d) PROVE IInv'
  <2> DEFINE gone == {f \in File : dir(f) = d}
             lost == {f \in gone : disk[f].kind # "absent"}
  <2>1. TypeOK'
    <3>1. left' \in [edits : Nat, always : Nat, evictions : Nat]
      BY <1>1, <1>4 DEF RemoveDir
    <3>2. disk' \in [File -> Content] /\ DOMAIN seen' = File /\ missed' \subseteq File
      BY <1>4, WrittenType DEF RemoveDir, TypeOK
    <3>3. watcher' \in [File -> {"starting", "watching", "deaf"}]
      BY <1>4 DEF RemoveDir, TypeOK
    <3> QED
      BY <1>4, <3>1, <3>2, <3>3 DEF RemoveDir, TypeOK
  <2>2. ASSUME NEW f \in File, Tracked(f)' PROVE Fresh(f)'
    <3>1. Tracked(f) /\ Fresh(f)
      BY <1>4, <2>2 DEF RemoveDir, Tracked, Cached
    <3>2. lists' = lists /\ notified' = notified /\ missed' = missed \cup lost
      BY <1>4 DEF RemoveDir
    <3>3. CASE f \in lost
      <4>1. disk'[f] = Absent /\ seen'[f] = load(Absent)
        BY <1>4, <3>3 DEF RemoveDir
      <4>2. f \in missed' /\ readable(Absent)
        BY <3>2, <3>3 DEF readable, Absent
      <4> QED
        BY <4>1, <4>2 DEF Fresh, readable, load, from_settings_json
    <3>4. CASE f \in gone \ lost
      <4>1. disk[f] = Absent
        BY <3>4 DEF TypeOK, Content, Absent, Broken
      <4>2. disk'[f] = Absent /\ seen'[f] = seen[f]
        BY <1>4, <3>4 DEF RemoveDir
      <4> QED
        BY <3>1, <3>2, <3>4, <4>1, <4>2, Frame
    <3>5. CASE f \notin gone
      <4>1. disk'[f] = disk[f] /\ seen'[f] = seen[f]
        BY <1>4, <3>5 DEF RemoveDir
      <4> QED
        BY <3>1, <3>2, <3>5, <4>1, Frame
    <3> QED
      BY <3>3, <3>4, <3>5
  <2> QED
    BY <2>1, <2>2
<1> QED
  BY <1>2, <1>3, <1>4 DEF World

LEMMA AlwaysKeeps ==
  ASSUME IInv, Always \/ NoAlways
  PROVE  IInv'
<1> USE DEF IInv
<1>1. CASE Always
  <2> DEFINE cwd == asked[1]
             call == asked[2]
             root == resolve_write_target(cwd)
             f == <<"local", root>>
             new == Adds(disk[f], derive_pattern(call)[1])
  <2>1. cwd \in Dir /\ call \in Call
    BY <1>1 DEF Always, TypeOK
  <2>2. root \in Dir /\ f \in File
    BY <2>1, RootType, FileFacts
  <2>3. derive_pattern(call) # <<>> /\ asked' = <<>> /\ claude' = claude \cup {root}
        /\ UNCHANGED <<lru, lists, watcher>>
    BY <1>1 DEF Always
  <2>4. left' \in [edits : Nat, always : Nat, evictions : Nat]
    BY <1>1 DEF Always, spend, TypeOK
  <2>5. clicked' \subseteq [cwd : Dir, root : Dir, call : Call]
    <3>1. Click(cwd, root, call) \in [cwd : Dir, root : Dir, call : Call]
      BY <2>1, <2>2 DEF Click
    <3>2. clicked' = clicked \/ clicked' = clicked \cup {Click(cwd, root, call)}
      BY <1>1 DEF Always
    <3> QED
      BY <3>1, <3>2 DEF TypeOK
  <2>6. \/ UNCHANGED <<disk, notified, seen, missed>>
        \/ readable(disk[f]) /\ Becomes(f, new, "create")
    BY <1>1 DEF Always
  <2> HIDE DEF cwd, call, root, f, new
  <2>7. CASE UNCHANGED <<disk, notified, seen, missed>>
    <3>1. TypeOK'
      BY <2>2, <2>3, <2>4, <2>5, <2>7 DEF TypeOK
    <3>2. ASSUME NEW g \in File, Tracked(g)' PROVE Fresh(g)'
      <4>1. Tracked(g)
        BY <2>3, <3>2 DEF Tracked, Cached
      <4> QED
        BY <2>3, <2>7, <4>1, Frame
    <3> QED
      BY <3>1, <3>2
  <2>8. CASE readable(disk[f]) /\ Becomes(f, new, "create")
    <3>1. disk[f] \in Content
      BY <2>2 DEF TypeOK
    <3>2. new \in Content
      BY <2>1, <2>3, <2>8, <3>1, AddsType DEF new
    <3> QED
      BY <2>2, <2>3, <2>4, <2>5, <2>8, <3>2, BecomesFresh DEF TypeOK
  <2> QED
    BY <2>6, <2>7, <2>8
<1>2. CASE NoAlways
  <2>1. TypeOK'
    BY <1>2 DEF NoAlways, TypeOK, history
  <2>2. ASSUME NEW f \in File, Tracked(f)' PROVE Fresh(f)'
    <3>1. Tracked(f)
      BY <1>2, <2>2 DEF NoAlways, Tracked, Cached
    <3> QED
      BY <1>2, <3>1, Frame DEF NoAlways, history
  <2> QED
    BY <2>1, <2>2
<1> QED
  BY <1>1, <1>2

LEMMA StepKeeps == IInv /\ [Next]_vars => IInv'
<1> SUFFICES ASSUME IInv, [Next]_vars PROVE IInv'
  OBVIOUS
<1>1. CASE Lookup
  BY <1>1, LookupKeeps DEF Lookup
<1>2. CASE \E f \in File : Watch(f)
  BY <1>2, WatcherKeeps
<1>3. CASE Always \/ NoAlways
  BY <1>3, AlwaysKeeps
<1>4. CASE World
  BY <1>4, WorldKeeps
<1>5. CASE UNCHANGED vars
  <2>1. TypeOK'
    BY <1>5 DEF IInv, TypeOK, vars, daemon, history
  <2>2. ASSUME NEW f \in File, Tracked(f)' PROVE Fresh(f)'
    <3>1. Tracked(f)
      BY <1>5, <2>2 DEF vars, daemon, Tracked, Cached
    <3> QED
      BY <1>5, <3>1, Frame DEF IInv, vars, daemon, history
  <2> QED
    BY <2>1, <2>2 DEF IInv
<1> QED
  BY <1>1, <1>2, <1>3, <1>4, <1>5 DEF Next

\* The inductive invariant: per file the daemon answers from, its lists are
\* those last read, a change waits for its watcher, or it went unheard.
THEOREM CacheInvariant == Spec => []IInv
  BY InitFresh, StepKeeps, PTL DEF Spec

\* Every variable keeps its type: roots are directories other than Home.
THEOREM TypeCorrect == Spec => []TypeOK
<1>1. IInv => TypeOK
  BY DEF IInv
<1> QED
  BY <1>1, CacheInvariant, PTL

\* What the daemon holds of a file is what the file last held readably, unless
\* its watcher has a change to handle or could not hear of one: a half written
\* file never loses a list, and no reload brings back an older one.
THEOREM HeldListsAreFresh == Spec => []CachedIsFresh
<1>1. IInv => CachedIsFresh
  BY DEF IInv, Fresh, CachedIsFresh
<1> QED
  BY <1>1, CacheInvariant, PTL
-----------------------------------------------------------------------------
(* The answers.                                                            *)

\* Every list comes from an array, and every Always had an entry to add.
ListsInv ==
    /\ \A f \in File : lists[f] \in Parsed /\ seen[f] \in Parsed
    /\ \A k \in clicked : derive_pattern(k.call) # <<>>

LEMMA ListsInit == ASSUME Init PROVE ListsInv
<1>1. disk \in [File -> Content]
  BY WrittenType DEF Init
<1>2. \A f \in File : lists[f] \in Parsed /\ seen = lists
  BY <1>1, FileFacts, NothingParsed DEF Init
<1> QED
  BY <1>2 DEF Init, ListsInv

LEMMA BecomesParsed ==
  ASSUME TypeOK, ListsInv, NEW f \in File, NEW c \in Content, NEW event, Becomes(f, c, event)
  PROVE  \A g \in File : seen'[g] \in Parsed
<1>1. seen' = seen \/ seen' = [seen EXCEPT ![f] = from_settings_json(c)]
  BY DEF Becomes
<1>2. from_settings_json(c) \in Parsed
  BY DEF Parsed
<1> QED
  BY <1>1, <1>2 DEF ListsInv, TypeOK

LEMMA ListsStep == IInv /\ ListsInv /\ [Next]_vars => ListsInv'
<1> SUFFICES ASSUME IInv, ListsInv, [Next]_vars PROVE ListsInv'
  OBVIOUS
<1> USE DEF IInv
<1>0. ASSUME NEW f \in File PROVE disk[f] \in Content /\ load(disk[f]) \in Parsed
  BY <1>0, NothingParsed DEF TypeOK
<1>1. ASSUME Lookup PROVE ListsInv'
  <2>1. PICK cwd \in Dir, call \in Call :
          NoProject(cwd, call) \/ \E root \in Dir : Hit(cwd, root, call) \/ Miss(cwd, root, call)
    BY <1>1 DEF Lookup
  <2>2. CASE UNCHANGED <<lists, seen, clicked>>
    BY <2>2 DEF ListsInv
  <2>3. ASSUME NEW root \in Dir, Miss(cwd, root, call) PROVE ListsInv'
    <3>1. ASSUME NEW f \in File PROVE lists'[f] \in Parsed /\ seen'[f] \in Parsed
      <4>1. /\ lists'[f] = load(disk[f]) \/ lists'[f] = lists[f]
            /\ seen'[f] = load(disk[f]) \/ seen'[f] = seen[f]
        BY <2>3 DEF Miss, Of
      <4> QED
        BY <1>0, <4>1 DEF ListsInv
    <3> QED
      BY <2>3, <3>1 DEF Miss, ListsInv
  <2> QED
    BY <2>1, <2>2, <2>3 DEF NoProject, Hit, history
<1>2. ASSUME NEW f \in File, Watch(f) PROVE ListsInv'
  <2>1. CASE WatcherStarts(f)
    BY <2>1 DEF WatcherStarts, history, ListsInv
  <2>2. CASE Reload(f)
    <3>1. lists' = lists \/ lists' = [lists EXCEPT ![f] = from_settings_json(disk[f])]
      BY <2>2 DEF Reload
    <3>2. from_settings_json(disk[f]) \in Parsed
      BY <1>0 DEF Parsed
    <3>3. \A g \in File : lists'[g] \in Parsed
      BY <3>1, <3>2 DEF ListsInv, TypeOK
    <3> QED
      BY <2>2, <3>3 DEF Reload, ListsInv
  <2> QED
    BY <1>2, <2>1, <2>2 DEF Watch
<1>3. ASSUME World PROVE ListsInv'
  <2>1. ASSUME NEW f \in File, Edit(f) PROVE ListsInv'
    <3>1. PICK c \in Content : Becomes(f, c, "modify")
      BY <2>1, WrittenType DEF Edit
    <3> QED
      BY <2>1, <3>1, BecomesParsed DEF Edit, ListsInv
  <2>2. ASSUME NEW f \in File, Unlink(f) PROVE ListsInv'
    <3>1. Becomes(f, Absent, "remove") /\ Absent \in Content
      BY <2>2, WrittenType DEF Unlink
    <3> QED
      BY <2>2, <3>1, BecomesParsed DEF Unlink, ListsInv
  <2>3. ASSUME NEW d \in Dir, RemoveDir(d) PROVE ListsInv'
    <3>1. \A f \in File : seen'[f] = load(Absent) \/ seen'[f] = seen[f]
      BY <2>3 DEF RemoveDir
    <3>2. \A f \in File : seen'[f] \in Parsed
      BY <3>1, NothingParsed, WrittenType DEF ListsInv
    <3> QED
      BY <2>3, <3>2 DEF RemoveDir, ListsInv
  <2> QED
    BY <1>3, <2>1, <2>2, <2>3 DEF World
<1>4. ASSUME Always PROVE ListsInv'
  <2>1. PICK cwd, call : cwd = asked[1] /\ call = asked[2]
    OBVIOUS
  <2>2. cwd \in Dir /\ call \in Call /\ derive_pattern(call) # <<>>
    BY <1>4, <2>1 DEF Always, TypeOK
  <2>3. PICK root \in Dir : root = resolve_write_target(cwd)
    BY <2>2, RootType
  <2>4. PICK f \in File : f = <<"local", root>>
    BY FileFacts
  <2>5. /\ UNCHANGED lists
        /\ clicked' = clicked \/ clicked' = clicked \cup {Click(cwd, root, call)}
        /\ \/ UNCHANGED seen
           \/ readable(disk[f]) /\ Becomes(f, Adds(disk[f], derive_pattern(call)[1]), "create")
    BY <1>4, <2>1, <2>3, <2>4 DEF Always
  <2>6. Click(cwd, root, call).call = call
    BY DEF Click
  <2>7. \A k \in clicked' : derive_pattern(k.call) # <<>>
    BY <2>2, <2>5, <2>6 DEF ListsInv
  <2>8. \A g \in File : seen'[g] \in Parsed
    <3>1. CASE UNCHANGED seen
      BY <3>1 DEF ListsInv
    <3>2. CASE readable(disk[f]) /\ Becomes(f, Adds(disk[f], derive_pattern(call)[1]), "create")
      BY <1>0, <2>2, <3>2, AddsType, BecomesParsed
    <3> QED
      BY <2>5, <3>1, <3>2
  <2> QED
    BY <2>5, <2>7, <2>8 DEF ListsInv
<1>5. CASE NoAlways \/ UNCHANGED vars
  BY <1>5 DEF NoAlways, vars, daemon, history, ListsInv
<1> QED
  BY <1>1, <1>2, <1>3, <1>4, <1>5 DEF Next

LEMMA ListsInvariant == Spec => [](IInv /\ ListsInv)
<1>1. Init => ListsInv
  BY ListsInit
<1> QED
  BY <1>1, CacheInvariant, ListsStep, PTL DEF Spec

\* A lookup reads what the files last held, once nothing is on its way.
LEMMA HeldIsNow ==
  ASSUME IInv, ListsInv, NEW cwd \in Dir, Settled(cwd), NEW f \in Sources(cwd)
  PROVE  /\ f \in File /\ held(f) = Now(f) /\ Now(f) \in Parsed
         /\ f = User => lists[f] = Now(f)
<1>1. f \in File /\ disk[f] \in Content
  BY DEF Sources, IInv, TypeOK
<1>2. CASE Tracked(f)
  <2>1. lists[f] = seen[f]
    BY <1>1, <1>2 DEF Settled, IInv, Fresh
  <2> QED
    BY <1>1, <1>2, <2>1 DEF held, Now, ListsInv
<1>3. CASE ~Tracked(f)
  BY <1>1, <1>3, NothingParsed DEF held, Now, Tracked
<1> QED
  BY <1>1, <1>2, <1>3

LEMMA SourcesAre ==
  ASSUME NEW cwd \in Dir
  PROVE  IF find_project_root(cwd) = NoRoot THEN Sources(cwd) = {User}
         ELSE Sources(cwd) = {User, <<"project", find_project_root(cwd)>>,
                                    <<"local", find_project_root(cwd)>>}
<1>1. PICK root \in (Dir \ {Home}) \cup {NoRoot} : root = find_project_root(cwd)
  BY RootType
<1>2. CASE root = NoRoot
  <2>1. \A f \in File : dir(f) # root
    BY <1>2, FileFacts, NoRootAssumption
  <2> QED
    BY <1>1, <1>2, <2>1, FileFacts DEF Sources
<1>3. CASE root # NoRoot
  <2>1. root \in Dir \ {Home}
    BY <1>1, <1>3
  <2>2. <<"project", root>> \in File /\ <<"local", root>> \in File
        /\ dir(<<"project", root>>) = root /\ dir(<<"local", root>>) = root
    BY <2>1 DEF File, dir
  <2>3. \A f \in File : f = User \/ f = <<"project", dir(f)>> \/ f = <<"local", dir(f)>>
    BY DEF File, dir
  <2> QED
    BY <1>1, <1>3, <2>2, <2>3, FileFacts DEF Sources
<1> QED
  BY <1>1, <1>2, <1>3

LEMMA ResultsAre ==
  ASSUME NEW cwd, NEW side, NEW call, NEW m
  PROVE  m \in Results(Said(cwd, side), call) <=>
           \E f \in Sources(cwd) : Says(Now(f)[side], call, m)
<1>1. \A f : Says(Now(f)[side], call, m) <=> \E p \in Range(Now(f)[side]) : m = matches(p, call)
  BY DEF Range, Says
<1> QED
  BY <1>1 DEF Results, Said

\* The answer of evaluate is the reference's on what the files say.
LEMMA AnswerIs ==
  ASSUME IInv, ListsInv, NEW cwd \in Dir, NEW call, Settled(cwd)
  PROVE  evaluate(call, cascade_for(cwd)).is =
           Reference(call, Results(Said(cwd, "deny"), call), Results(Said(cwd, "allow"), call))
<1>1. PICK root, list : root = find_project_root(cwd) /\ list = cascade_for(cwd)
  OBVIOUS
<1>2. PICK denied, allowed : denied = Results(Said(cwd, "deny"), call) /\ allowed = Results(Said(cwd, "allow"), call)
  OBVIOUS
<1>3. /\ list.allow \in Seq(Pattern) /\ list.deny \in Seq(Pattern)
      /\ \A m : /\ m \in denied <=> Says(list.deny, call, m)
                /\ m \in allowed <=> Says(list.allow, call, m)
  <2>1. CASE root = NoRoot
    <3>1. Sources(cwd) = {User} /\ list = lists[User]
      BY <1>1, <2>1, SourcesAre DEF cascade_for
    <3>2. list = Now(User) /\ list \in Parsed
      BY <3>1, HeldIsNow
    <3>3. list.allow \in Seq(Pattern) /\ list.deny \in Seq(Pattern)
      BY <3>2, ParsedLists
    <3> QED
      BY <1>2, <3>1, <3>2, <3>3, ResultsAre
  <2>2. CASE root # NoRoot
    <3>1. PICK loc, proj : loc = <<"local", root>> /\ proj = <<"project", root>>
      OBVIOUS
    <3>2. Sources(cwd) = {User, proj, loc} /\ list = cascade(held(loc), held(proj), lists[User])
      BY <1>1, <2>2, <3>1, SourcesAre DEF cascade_for
    <3>3. PICK a, b, c : a = Now(loc) /\ b = Now(proj) /\ c = Now(User)
      OBVIOUS
    <3>4. a \in Parsed /\ b \in Parsed /\ c \in Parsed /\ list = cascade(a, b, c)
      BY <3>2, <3>3, HeldIsNow
    <3>5. /\ list.allow \in Seq(Pattern) /\ list.deny \in Seq(Pattern)
          /\ \A m : /\ Says(list.allow, call, m) <=>
                         Says(a.allow, call, m) \/ Says(b.allow, call, m) \/ Says(c.allow, call, m)
                    /\ Says(list.deny, call, m) <=>
                         Says(a.deny, call, m) \/ Says(b.deny, call, m) \/ Says(c.deny, call, m)
      BY <3>4, CascadeSays
    <3>6. ASSUME NEW m, NEW side
          PROVE  m \in Results(Said(cwd, side), call) <=>
                   Says(a[side], call, m) \/ Says(b[side], call, m) \/ Says(c[side], call, m)
      BY <3>2, <3>3, ResultsAre
    <3> QED
      BY <1>2, <3>5, <3>6
  <2> QED
    BY <2>1, <2>2
<1>4. evaluate(call, list).is = Reference(call, denied, allowed)
  BY <1>3, EvaluateIs
<1> QED
  BY <1>1, <1>2, <1>4

\* Once nothing is on its way, an answer does not depend on the order of files
\* and entries: the walks through the lists of the cascade come to what the
\* entries of all files together decide (evaluate, cascade, project.rs).
THEOREM AnswersFollow == Spec => []AnswersFollowTheFiles
<1>1. IInv /\ ListsInv => AnswersFollowTheFiles
  BY AnswerIs DEF AnswersFollowTheFiles
<1> QED
  BY <1>1, ListsInvariant, PTL

-----------------------------------------------------------------------------
(* Entries that read back.                                                 *)

\* Without the signs of a glob every character is read as text, ...
LEMMA ReadAsText ==
  ASSUME NEW T, NEW glob \in Seq(T), \A c \in GlobSign : At(glob, c) = {}
  PROVE  \A i \in 0..Len(glob) : Reading(glob)[i] = "text"
<1>1. PICK n \in Nat : n = Len(glob)
  OBVIOUS
<1> DEFINE D == 0..n
           Body(f, i) ==
             IF i = 0 THEN "text"
             ELSE LET before == f[i - 1]  c == glob[i] IN
                  CASE before = "text" /\ c = "\\" -> "escaped"
                    [] before = "text" /\ c = "["  -> "class"
                    [] before = "class" /\ c \in {"!", "^"} -> "negated"
                    [] \/ before = "escaped" \/ (before = "member" /\ c = "]")
                       \/ (before = "text" /\ c \notin {"\\", "["}) -> "text"
                    [] OTHER -> "member"
           after == CHOOSE f : f = [i \in D |-> Body(f, i)]
<1>2. Reading(glob) = after
  BY <1>1 DEF Reading
<1>3. ASSUME NEW f, NEW i \in D, i # 0 => f[i - 1] = "text" PROVE Body(f, i) = "text"
  <2>1. CASE i = 0
    BY <2>1
  <2>2. CASE i # 0
    <3>1. glob[i] \notin {"\\", "["}
      <4>1. i \in DOMAIN glob
        BY <1>1, <2>2
      <4>2. glob[i] \notin GlobSign
        BY <4>1 DEF At
      <4> QED
        BY <4>2 DEF GlobSign
    <3>2. f[i - 1] = "text"
      BY <1>3, <2>2
    <3> QED
      BY <2>2, <3>1, <3>2
  <2> QED
    BY <2>1, <2>2
<1> HIDE DEF Body, after
<1>4. \E f : f = [i \in D |-> Body(f, i)]
  <2>1. PICK f : f = [i \in D |-> "text"]
    OBVIOUS
  <2>2. ASSUME NEW i \in D PROVE f[i] = Body(f, i)
    <3>1. i # 0 => f[i - 1] = "text"
      BY <1>1, <2>1
    <3> QED
      BY <1>3, <2>1, <3>1
  <2>3. f = [i \in D |-> Body(f, i)]
    BY <2>1, <2>2
  <2> QED
    BY <2>3
<1>5. after = [i \in D |-> Body(after, i)]
  BY <1>4 DEF after
<1> DEFINE Good == {k \in Nat : k \in D => after[k] = "text"}
<1>6. 0 \in Good
  <2>1. 0 \in D => Body(after, 0) = "text"
    BY <1>3
  <2> QED
    BY <1>5, <2>1
<1>7. ASSUME NEW k \in Nat, k \in Good PROVE k + 1 \in Good
  <2>1. k + 1 \in D => k \in D /\ (k + 1) - 1 = k /\ k + 1 # 0
    BY <1>1
  <2>2. k + 1 \in D => Body(after, k + 1) = "text"
    BY <1>3, <1>7, <2>1
  <2> QED
    BY <1>5, <2>2
<1>8. Nat \subseteq Good
  <2> HIDE DEF Good
  <2> QED
    BY <1>6, <1>7, Induction
<1> QED
  BY <1>1, <1>2, <1>8

\* ... none is the sign of anything, and the glob is valid ...
LEMMA NoSigns ==
  ASSUME NEW T, NEW args \in Seq(T), \A c \in GlobSign : At(args, c) = {}
  PROVE  /\ \A i \in DOMAIN args : args[i] \notin GlobSign
         /\ \A i \in 0..Len(args) : depth(Glob(args), i) = 0
         /\ ValidGlob(args)
<1>1. \A i \in DOMAIN args : args[i] \notin GlobSign
  BY DEF At
<1>2. PICK glob : glob = Glob(args)
  OBVIOUS
<1>3. glob.text = args /\ glob.reading = Reading(args)
  BY <1>2 DEF Glob
<1>4. ASSUME NEW i \in 0..Len(args) PROVE depth(glob, i) = 0
  <2>1. \A k \in 1..i : k \in DOMAIN args
    OBVIOUS
  <2>2. \A k \in 1..i : ~Sign(glob, k, "{") /\ ~Sign(glob, k, "}")
    BY <1>1, <1>3, <2>1 DEF Sign, GlobSign
  <2>3. {k \in 1..i : Sign(glob, k, "{")} = {} /\ {k \in 1..i : Sign(glob, k, "}")} = {}
    BY <2>2
  <2>4. Cardinality({}) = 0
    BY FS_EmptySet
  <2>5. depth(glob, i) = Cardinality({k \in 1..i : Sign(glob, k, "{")})
                         - Cardinality({k \in 1..i : Sign(glob, k, "}")})
    BY DEF depth
  <2>6. depth(glob, i) = Cardinality({}) - Cardinality({})
    BY <2>3, <2>5
  <2> QED
    BY <2>4, <2>6
<1>5. Len(args) \in 0..Len(args) /\ \A i \in DOMAIN args : i \in 0..Len(args)
  OBVIOUS
<1>6. Reading(args)[Len(args)] = "text"
  BY <1>5, ReadAsText
<1>7. Closed(glob, Len(args))
  <2>1. \A i \in 1..Len(args) : depth(glob, i) = 0 /\ 0 >= 0
    BY <1>4
  <2> QED
    BY <1>3, <1>4, <1>5, <1>6, <2>1 DEF Closed
<1> QED
  BY <1>1, <1>2, <1>4, <1>7 DEF ValidGlob

\* ... and matches itself alone.
LEMMA LiteralMatch ==
  ASSUME NEW T, NEW args \in Seq(T), NEW path \in Seq(T),
         \A c \in GlobSign : At(args, c) = {}
  PROVE  is_match(args, path) <=> args = path
<1>1. PICK g \in Nat, n \in Nat : g = Len(args) /\ n = Len(path)
  OBVIOUS
<1>2. PICK glob : glob = Glob(args) /\ glob.text = args
  <2>1. Glob(args).text = args
    BY DEF Glob
  <2> QED
    BY <2>1
<1> DEFINE D == (1..g + 1) \X (1..n + 1)
           Entry(f, i, j) ==
             IF i > g THEN j > n
             ELSE CASE Sign(glob, i, "*") /\ Directories(glob, i) ->
                         f[<<i + 3, j>>] \/ \E k \in j..n : path[k] = "/" /\ f[<<i + 3, k + 1>>]
                    [] Sign(glob, i, "*") /\ ~Directories(glob, i) ->
                         f[<<i + 1, j>>] \/ (j <= n /\ f[<<i, j + 1>>])
                    [] Sign(glob, i, "?") -> j <= n /\ f[<<i + 1, j + 1>>]
                    [] Sign(glob, i, "[") -> j <= n /\ InClass(glob, i, path[j])
                                             /\ f[<<ClassEnd(glob, i) + 1, j + 1>>]
                    [] Branch(glob, i) \/ Sign(glob, i, "\\") ->
                         \E k \in Moves(glob, i) : f[<<k, j>>]
                    [] OTHER -> j <= n /\ path[j] = glob.text[i] /\ f[<<i + 1, j + 1>>]
           Body(f, at) == Entry(f, at[1], at[2])
           m == CHOOSE f : f = [at \in D |-> Body(f, at)]
           \* From i and j on, they are the same.
           Rest1(i, j) == n - j = g - i /\ \A k \in 0..g - i : path[j + k] = args[i + k]
<1>3. is_match(args, path) = m[<<1, 1>>]
  BY <1>1, <1>2 DEF is_match, Match
<1>4. ASSUME NEW f, NEW i \in 1..g + 1, NEW j \in 1..n + 1
      PROVE  /\ i > g => Body(f, <<i, j>>) = (j > n)
             /\ i <= g => Body(f, <<i, j>>) = (j <= n /\ path[j] = args[i] /\ f[<<i + 1, j + 1>>])
  <2>1. ASSUME i <= g PROVE ~Comma(glob, i) /\ \A c \in GlobSign : ~Sign(glob, i, c)
    <3>1. i \in DOMAIN args /\ i \in 0..Len(args)
      BY <1>1, <2>1
    <3>2. args[i] \notin GlobSign /\ depth(glob, i) = 0
      BY <1>1, <1>2, <3>1, NoSigns
    <3> QED
      BY <1>2, <3>2 DEF Comma, Sign
  <2>2. <<i, j>>[1] = i /\ <<i, j>>[2] = j
    OBVIOUS
  <2>3. CASE i > g
    BY <2>2, <2>3
  <2>4. CASE i <= g
    <3>1. /\ ~Sign(glob, i, "*") /\ ~Sign(glob, i, "?") /\ ~Sign(glob, i, "[")
          /\ ~Branch(glob, i) /\ ~Sign(glob, i, "\\")
      BY <2>1, <2>4 DEF GlobSign, Branch
    <3>2. ~(i > g)
      BY <2>4
    <3>3. Entry(f, i, j) = (j <= n /\ path[j] = args[i] /\ f[<<i + 1, j + 1>>])
      BY <1>2, <3>1, <3>2, Zenon
    <3> HIDE DEF Entry
    <3>4. Body(f, <<i, j>>) = Entry(f, i, j)
      OBVIOUS
    <3> QED
      BY <2>4, <3>3, <3>4
  <2> QED
    BY <2>3, <2>4
<1> HIDE DEF Body, m
<1>5. ASSUME NEW i \in 1..g, NEW j \in 1..n + 1
      PROVE  Rest1(i, j) = (j <= n /\ path[j] = args[i] /\ Rest1(i + 1, j + 1))
  <2>1. ASSUME Rest1(i, j) PROVE j <= n /\ path[j] = args[i] /\ Rest1(i + 1, j + 1)
    <3>1. j <= n /\ n - (j + 1) = g - (i + 1) /\ path[j] = args[i]
      <4>1. 0 \in 0..g - i /\ j + 0 = j /\ i + 0 = i /\ n - j = g - i
        BY <1>1, <2>1
      <4>2. path[j + 0] = args[i + 0]
        BY <2>1, <4>1
      <4> QED
        BY <1>1, <4>1, <4>2
    <3>2. ASSUME NEW k \in 0..g - (i + 1) PROVE path[(j + 1) + k] = args[(i + 1) + k]
      <4>1. k + 1 \in 0..g - i /\ (j + 1) + k = j + (k + 1) /\ (i + 1) + k = i + (k + 1)
        OBVIOUS
      <4> QED
        BY <2>1, <4>1
    <3> QED
      BY <3>1, <3>2
  <2>2. ASSUME j <= n, path[j] = args[i], Rest1(i + 1, j + 1) PROVE Rest1(i, j)
    <3>1. n - j = g - i
      BY <2>2
    <3>2. ASSUME NEW k \in 0..g - i PROVE path[j + k] = args[i + k]
      <4>1. CASE k = 0
        BY <2>2, <4>1
      <4>2. CASE k # 0
        <5>1. k - 1 \in 0..g - (i + 1) /\ (j + 1) + (k - 1) = j + k /\ (i + 1) + (k - 1) = i + k
          BY <4>2
        <5> QED
          BY <2>2, <5>1
      <4> QED
        BY <4>1, <4>2
    <3> QED
      BY <3>1, <3>2
  <2> QED
    BY <2>1, <2>2
<1>6. ASSUME NEW j \in 1..n + 1 PROVE Rest1(g + 1, j) = (j > n)
  BY <1>1
<1> HIDE DEF Rest1
<1>7. \E f : f = [at \in D |-> Body(f, at)]
  <2>1. PICK f : f = [at \in D |-> Rest1(at[1], at[2])]
    OBVIOUS
  <2>2. ASSUME NEW at \in D PROVE f[at] = Body(f, at)
    <3>1. PICK i \in 1..g + 1, j \in 1..n + 1 : at = <<i, j>>
      OBVIOUS
    <3>2. f[at] = Rest1(i, j)
      BY <2>1, <3>1
    <3>3. CASE i > g
      <4>1. i = g + 1
        BY <3>3
      <4>2. Rest1(i, j) = (j > n)
        BY <1>6, <4>1
      <4>3. Body(f, at) = (j > n)
        BY <1>4, <3>1, <3>3
      <4> QED
        BY <3>2, <4>2, <4>3
    <3>4. CASE i <= g
      <4>1. j <= n => f[<<i + 1, j + 1>>] = Rest1(i + 1, j + 1)
        BY <1>1, <2>1, <3>4
      <4>2. Body(f, at) = (j <= n /\ path[j] = args[i] /\ f[<<i + 1, j + 1>>])
        BY <1>4, <3>1, <3>4
      <4>3. Rest1(i, j) = (j <= n /\ path[j] = args[i] /\ Rest1(i + 1, j + 1))
        BY <1>1, <1>5, <3>4
      <4>4. CASE j <= n
        BY <3>2, <4>1, <4>2, <4>3, <4>4
      <4>5. CASE ~(j <= n)
        BY <3>2, <4>2, <4>3, <4>5
      <4> QED
        BY <4>4, <4>5
    <3> QED
      BY <1>1, <3>3, <3>4
  <2>3. f = [at \in D |-> Body(f, at)]
    BY <2>1, <2>2
  <2> QED
    BY <2>3
<1>8. m = [at \in D |-> Body(m, at)]
  BY <1>7 DEF m
<1> DEFINE Agree(i) == \A j \in 1..n + 1 : m[<<i, j>>] <=> Rest1(i, j)
           Good == {k \in Nat : k <= g => Agree(g + 1 - k)}
<1>9. 0 \in Good
  <2>1. ASSUME NEW j \in 1..n + 1 PROVE m[<<g + 1, j>>] <=> Rest1(g + 1, j)
    <3>1. m[<<g + 1, j>>] = Body(m, <<g + 1, j>>)
      BY <1>1, <1>8
    <3>2. Body(m, <<g + 1, j>>) = (j > n)
      <4>1. g + 1 \in 1..g + 1 /\ g + 1 > g
        BY <1>1
      <4> QED
        BY <1>4, <4>1
    <3> QED
      BY <1>6, <3>1, <3>2
  <2>2. Agree(g + 1)
    BY <2>1
  <2> HIDE DEF Agree
  <2> QED
    BY <1>1, <2>2
<1>10. ASSUME NEW k \in Nat, k \in Good PROVE k + 1 \in Good
  <2> SUFFICES ASSUME k + 1 <= g, NEW j \in 1..n + 1
               PROVE  m[<<g - k, j>>] <=> Rest1(g - k, j)
    <3>1. g + 1 - (k + 1) = g - k
      BY <1>1
    <3>2. k + 1 <= g => Agree(g - k)
      OBVIOUS
    <3> HIDE DEF Agree
    <3> QED
      BY <3>1, <3>2
  <2>0. g - k \in 1..g /\ (g - k) + 1 = g + 1 - k
    OBVIOUS
  <2>1. PICK i \in 1..g : i = g - k /\ i + 1 = g + 1 - k
    BY <2>0
  <2>2. j <= n => (m[<<i + 1, j + 1>>] <=> Rest1(i + 1, j + 1))
    BY <1>1, <1>10, <2>1
  <2>3. m[<<i, j>>] <=> j <= n /\ path[j] = args[i] /\ m[<<i + 1, j + 1>>]
    <3>1. i \in 1..g + 1 /\ i <= g
      BY <1>1
    <3>2. m[<<i, j>>] = Body(m, <<i, j>>)
      BY <1>8, <3>1
    <3>3. Body(m, <<i, j>>) = (j <= n /\ path[j] = args[i] /\ m[<<i + 1, j + 1>>])
      BY <1>4, <3>1
    <3> QED
      BY <3>2, <3>3
  <2>4. Rest1(i, j) <=> j <= n /\ path[j] = args[i] /\ Rest1(i + 1, j + 1)
    BY <1>5
  <2> QED
    BY <2>1, <2>2, <2>3, <2>4
<1>11. Nat \subseteq Good
  <2> HIDE DEF Good
  <2> QED
    BY <1>9, <1>10, Induction
<1>12. m[<<1, 1>>] <=> Rest1(1, 1)
  <2>1. g \in Good /\ 1 \in 1..n + 1 /\ g + 1 - g = 1
    BY <1>1, <1>11
  <2> QED
    BY <2>1
<1>13. Rest1(1, 1) <=> args = path
  <2>1. ASSUME Rest1(1, 1) PROVE args = path
    <3>1. g = n
      BY <1>1, <2>1 DEF Rest1
    <3>2. ASSUME NEW i \in 1..g PROVE path[i] = args[i]
      <4>1. i - 1 \in 0..g - 1 /\ 1 + (i - 1) = i
        BY <1>1
      <4> QED
        BY <2>1, <4>1 DEF Rest1
    <3>3. args = [i \in 1..g |-> args[i]]
      BY <1>1
    <3>4. path = [i \in 1..n |-> path[i]]
      BY <1>1
    <3> QED
      BY <3>1, <3>2, <3>3, <3>4
  <2>2. ASSUME args = path PROVE Rest1(1, 1)
    BY <1>1, <2>2 DEF Rest1
  <2> QED
    BY <2>1, <2>2
<1> QED
  BY <1>3, <1>12, <1>13

LEMMA MinIs ==
  ASSUME NEW S, NEW x, S \subseteq Int, x \in S, \A y \in S : x =< y
  PROVE  Min(S) = x
<1>1. Min(S) \in S /\ Min(S) \in Int /\ \A y \in S : Min(S) =< y
  BY DEF Min
<1> QED
  BY <1>1

LEMMA MaxOf ==
  ASSUME NEW S, NEW x, S \subseteq Int, x \in S, \A y \in S : x >= y
  PROVE  Max(S) = x
<1>1. Max(S) \in S /\ Max(S) \in Int /\ \A y \in S : Max(S) >= y
  BY DEF Max
<1> QED
  BY <1>1

\* The provers do not take the blank itself.
Blank == " "
LEMMA Blanks ==
  /\ \A s : Solid(s) = {i \in DOMAIN s : s[i] # Blank}
  /\ "(" # Blank /\ ")" # Blank
<1>1. \A s : Solid(s) = {i \in DOMAIN s : s[i] # Blank}
  BY DEF Solid, Blank
<1>2. "(" # Blank
  BY DEF Blank
<1>3. ")" # Blank
  BY DEF Blank
<1> QED
  BY <1>1, <1>2, <1>3

LEMMA Untrimmed ==
  ASSUME NEW T, NEW s \in Seq(T), s # <<>>, s[1] # Blank, s[Len(s)] # Blank
  PROVE  trim(s) = s
<1>1. PICK n \in Nat : n = Len(s) /\ n >= 1 /\ DOMAIN s = 1..n
  OBVIOUS
<1>2. Solid(s) \subseteq Int /\ 1 \in Solid(s) /\ n \in Solid(s)
      /\ \A y \in Solid(s) : 1 =< y /\ n >= y
  BY <1>1, Blanks
<1>3. Min(Solid(s)) = 1 /\ Max(Solid(s)) = n
  BY <1>2, MinIs, MaxOf
<1>4. SubSeq(s, 1, n) = s
  BY <1>1
<1> QED
  BY <1>2, <1>3, <1>4 DEF trim

\* An entry tool(argument), token by token.
LEMMA Joined ==
  ASSUME NEW name \in Token, NEW value \in Seq(Token), NEW n \in Nat, n = Len(value),
         NEW raw, raw = <<name>> \o <<"(">> \o value \o <<")">>
  PROVE  /\ raw \in Seq(Token) /\ Len(raw) = n + 3
         /\ raw[1] = name /\ raw[2] = "(" /\ raw[n + 3] = ")"
         /\ \A i \in 1..n : raw[i + 2] = value[i]
<1>1. "(" \in Token /\ ")" \in Token
  BY TextAssumption
<1>2. PICK a : a = <<name>> \o <<"(">>
  OBVIOUS
<1>3. a \in Seq(Token) /\ Len(a) = 2 /\ a[1] = name /\ a[2] = "("
  BY <1>1, <1>2
<1>4. PICK b : b = a \o value
  OBVIOUS
<1>5. b \in Seq(Token) /\ Len(b) = n + 2 /\ b[1] = name /\ b[2] = "(" /\ \A i \in 1..n : b[2 + i] = value[i]
  <2>1. /\ b \in Seq(Token) /\ Len(b) = 2 + n
        /\ \A i \in 1..2 + n : b[i] = IF i <= 2 THEN a[i] ELSE value[i - 2]
    <3>1. a \in Seq(Token) /\ value \in Seq(Token) /\ Len(a) = 2 /\ Len(value) = n
      BY <1>1, <1>3
    <3>2. /\ a \o value \in Seq(Token) /\ Len(a \o value) = Len(a) + Len(value)
          /\ \A i \in 1..Len(a) + Len(value) :
               (a \o value)[i] = IF i <= Len(a) THEN a[i] ELSE value[i - Len(a)]
      BY <3>1, ConcatProperties, Zenon
    <3> QED
      BY <1>4, <3>1, <3>2
  <2>2. \A i \in 1..n : b[2 + i] = value[i]
    <3>1. ASSUME NEW i \in 1..n PROVE 2 + i \in 1..2 + n /\ ~(2 + i <= 2) /\ (2 + i) - 2 = i
      OBVIOUS
    <3> QED
      BY <2>1, <3>1
  <2>3. b[1] = a[1] /\ b[2] = a[2]
    BY <2>1
  <2> QED
    BY <1>3, <2>1, <2>2, <2>3
<1>6. raw = b \o <<")">>
  BY <1>2, <1>4
<1>7. <<")">> \in Seq(Token) /\ Len(<<")">>) = 1 /\ <<")">>[1] = ")"
  BY <1>1
<1>8. /\ raw \in Seq(Token) /\ Len(raw) = n + 3 /\ raw[n + 3] = ")"
      /\ \A i \in 1..n + 2 : raw[i] = b[i]
  <2>1. raw \in Seq(Token) /\ Len(raw) = (n + 2) + 1
        /\ \A i \in 1..(n + 2) + 1 : raw[i] = IF i <= n + 2 THEN b[i] ELSE <<")">>[i - (n + 2)]
    BY <1>5, <1>6, <1>7, ConcatProperties
  <2>2. (n + 2) + 1 = n + 3 /\ (n + 3) - (n + 2) = 1 /\ n + 3 \in 1..(n + 2) + 1 /\ ~(n + 3 <= n + 2)
    OBVIOUS
  <2>3. raw[n + 3] = ")"
    BY <1>7, <2>1, <2>2
  <2>4. \A i \in 1..n + 2 : raw[i] = b[i]
    BY <2>1
  <2> QED
    BY <2>1, <2>2, <2>3, <2>4
<1>9. \A i \in 1..n : raw[i + 2] = value[i]
  BY <1>5, <1>8
<1> QED
  BY <1>5, <1>8, <1>9

\* What an entry tool(argument) is taken apart into.
LEMMA TakenApart ==
  ASSUME NEW name \in Token, name # Blank, name # "(", NEW value \in Seq(Token), trim(value) = value,
         NEW raw, raw = <<name>> \o <<"(">> \o value \o <<")">>
  PROVE  parse(raw) = parse_args(<<name>>, value, raw)
<1>1. PICK n \in Nat : n = Len(value)
  OBVIOUS
<1>2. /\ raw \in Seq(Token) /\ Len(raw) = n + 3 /\ raw[1] = name /\ raw[2] = "(" /\ raw[n + 3] = ")"
      /\ \A i \in 1..n : raw[i + 2] = value[i]
  BY <1>1, Joined
<1>3. trim(raw) = raw /\ raw # <<>>
  <2>1. raw # <<>> /\ raw[1] # Blank /\ raw[Len(raw)] # Blank
    BY <1>2, Blanks
  <2> QED
    BY <1>2, <2>1, Untrimmed
<1>4. DOMAIN raw = 1..n + 3
  BY <1>2
<1>5. At(raw, "(") # {} /\ Min(At(raw, "(")) = 2
  <2>1. At(raw, "(") \subseteq Int /\ 2 \in At(raw, "(") /\ \A y \in At(raw, "(") : 2 =< y
    BY <1>2, <1>4 DEF At
  <2> QED
    BY <2>1, MinIs
<1>6. Max(At(raw, ")") \cup {0}) = n + 3
  <2>1. PICK S : S = At(raw, ")") \cup {0}
    OBVIOUS
  <2>2. S \subseteq Int /\ n + 3 \in S /\ \A y \in S : n + 3 >= y
    BY <1>2, <1>4, <2>1 DEF At
  <2> QED
    BY <2>1, <2>2, MaxOf
<1>7. SubSeq(raw, 1, 1) = <<name>> /\ trim(<<name>>) = <<name>>
  <2>1. SubSeq(raw, 1, 1) = <<name>>
    <3>1. PICK s : s = SubSeq(raw, 1, 1)
      OBVIOUS
    <3>2. s \in Seq(Token) /\ Len(s) = 1 /\ s[1] = raw[1]
      BY <1>2, <3>1
    <3>3. PICK t : t = <<name>>
      OBVIOUS
    <3>4. t \in Seq(Token) /\ Len(t) = 1 /\ t[1] = name
      BY <3>3
    <3>5. s = t
      BY <1>2, <3>2, <3>4, SeqEqual
    <3> QED
      BY <3>1, <3>3, <3>5
  <2>2. <<name>> \in Seq(Token) /\ <<name>> # <<>> /\ <<name>>[1] = name /\ Len(<<name>>) = 1
    OBVIOUS
  <2> QED
    BY <2>1, <2>2, Untrimmed
<1>8. SubSeq(raw, 3, n + 2) = value
  <2>1. PICK s : s = SubSeq(raw, 3, n + 2)
    OBVIOUS
  <2>2. s \in Seq(Token) /\ Len(s) = n /\ \A i \in 1..n : s[i] = raw[i + 2]
    BY <1>2, <2>1
  <2> QED
    BY <1>1, <1>2, <2>1, <2>2
<1>9. parse(raw) = parse_tool_with_args(raw, raw)
  BY <1>3, <1>5 DEF parse
<1>10. parse_tool_with_args(raw, raw) = parse_args(<<name>>, value, raw)
  <2>1. 2 - 1 = 1 /\ 2 + 1 = 3 /\ (n + 3) - 1 = n + 2 /\ ~(n + 3 <= 2)
    OBVIOUS
  <2> QED
    BY <1>5, <1>6, <1>7, <1>8, <2>1 DEF parse_tool_with_args
<1> QED
  BY <1>9, <1>10

LEMMA ParseArgsIs ==
  ASSUME NEW tool, NEW args, NEW raw
  PROVE  /\ parse_args(tool, args, raw).raw = raw
         /\ tool = <<"Agent">> => parse_args(tool, args, raw) = Pat("Exact", tool, args, raw)
         /\ tool \in FILE_PATH_TOOLS /\ ValidGlob(args) =>
              parse_args(tool, args, raw) = Pat("PathGlob", tool, args, raw)
         /\ tool = <<"Bash">> /\ ~IsSuffix(<<":", "*">>, args) =>
              parse_args(tool, args, raw) = Pat("BashExact", tool, args, raw)
<1>1. \A kind, t, text : Pat(kind, t, text, raw).raw = raw
  BY DEF Pat
<1>2. <<"Agent">> \notin FILE_PATH_TOOLS /\ <<"Bash">> \notin FILE_PATH_TOOLS /\ <<"Agent">> # <<"Bash">>
  BY DEF FILE_PATH_TOOLS
<1> QED
  BY <1>1, <1>2 DEF parse_args

LEMMA ParseKeepsRaw == ASSUME NEW t PROVE parse(t).raw = t
<1>1. \A kind, tool, text : Pat(kind, tool, text, t).raw = t
  BY DEF Pat
<1>2. \A u : parse_mcp(u, t).raw = t
  BY <1>1 DEF parse_mcp
<1>3. \A u : parse_tool_with_args(u, t).raw = t
  BY <1>1, ParseArgsIs DEF parse_tool_with_args
<1> QED
  BY <1>1, <1>2, <1>3 DEF parse

\* The tools an entry is derived for, and the field it takes.
Derivable == {"Bash", "Agent", "Read", "Edit", "Write", "MultiEdit"}
LEMMA DerivedIs ==
  ASSUME NEW call \in Call, call.field = DerivedFrom(call.tool)
  PROVE  \E name \in Derivable \cap Token :
           /\ call.tool = <<name>> /\ name # Blank /\ name # "("
           /\ name = "Bash" => call.field = "command"
           /\ name = "Agent" => call.field = "subagent_type"
           /\ name \notin {"Bash", "Agent"} => call.field = "file_path" /\ <<name>> \in FILE_PATH_TOOLS
<1>1. call.tool \in Seq(Token) /\ call.field # "nothing"
  BY TextAssumption
<1>2. \E name \in Derivable : call.tool = <<name>>
  BY <1>1 DEF DerivedFrom, Derivable, FILE_PATH_TOOLS
<1>3. PICK name \in Derivable : call.tool = <<name>>
  BY <1>2
<1>4. name \in Token
  BY <1>1, <1>3
<1>5. name # Blank /\ name # "("
  BY <1>3 DEF Derivable, Blank
<1>6. /\ name = "Bash" => call.field = "command"
      /\ name = "Agent" => call.field = "subagent_type"
  BY <1>3 DEF DerivedFrom, FILE_PATH_TOOLS
<1>7. ASSUME name \notin {"Bash", "Agent"} PROVE call.field = "file_path" /\ <<name>> \in FILE_PATH_TOOLS
  BY <1>3, <1>7 DEF DerivedFrom, FILE_PATH_TOOLS, Derivable
<1> QED
  BY <1>3, <1>4, <1>5, <1>6, <1>7

\* The entry an Always adds for a plain call is confident about this call, and
\* about no call that differs from it.
LEMMA ReadsBack ==
  ASSUME NEW call \in Call, Plain(call), NEW raw, derive_pattern(call) = <<raw>>
  PROVE  /\ raw # NoString
         /\ matches(parse(raw), call) = "Confident"
         /\ \A d \in Call : matches(parse(raw), d) = "Confident" => Same(call, d)
<1>1. /\ \A d \in Call : d.tool \in Seq(Token) /\ d.tool # <<>> /\ d.value \in Seq(Token)
      /\ "(" \in Token /\ ")" \in Token
  BY TextAssumption
<1>2. \A holds : confident(holds) = "Confident" => holds
  BY DEF confident
<1>3. CASE Head(call.tool) = "mcp__"
  <2>1. raw = call.tool /\ raw \in Seq(Token) /\ raw # <<>> /\ raw[1] = "mcp__"
    BY <1>1, <1>3 DEF derive_pattern
  <2>2. At(raw, Blank) = {} /\ At(raw, "(") = {} /\ At(raw, "*") = {}
    BY <2>1 DEF Plain, Blank
  <2>3. trim(raw) = raw
    <3>1. PICK n \in Nat \ {0} : n = Len(raw) /\ DOMAIN raw = 1..n
      BY <2>1
    <3>2. raw[1] # Blank /\ raw[n] # Blank
      BY <2>2, <3>1 DEF At
    <3> QED
      BY <2>1, <3>1, <3>2, Untrimmed
  <2>4. Last(raw) # "*"
    <3>1. Len(raw) \in DOMAIN raw
      BY <2>1
    <3> QED
      BY <2>2, <3>1 DEF At, Last
  <2>5. parse(raw) = Pat("McpExact", raw, <<>>, raw)
    BY <2>1, <2>2, <2>3, <2>4 DEF parse, parse_mcp
  <2>6. \A d : matches(parse(raw), d) = confident(d.tool = raw)
    BY <2>5 DEF matches, Pat
  <2>7. raw # NoString
    BY <2>1 DEF NoString
  <2>8. matches(parse(raw), call) = "Confident"
    BY <2>1, <2>6 DEF confident
  <2>9. ASSUME NEW d \in Call, matches(parse(raw), d) = "Confident" PROVE Same(call, d)
    BY <1>2, <1>3, <2>1, <2>6, <2>9 DEF Same
  <2> QED
    BY <2>7, <2>8, <2>9
<1>4. CASE Head(call.tool) # "mcp__"
  <2>1. call.field = DerivedFrom(call.tool) /\ raw = call.tool \o <<"(">> \o call.value \o <<")">>
    BY <1>4 DEF derive_pattern
  <2>2. PICK name \in Derivable \cap Token :
          /\ call.tool = <<name>> /\ name # Blank /\ name # "("
          /\ name = "Bash" => call.field = "command"
          /\ name = "Agent" => call.field = "subagent_type"
          /\ name \notin {"Bash", "Agent"} => call.field = "file_path" /\ <<name>> \in FILE_PATH_TOOLS
    BY <2>1, DerivedIs
  <2>3. PICK value \in Seq(Token) : value = call.value
    BY <1>1
  <2>4. /\ trim(value) = value
        /\ <<name>> \in FILE_PATH_TOOLS => \A c \in GlobSign : At(value, c) = {}
        /\ name = "Bash" => ~IsSuffix(<<":", "*">>, value)
    BY <1>4, <2>2, <2>3 DEF Plain
  <2>5. raw = <<name>> \o <<"(">> \o value \o <<")">>
    BY <2>1, <2>2, <2>3
  <2>6. parse(raw) = parse_args(<<name>>, value, raw)
    BY <2>2, <2>4, <2>5, TakenApart
  <2>7. raw # NoString
    <3>1. PICK n \in Nat : n = Len(value)
      BY <2>3
    <3>2. Len(raw) = n + 3
      BY <2>2, <2>3, <2>5, <3>1, Joined
    <3> QED
      BY <3>2 DEF NoString
  <2>8. CASE name = "Agent"
    <3>1. parse(raw) = Pat("Exact", <<name>>, value, raw)
      BY <2>6, <2>8, ParseArgsIs
    <3>2. \A d : d.tool = <<name>> => matches(parse(raw), d) =
                   confident(Input(d, {"subagent_type"}) /\ d.value = value)
      BY <3>1 DEF matches, match_tool_args, Pat
    <3>3. \A d : d.tool # <<name>> => matches(parse(raw), d) = "NoMatch"
      BY <3>1 DEF matches, Pat
    <3> QED
      BY <1>2, <2>2, <2>3, <2>7, <2>8, <3>2, <3>3 DEF Same, Input, confident
  <2>9. CASE name = "Bash"
    <3>1. parse(raw) = Pat("BashExact", <<name>>, value, raw)
      BY <2>4, <2>6, <2>9, ParseArgsIs
    <3>2. \A d : d.tool = <<name>> /\ Input(d, {"command"}) =>
                   matches(parse(raw), d) = confident(d.value = value)
      BY <3>1 DEF matches, match_tool_args, Pat
    <3>3. \A d : d.tool # <<name>> \/ ~Input(d, {"command"}) => matches(parse(raw), d) # "Confident"
      BY <3>1 DEF matches, match_tool_args, Pat
    <3> QED
      BY <1>2, <2>2, <2>3, <2>7, <2>9, <3>2, <3>3 DEF Same, Input, confident
  <2>10. CASE name \notin {"Agent", "Bash"}
    <3>1. parse(raw) = Pat("PathGlob", <<name>>, value, raw)
      BY <2>2, <2>3, <2>4, <2>6, <2>10, ParseArgsIs, NoSigns
    <3>2. \A d : d.tool = <<name>> /\ Input(d, {"file_path", "path"}) =>
                   matches(parse(raw), d) = confident(is_match(value, d.value))
      BY <3>1 DEF matches, match_tool_args, Pat
    <3>3. \A d : d.tool # <<name>> \/ ~Input(d, {"file_path", "path"}) =>
                   matches(parse(raw), d) # "Confident"
      BY <3>1 DEF matches, match_tool_args, Pat
    <3>4. \A d \in Call : is_match(value, d.value) <=> value = d.value
      BY <1>1, <2>2, <2>3, <2>4, <2>10, LiteralMatch
    <3>5. matches(parse(raw), call) = "Confident"
      BY <2>2, <2>3, <2>10, <3>2, <3>4 DEF Input, confident
    <3>6. ASSUME NEW d \in Call, matches(parse(raw), d) = "Confident" PROVE Same(call, d)
      BY <1>2, <2>2, <2>3, <3>2, <3>3, <3>4, <3>6 DEF Same
    <3> QED
      BY <2>7, <3>5, <3>6
  <2> QED
    BY <2>8, <2>9, <2>10
<1> QED
  BY <1>3, <1>4

\* An entry that the file holds has been read back into the list.
LEMMA EntryIsHeld ==
  ASSUME NEW c \in Content, NEW call \in Call, Plain(call), derive_pattern(call) # <<>>,
         derive_pattern(call)[1] \in Range(c.allow)
  PROVE  readable(c) /\ Says(load(c).allow, call, "Confident")
<1>1. PICK raw : raw = derive_pattern(call)[1]
  OBVIOUS
<1>2. derive_pattern(call) = <<raw>>
  BY <1>1 DEF derive_pattern
<1>3. raw # NoString /\ matches(parse(raw), call) = "Confident"
  BY <1>2, ReadsBack
<1>4. c.allow \in Seq(Seq(Token))
  BY ContentFields
<1>5. PICK i \in DOMAIN c.allow : c.allow[i] = raw
  BY <1>1 DEF Range
<1>6. c # Broken
  BY <1>5 DEF Broken
<1>7. readable(c)
  BY <1>6 DEF readable, Content, Absent, Broken
<1>8. PICK k \in DOMAIN parse_pattern_array(c.allow) : parse_pattern_array(c.allow)[k] = parse(raw)
  BY <1>3, <1>4, <1>5, PatternArray
<1>9. load(c).allow = parse_pattern_array(c.allow)
  BY <1>7 DEF load, from_settings_json
<1> QED
  BY <1>3, <1>7, <1>8, <1>9 DEF Says

\* After an Always on a plain call, and as long as its entry is in the file, the
\* call is allowed or an entry of a deny list speaks: what the aggregator
\* derives, the settings file keeps, the watcher reads back and the matcher
\* compares fits together, whatever texts the files and the calls hold.
THEOREM AlwaysHonoured == Spec => []AlwaysIsHonoured
<1>1. ASSUME IInv, ListsInv,
             NEW k \in clicked, NEW f, f = <<"local", k.root>>,
             find_project_root(k.cwd) = k.root, Settled(k.cwd), Plain(k.call),
             derive_pattern(k.call)[1] \in Range(disk[f].allow),
             ~(Results(Said(k.cwd, "deny"), k.call) \ {"NoMatch"} # {})
      PROVE  evaluate(k.call, cascade_for(k.cwd)).is = "Allow"
  <2>1. k.cwd \in Dir /\ k.root \in Dir /\ k.call \in Call /\ derive_pattern(k.call) # <<>>
    BY <1>1 DEF IInv, TypeOK, ListsInv
  <2>2. k.root # NoRoot
    BY <2>1, NoRootAssumption
  <2>3. f \in Sources(k.cwd)
    BY <1>1, <2>1, FileFacts DEF Sources, dir
  <2>4. f \in File /\ disk[f] \in Content
    BY <1>1, <2>1, FileFacts DEF IInv, TypeOK
  <2>5. readable(disk[f]) /\ Says(load(disk[f]).allow, k.call, "Confident")
    BY <1>1, <2>1, <2>4, EntryIsHeld
  <2>6. Now(f) = load(disk[f])
    BY <1>1, <2>4, <2>5 DEF Now, IInv, Fresh
  <2>7. "Confident" \in Results(Said(k.cwd, "allow"), k.call)
    <3>1. Says(Now(f).allow, k.call, "Confident")
      BY <2>5, <2>6
    <3>2. Now(f)["allow"] = Now(f).allow
      OBVIOUS
    <3> QED
      BY <2>3, <3>1, <3>2, ResultsAre
  <2>8. /\ "Confident" \notin Results(Said(k.cwd, "deny"), k.call)
        /\ "Ambiguous" \notin Results(Said(k.cwd, "deny"), k.call)
    BY <1>1
  <2>9. evaluate(k.call, cascade_for(k.cwd)).is =
          Reference(k.call, Results(Said(k.cwd, "deny"), k.call), Results(Said(k.cwd, "allow"), k.call))
    BY <1>1, <2>1, AnswerIs
  <2> QED
    BY <2>7, <2>8, <2>9 DEF Reference
<1>2. IInv /\ ListsInv => AlwaysIsHonoured
  BY <1>1 DEF AlwaysIsHonoured
<1> QED
  BY <1>2, ListsInvariant, PTL

\* An Always on plain calls allows those calls and no other: an entry of a
\* list the daemon holds that is the one these calls derive is confident about
\* no call with another tool or another argument.
THEOREM AlwaysLiteral == Spec => []AlwaysIsLiteral
<1>1. ASSUME IInv, ListsInv, NEW f \in File, NEW call \in Call, NEW p \in Range(lists[f].allow),
             NEW k \in clicked, derive_pattern(k.call) = <<p.raw>>, Plain(k.call),
             matches(p, call) = "Confident"
      PROVE  Same(k.call, call)
  <2>1. k.call \in Call
    BY <1>1 DEF IInv, TypeOK
  <2>2. lists[f].allow \in Seq(Pattern)
    BY <1>1, ParsedLists DEF ListsInv
  <2>3. p \in Pattern
    BY <1>1, <2>2 DEF Range
  <2>4. PICK t : p = parse(t)
    BY <2>3 DEF Pattern
  <2>5. p = parse(p.raw)
    BY <2>4, ParseKeepsRaw
  <2>6. PICK raw : raw = p.raw
    OBVIOUS
  <2> QED
    BY <1>1, <2>1, <2>5, <2>6, ReadsBack
<1>2. IInv /\ ListsInv => AlwaysIsLiteral
  BY <1>1 DEF AlwaysIsLiteral
<1> QED
  BY <1>2, ListsInvariant, PTL
=============================================================================
