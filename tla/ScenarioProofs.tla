----------------------------- MODULE ScenarioProofs -----------------------------
(***************************************************************************)
(* Proofs about scenarios. Of the tab that edits them (ScenarioEditor): no *)
(* identity plays two parts and no preview outlives what it shows, for any *)
(* identities, spots and files. Of the generator (ScenarioGenerator), what *)
(* batches take for granted: every body has a number of its own that its   *)
(* team allows, no two bodies touch at the start, different scenarios come *)
(* from different streams, and a jittered position stays near its origin   *)
(* and on the field.                                                       *)
(***************************************************************************)
EXTENDS ScenarioEditor, ScenarioGenerator, SequenceTheorems, FiniteSetTheorems,
        WellFoundedInduction, TLAPS

--------------------------------------------------------------------------------
(* A list without one identity. *)

LEMMA LeastNatural ==
    ASSUME NEW T, T \subseteq Nat, T # {}
    PROVE  \E x \in T : \A y \in T : x <= y
<1>1. PICK x \in T : \A y \in T : ~(<<y, x>> \in OpToRel(<, Nat))
  BY NatLessThanWellFounded, WFMin
<1>2. \A y \in T : ~(y < x)
  BY <1>1 DEF OpToRel
<1> QED
  BY <1>2

\* The body of Kept, of any function.
KeptFrom(s, id, n, g) ==
    IF n = 0 THEN <<>> ELSE IF s[n].id = id THEN g[n - 1] ELSE Append(g[n - 1], s[n])

LEMMA KeptUnfolds ==
    ASSUME NEW s, Len(s) \in Nat, NEW id
    PROVE  \E f : /\ f = [n \in 0 .. Len(s) |-> KeptFrom(s, id, n, f)]
                  /\ Kept(s, id) = f[Len(s)]
<1> DEFINE Unfolds(m, g) == g = [n \in 0 .. m |-> KeptFrom(s, id, n, g)]
           T == {m \in 0 .. Len(s) : ~\E g : Unfolds(m, g)}
<1>1. T = {}
  <2> SUFFICES ASSUME T # {} PROVE FALSE
    OBVIOUS
  <2>1. PICK m \in T : \A y \in T : m <= y
    <3>1. T \subseteq Nat
      OBVIOUS
    <3> QED
      BY <3>1, LeastNatural
  <2>2. CASE m = 0
    <3> DEFINE g == [n \in 0 .. 0 |-> <<>>]
    <3>1. Unfolds(0, g)
      BY DEF KeptFrom
    <3> QED
      BY <2>1, <2>2, <3>1
  <2>3. CASE m # 0
    <3>1. m \in Nat /\ m - 1 \in 0 .. Len(s) /\ m - 1 \notin T
      BY <2>1, <2>3
    <3>2. PICK h : Unfolds(m - 1, h)
      BY <3>1
    <3> DEFINE g == [n \in 0 .. m |-> IF n = m THEN KeptFrom(s, id, m, h) ELSE h[n]]
    <3>3. ASSUME NEW n \in 0 .. m
          PROVE  g[n] = KeptFrom(s, id, n, g)
      <4>1. CASE n = m
        <5>1. g[m - 1] = h[m - 1]
          BY <3>1
        <5> QED
          BY <3>1, <4>1, <5>1 DEF KeptFrom
      <4>2. CASE n # m
        <5>1. g[n] = KeptFrom(s, id, n, h)
          BY <3>1, <3>2, <4>2, SMTT(30)
        <5>2. n # 0 => g[n - 1] = h[n - 1]
          BY <3>1, <4>2
        <5> QED
          BY <5>1, <5>2 DEF KeptFrom
      <4> QED
        BY <4>1, <4>2
    <3>4. Unfolds(m, g)
      <4> HIDE DEF g
      <4>1. g = [n \in 0 .. m |-> g[n]]
        BY DEF g
      <4> QED
        BY <3>3, <4>1
    <3> QED
      BY <2>1, <3>4
  <2> QED
    BY <2>2, <2>3
<1>2. \E g : Unfolds(Len(s), g)
  BY <1>1
<1> DEFINE f == CHOOSE g : Unfolds(Len(s), g)
<1>3. Unfolds(Len(s), f)
  BY <1>2
<1>4. Kept(s, id) = f[Len(s)]
  BY DEF Kept, KeptFrom
<1> QED
  BY <1>3, <1>4

\* The elements of t are elements of s without the identity, in their order.
KeepsOthers(S, s, id, t) ==
    /\ t \in Seq(S)
    /\ \A i \in 1 .. Len(t) : \E k \in 1 .. Len(s) : t[i] = s[k] /\ s[k].id # id
    /\ \A i, j \in 1 .. Len(t) : i < j => \E k, l \in 1 .. Len(s) : k < l /\ t[i] = s[k] /\ t[j] = s[l]

LEMMA KeptFacts ==
    ASSUME NEW S, NEW s \in Seq(S), NEW id
    PROVE  KeepsOthers(S, s, id, Kept(s, id))
<1> DEFINE From(t, n) ==
               /\ t \in Seq(S)
               /\ \A i \in 1 .. Len(t) : \E k \in 1 .. n : t[i] = s[k] /\ s[k].id # id
               /\ \A i, j \in 1 .. Len(t) : i < j =>
                      \E k, l \in 1 .. n : k < l /\ t[i] = s[k] /\ t[j] = s[l]
<1>1. Len(s) \in Nat /\ DOMAIN s = 1 .. Len(s) /\ \A i \in 1 .. Len(s) : s[i] \in S
  BY ElementOfSeq, LenProperties
<1>2. PICK f : /\ f = [n \in 0 .. Len(s) |-> KeptFrom(s, id, n, f)]
               /\ Kept(s, id) = f[Len(s)]
  BY <1>1, KeptUnfolds
<1> HIDE DEF From
<1> DEFINE T == {n \in 0 .. Len(s) : ~From(f[n], n)}
<1>3. T = {}
  <2> SUFFICES ASSUME T # {} PROVE FALSE
    OBVIOUS
  <2>1. PICK n \in T : \A y \in T : n <= y
    <3>1. T \subseteq Nat
      OBVIOUS
    <3> QED
      BY <3>1, LeastNatural
  <2>2. n \in 0 .. Len(s) /\ ~From(f[n], n) /\ f[n] = KeptFrom(s, id, n, f)
    BY <1>2, <2>1
  <2>3. n # 0
    <3> SUFFICES ASSUME n = 0 PROVE From(<<>>, 0)
      BY <2>2 DEF KeptFrom
    <3>1. <<>> \in Seq(S) /\ Len(<<>>) = 0
      OBVIOUS
    <3> QED
      BY <3>1 DEF From
  <2>4. n - 1 \in 0 .. Len(s) /\ n \in 1 .. Len(s) /\ From(f[n - 1], n - 1)
    <3>1. n - 1 \in 0 .. Len(s) /\ n \in 1 .. Len(s)
      BY <1>1, <2>2, <2>3
    <3>2. n - 1 \notin T
      <4> HIDE DEF T
      <4> QED
        BY <1>1, <2>1, <2>2, <3>1
    <3> QED
      BY <3>1, <3>2
  <2> DEFINE t == f[n - 1]
  <2>5. CASE s[n].id = id
    <3>1. f[n] = t
      BY <2>2, <2>3, <2>5 DEF KeptFrom
    <3>2. 1 .. n - 1 \subseteq 1 .. n
      BY <2>4
    <3>3. From(t, n)
      BY <2>4, <3>2 DEF From
    <3> QED
      BY <2>2, <3>1, <3>3
  <2>6. CASE s[n].id # id
    <3>1. f[n] = Append(t, s[n])
      BY <2>2, <2>3, <2>6 DEF KeptFrom
    <3>2. /\ t \in Seq(S) /\ s[n] \in S
          /\ \A i \in 1 .. Len(t) : \E k \in 1 .. n - 1 : t[i] = s[k] /\ s[k].id # id
          /\ \A i, j \in 1 .. Len(t) : i < j =>
                 \E k, l \in 1 .. n - 1 : k < l /\ t[i] = s[k] /\ t[j] = s[l]
      BY <1>1, <2>4 DEF From
    <3> HIDE DEF t
    <3> DEFINE u == Append(t, s[n])
    <3>3. /\ u \in Seq(S) /\ Len(t) \in Nat /\ Len(u) = Len(t) + 1 /\ u[Len(u)] = s[n]
          /\ \A i \in 1 .. Len(t) : u[i] = t[i]
      BY <3>2, AppendProperties, LenProperties
    <3> HIDE DEF u
    <3>4. \A i \in 1 .. Len(u) : \E k \in 1 .. n : u[i] = s[k] /\ s[k].id # id
      <4> SUFFICES ASSUME NEW i \in 1 .. Len(u)
                   PROVE  \E k \in 1 .. n : u[i] = s[k] /\ s[k].id # id
        OBVIOUS
      <4>1. CASE i = Len(u)
        BY <2>4, <2>6, <3>3, <4>1
      <4>2. CASE i # Len(u)
        <5>1. i \in 1 .. Len(t) /\ u[i] = t[i]
          BY <3>3, <4>2
        <5>2. PICK k \in 1 .. n - 1 : t[i] = s[k] /\ s[k].id # id
          BY <3>2, <5>1
        <5> QED
          BY <2>4, <5>1, <5>2
      <4> QED
        BY <4>1, <4>2
    <3>5. \A i, j \in 1 .. Len(u) : i < j =>
              \E k, l \in 1 .. n : k < l /\ u[i] = s[k] /\ u[j] = s[l]
      <4> SUFFICES ASSUME NEW i \in 1 .. Len(u), NEW j \in 1 .. Len(u), i < j
                   PROVE  \E k, l \in 1 .. n : k < l /\ u[i] = s[k] /\ u[j] = s[l]
        OBVIOUS
      <4>1. i \in 1 .. Len(t) /\ u[i] = t[i]
        BY <3>3
      <4>2. CASE j = Len(u)
        <5>1. PICK k \in 1 .. n - 1 : t[i] = s[k]
          BY <3>2, <4>1
        <5>2. k \in 1 .. n /\ n \in 1 .. n /\ k < n
          BY <2>4
        <5> QED
          BY <3>3, <4>1, <4>2, <5>1, <5>2
      <4>3. CASE j # Len(u)
        <5>1. j \in 1 .. Len(t)
          BY <3>3, <4>3
        <5>2. PICK k \in 1 .. n - 1, l \in 1 .. n - 1 : k < l /\ t[i] = s[k] /\ t[j] = s[l]
          BY <3>2, <4>1, <5>1
        <5> QED
          BY <2>4, <3>3, <4>1, <5>1, <5>2
      <4> QED
        BY <4>2, <4>3
    <3>6. From(u, n)
      BY <3>3, <3>4, <3>5 DEF From
    <3> QED
      BY <2>2, <3>1, <3>6 DEF u
  <2> QED
    BY <2>5, <2>6
<1>4. From(f[Len(s)], Len(s))
  BY <1>1, <1>3
<1> DEFINE t == Kept(s, id)
<1> HIDE DEF t
<1>5. From(t, Len(s))
  BY <1>2, <1>4 DEF t
<1>6. KeepsOthers(S, s, id, t)
  BY <1>5 DEF From, KeepsOthers
<1> QED
  BY <1>6 DEF t

--------------------------------------------------------------------------------
(* Edits of a scenario. *)

LEMMA SearchFacts ==
    ASSUME NEW I, I \subseteq Nat \ {0}, I # {}
    PROVE  Min(I) \in I
<1>1. PICK x \in I : \A y \in I : x <= y
  BY LeastNatural
<1> QED
  BY <1>1 DEF Min

LEMMA ScenarioFields ==
    ASSUME NEW s \in Scenarios
    PROVE  /\ s = Scenario(s.robots, s.obstacles)
           /\ s.robots \in Seq(Robots) /\ s.obstacles \in Seq(Obstacles)
           /\ Len(s.robots) \in Nat /\ DOMAIN s.robots = 1 .. Len(s.robots)
           /\ Len(s.obstacles) \in Nat /\ DOMAIN s.obstacles = 1 .. Len(s.obstacles)
           /\ \A i \in 1 .. Len(s.robots) : s.robots[i] \in Robots
           /\ \A i \in 1 .. Len(s.obstacles) : s.obstacles[i] \in Obstacles
<1>1. s = Scenario(s.robots, s.obstacles) /\ s.robots \in Seq(Robots) /\ s.obstacles \in Seq(Obstacles)
  BY DEF Scenarios, Scenario
<1> QED
  BY <1>1, ElementOfSeq, LenProperties

\* OneRole of a scenario that is put together from two lists.
LEMMA OneRoleOf ==
    ASSUME NEW rs \in Seq(Robots), NEW os \in Seq(Obstacles),
           \A i, j \in 1 .. Len(rs) : rs[i].id = rs[j].id => i = j,
           \A i \in 1 .. Len(rs), j \in 1 .. Len(os) : rs[i].id # os[j].id
    PROVE  Scenario(rs, os) \in Scenarios /\ OneRole(Scenario(rs, os))
<1>1. DOMAIN rs = 1 .. Len(rs) /\ DOMAIN os = 1 .. Len(os)
  BY LenProperties
<1>2. Scenario(rs, os).robots = rs /\ Scenario(rs, os).obstacles = os /\ Scenario(rs, os) \in Scenarios
  BY DEF Scenario, Scenarios
<1> QED
  BY <1>1, <1>2 DEF OneRole

LEMMA OneRoleMeans ==
    ASSUME NEW s \in Scenarios, OneRole(s)
    PROVE  /\ \A i, j \in 1 .. Len(s.robots) : s.robots[i].id = s.robots[j].id => i = j
           /\ \A i \in 1 .. Len(s.robots), j \in 1 .. Len(s.obstacles) : s.robots[i].id # s.obstacles[j].id
  BY ScenarioFields DEF OneRole

LEMMA WithoutFacts ==
    ASSUME NEW S, NEW s \in Seq(S), NEW i \in 1 .. Len(s)
    PROVE  /\ Without(s, i) \in Seq(S) /\ Len(Without(s, i)) = Len(s) - 1
           /\ \A k \in 1 .. Len(s) - 1 : Without(s, i)[k] = IF k < i THEN s[k] ELSE s[k + 1]
<1> DEFINE a == SubSeq(s, 1, i - 1)
           b == SubSeq(s, i + 1, Len(s))
<1>1. Len(s) \in Nat /\ i \in Nat
  BY LenProperties
<1>2. a \in Seq(S) /\ Len(a) = i - 1 /\ \A k \in 1 .. i - 1 : a[k] = s[k]
  BY <1>1, SubSeqProperties
<1>3. b \in Seq(S) /\ Len(b) = Len(s) - i /\ \A k \in 1 .. Len(s) - i : b[k] = s[i + k]
  BY <1>1, SubSeqProperties
<1>4. Without(s, i) = a \o b
  BY DEF Without, RemoveAt
<1> HIDE DEF a, b
<1>5. /\ a \o b \in Seq(S) /\ Len(a \o b) = Len(s) - 1
      /\ \A k \in 1 .. Len(s) - 1 : (a \o b)[k] = IF k <= Len(a) THEN a[k] ELSE b[k - Len(a)]
  <2>1. /\ a \o b \in Seq(S) /\ Len(a \o b) = Len(a) + Len(b)
        /\ \A k \in 1 .. Len(a) + Len(b) : (a \o b)[k] = IF k <= Len(a) THEN a[k] ELSE b[k - Len(a)]
    BY <1>2, <1>3, ConcatProperties
  <2>2. Len(a) + Len(b) = Len(s) - 1
    BY <1>1, <1>2, <1>3
  <2> QED
    BY <2>1, <2>2
<1>6. ASSUME NEW k \in 1 .. Len(s) - 1
      PROVE  (a \o b)[k] = IF k < i THEN s[k] ELSE s[k + 1]
  <2>1. CASE k < i
    BY <1>1, <1>2, <1>5, <2>1
  <2>2. CASE ~(k < i)
    <3>1. k - (i - 1) \in 1 .. Len(s) - i /\ ~(k <= Len(a)) /\ i + (k - (i - 1)) = k + 1
      BY <1>1, <1>2, <2>2
    <3> QED
      BY <1>2, <1>3, <1>5, <2>2, <3>1
  <2> QED
    BY <2>1, <2>2
<1> QED
  BY <1>4, <1>5, <1>6

\* A body less leaves every other its one part.
LEMMA WithoutRobot ==
    ASSUME NEW s \in Scenarios, OneRole(s), NEW i \in 1 .. Len(s.robots)
    PROVE  LET t == Scenario(Without(s.robots, i), s.obstacles)
           IN  /\ [s EXCEPT !.robots = Without(@, i)] = t
               /\ t \in Scenarios /\ OneRole(t)
<1> DEFINE rs == Without(s.robots, i)
<1>1. s = Scenario(s.robots, s.obstacles) /\ s.robots \in Seq(Robots) /\ s.obstacles \in Seq(Obstacles)
      /\ Len(s.robots) \in Nat
  BY ScenarioFields
<1>2. [s EXCEPT !.robots = Without(@, i)] = Scenario(rs, s.obstacles)
  BY <1>1 DEF Scenario
<1>3. /\ rs \in Seq(Robots) /\ Len(rs) = Len(s.robots) - 1
      /\ \A k \in 1 .. Len(s.robots) - 1 : rs[k] = IF k < i THEN s.robots[k] ELSE s.robots[k + 1]
  BY <1>1, WithoutFacts
<1> HIDE DEF rs
<1> DEFINE old(k) == IF k < i THEN k ELSE k + 1
<1>4. \A k \in 1 .. Len(rs) : old(k) \in 1 .. Len(s.robots) /\ rs[k] = s.robots[old(k)]
  BY <1>1, <1>3
<1>5. \A k, l \in 1 .. Len(rs) : old(k) = old(l) => k = l
  BY <1>1, <1>3
<1>6. Scenario(rs, s.obstacles) \in Scenarios /\ OneRole(Scenario(rs, s.obstacles))
  <2> HIDE DEF old
  <2>1. \A k, l \in 1 .. Len(rs) : rs[k].id = rs[l].id => k = l
    <3> SUFFICES ASSUME NEW k \in 1 .. Len(rs), NEW l \in 1 .. Len(rs), rs[k].id = rs[l].id
                 PROVE  k = l
      OBVIOUS
    <3>1. s.robots[old(k)].id = s.robots[old(l)].id /\ old(k) \in 1 .. Len(s.robots) /\ old(l) \in 1 .. Len(s.robots)
      BY <1>4
    <3>2. old(k) = old(l)
      BY <3>1, OneRoleMeans
    <3> QED
      BY <1>5, <3>2
  <2>2. \A k \in 1 .. Len(rs), j \in 1 .. Len(s.obstacles) : rs[k].id # s.obstacles[j].id
    BY <1>4, OneRoleMeans
  <2> QED
    BY <1>1, <1>3, <2>1, <2>2, OneRoleOf
<1> QED
  BY <1>2, <1>6 DEF rs

LEMMA WithoutObstacle ==
    ASSUME NEW s \in Scenarios, OneRole(s), NEW i \in 1 .. Len(s.obstacles)
    PROVE  LET t == Scenario(s.robots, Without(s.obstacles, i))
           IN  /\ [s EXCEPT !.obstacles = Without(@, i)] = t
               /\ t \in Scenarios /\ OneRole(t)
<1> DEFINE os == Without(s.obstacles, i)
<1>1. s = Scenario(s.robots, s.obstacles) /\ s.robots \in Seq(Robots) /\ s.obstacles \in Seq(Obstacles)
      /\ Len(s.obstacles) \in Nat
  BY ScenarioFields
<1>2. [s EXCEPT !.obstacles = Without(@, i)] = Scenario(s.robots, os)
  BY <1>1 DEF Scenario
<1>3. /\ os \in Seq(Obstacles) /\ Len(os) = Len(s.obstacles) - 1
      /\ \A k \in 1 .. Len(s.obstacles) - 1 : os[k] = IF k < i THEN s.obstacles[k] ELSE s.obstacles[k + 1]
  BY <1>1, WithoutFacts
<1> HIDE DEF os
<1> DEFINE old(k) == IF k < i THEN k ELSE k + 1
<1>4. \A k \in 1 .. Len(os) : old(k) \in 1 .. Len(s.obstacles) /\ os[k] = s.obstacles[old(k)]
  BY <1>1, <1>3
<1>5. Scenario(s.robots, os) \in Scenarios /\ OneRole(Scenario(s.robots, os))
  <2> HIDE DEF old
  <2>1. \A k \in 1 .. Len(s.robots), j \in 1 .. Len(os) : s.robots[k].id # os[j].id
    BY <1>4, OneRoleMeans
  <2> QED
    BY <1>1, <1>3, <2>1, OneRoleMeans, OneRoleOf
<1> QED
  BY <1>2, <1>5 DEF os

\* A list in which one element is put at the place of its like, or at the end.
PutAt(s, at, e) == IF at = 0 THEN Append(s, e) ELSE [s EXCEPT ![at] = e]

\* t is s with e at place n.
HasPut(S, s, n, e, t) ==
    /\ t \in Seq(S) /\ n \in 1 .. Len(t) /\ t[n] = e
    /\ \A k \in 1 .. Len(t) : k # n => k \in 1 .. Len(s) /\ t[k] = s[k]

LEMMA PutFacts ==
    ASSUME NEW S, NEW s \in Seq(S), NEW at \in 0 .. Len(s), NEW e \in S
    PROVE  HasPut(S, s, IF at = 0 THEN Len(s) + 1 ELSE at, e, PutAt(s, at, e))
<1>1. Len(s) \in Nat
  BY LenProperties
<1>2. CASE at = 0
  <2>1. /\ Append(s, e) \in Seq(S) /\ Len(Append(s, e)) = Len(s) + 1
        /\ Append(s, e)[Len(s) + 1] = e
        /\ \A k \in 1 .. Len(s) : Append(s, e)[k] = s[k]
    BY AppendProperties
  <2> QED
    BY <1>1, <1>2, <2>1 DEF PutAt, HasPut
<1>3. CASE at # 0
  <2>1. at \in 1 .. Len(s)
    BY <1>1, <1>3
  <2>2. /\ [s EXCEPT ![at] = e] \in Seq(S) /\ Len([s EXCEPT ![at] = e]) = Len(s)
        /\ \A k \in 1 .. Len(s) : [s EXCEPT ![at] = e][k] = IF k = at THEN e ELSE s[k]
    BY <2>1, ExceptSeq
  <2> QED
    BY <1>1, <1>3, <2>1, <2>2 DEF PutAt, HasPut
<1> QED
  BY <1>2, <1>3

LEMMA SetRobotFacts ==
    ASSUME NEW s \in Scenarios, OneRole(s), NEW r \in Robots
    PROVE  LET t == SetRobot(s, r)
           IN  t \in Scenarios /\ OneRole(t)
<1> DEFINE I == {i \in 1 .. Len(s.robots) : s.robots[i].id = r.id}
           at == SelectInSeq(s.robots, LAMBDA c : c.id = r.id)
           rs == PutAt(s.robots, at, r)
           n == IF at = 0 THEN Len(s.robots) + 1 ELSE at
           os == Kept(s.obstacles, r.id)
<1>1. s.robots \in Seq(Robots) /\ s.obstacles \in Seq(Obstacles) /\ Len(s.robots) \in Nat
      /\ \A i \in 1 .. Len(s.robots) : s.robots[i] \in Robots
  BY ScenarioFields
<1>2. at = IF I # {} THEN Min(I) ELSE 0
  BY DEF SelectInSeq
<1>3. (I = {} => at = 0) /\ (I # {} => at \in I)
  <2>1. I \subseteq Nat \ {0}
    BY <1>1
  <2> HIDE DEF I, at
  <2> QED
    BY <1>2, <2>1, SearchFacts
<1>4. SetRobot(s, r) = Scenario(rs, os)
  BY DEF SetRobot, PutAt
<1> HIDE DEF at
<1>5. at \in 0 .. Len(s.robots) /\ \A i \in 1 .. Len(s.robots) : s.robots[i].id = r.id => i = at
  BY <1>1, <1>3, OneRoleMeans
<1>6. /\ rs \in Seq(Robots) /\ n \in 1 .. Len(rs) /\ rs[n] = r
      /\ \A k \in 1 .. Len(rs) : k # n => k \in 1 .. Len(s.robots) /\ rs[k] = s.robots[k]
  <2>1. HasPut(Robots, s.robots, n, r, rs)
    BY <1>1, <1>5, PutFacts
  <2> QED
    BY <2>1 DEF HasPut
<1>7. /\ os \in Seq(Obstacles)
      /\ \A j \in 1 .. Len(os) : \E k \in 1 .. Len(s.obstacles) : os[j] = s.obstacles[k] /\ s.obstacles[k].id # r.id
  <2>1. KeepsOthers(Obstacles, s.obstacles, r.id, os)
    BY <1>1, KeptFacts
  <2> QED
    BY <2>1 DEF KeepsOthers
<1>8. \A k \in 1 .. Len(rs) : k # n => rs[k].id # r.id
  BY <1>1, <1>5, <1>6
<1> HIDE DEF rs, os, n
<1>9. \A i, j \in 1 .. Len(rs) : rs[i].id = rs[j].id => i = j
  BY <1>6, <1>8, OneRoleMeans
<1>10. \A i \in 1 .. Len(rs), j \in 1 .. Len(os) : rs[i].id # os[j].id
  <2> SUFFICES ASSUME NEW i \in 1 .. Len(rs), NEW j \in 1 .. Len(os)
               PROVE  rs[i].id # os[j].id
    OBVIOUS
  <2>1. PICK k \in 1 .. Len(s.obstacles) : os[j] = s.obstacles[k] /\ s.obstacles[k].id # r.id
    BY <1>7
  <2> QED
    BY <1>6, <2>1, OneRoleMeans
<1>11. Scenario(rs, os) \in Scenarios /\ OneRole(Scenario(rs, os))
  BY <1>6, <1>7, <1>9, <1>10, OneRoleOf
<1> QED
  BY <1>4, <1>11

LEMMA SetObstacleFacts ==
    ASSUME NEW s \in Scenarios, OneRole(s), NEW o \in Obstacles
    PROVE  LET t == SetObstacle(s, o)
           IN  t \in Scenarios /\ OneRole(t)
<1> DEFINE I == {i \in 1 .. Len(s.obstacles) : s.obstacles[i].id = o.id /\ s.obstacles[i].keys = o.keys}
           at == SelectInSeq(s.obstacles, LAMBDA c : c.id = o.id /\ c.keys = o.keys)
           os == PutAt(s.obstacles, at, o)
           n == IF at = 0 THEN Len(s.obstacles) + 1 ELSE at
           rs == Kept(s.robots, o.id)
<1>1. s.robots \in Seq(Robots) /\ s.obstacles \in Seq(Obstacles) /\ Len(s.obstacles) \in Nat
  BY ScenarioFields
<1>2. at = IF I # {} THEN Min(I) ELSE 0
  BY DEF SelectInSeq
<1>3. (I = {} => at = 0) /\ (I # {} => at \in I)
  <2>1. I \subseteq Nat \ {0}
    BY <1>1
  <2> HIDE DEF I, at
  <2> QED
    BY <1>2, <2>1, SearchFacts
<1>4. SetObstacle(s, o) = Scenario(rs, os)
  BY DEF SetObstacle, PutAt
<1> HIDE DEF at
<1>5. at \in 0 .. Len(s.obstacles)
  BY <1>1, <1>3
<1> HIDE DEF I
<1>6. /\ os \in Seq(Obstacles) /\ n \in 1 .. Len(os) /\ os[n] = o
      /\ \A k \in 1 .. Len(os) : k # n => k \in 1 .. Len(s.obstacles) /\ os[k] = s.obstacles[k]
  <2>1. HasPut(Obstacles, s.obstacles, n, o, os)
    BY <1>1, <1>5, PutFacts
  <2> QED
    BY <2>1 DEF HasPut
<1>7. /\ rs \in Seq(Robots)
      /\ \A j \in 1 .. Len(rs) : \E k \in 1 .. Len(s.robots) : rs[j] = s.robots[k] /\ s.robots[k].id # o.id
      /\ \A i, j \in 1 .. Len(rs) : i < j =>
             \E k, l \in 1 .. Len(s.robots) : k < l /\ rs[i] = s.robots[k] /\ rs[j] = s.robots[l]
  <2>1. KeepsOthers(Robots, s.robots, o.id, rs)
    BY <1>1, KeptFacts
  <2> QED
    BY <2>1 DEF KeepsOthers
<1> HIDE DEF rs, os, n
<1>8. \A i, j \in 1 .. Len(rs) : rs[i].id = rs[j].id => i = j
  <2>1. ASSUME NEW i \in 1 .. Len(rs), NEW j \in 1 .. Len(rs), i < j
        PROVE  rs[i].id # rs[j].id
    <3>1. PICK k \in 1 .. Len(s.robots), l \in 1 .. Len(s.robots) :
              k < l /\ rs[i] = s.robots[k] /\ rs[j] = s.robots[l]
      BY <1>7, <2>1
    <3> QED
      BY <3>1, OneRoleMeans
  <2> QED
    BY <2>1
<1>9. \A i \in 1 .. Len(rs), j \in 1 .. Len(os) : rs[i].id # os[j].id
  <2> SUFFICES ASSUME NEW i \in 1 .. Len(rs), NEW j \in 1 .. Len(os)
               PROVE  rs[i].id # os[j].id
    OBVIOUS
  <2>1. PICK k \in 1 .. Len(s.robots) : rs[i] = s.robots[k] /\ s.robots[k].id # o.id
    BY <1>7
  <2> QED
    BY <1>6, <2>1, OneRoleMeans
<1>10. Scenario(rs, os) \in Scenarios /\ OneRole(Scenario(rs, os))
  BY <1>6, <1>7, <1>8, <1>9, OneRoleOf
<1> QED
  BY <1>4, <1>10

\* A body that is drawn elsewhere keeps its part.
LEMMA RobotReplaced ==
    ASSUME NEW s \in Scenarios, OneRole(s), NEW i \in 1 .. Len(s.robots),
           NEW r \in Robots, r.id = s.robots[i].id
    PROVE  LET t == Scenario([s.robots EXCEPT ![i] = r], s.obstacles)
           IN  /\ t \in Scenarios /\ OneRole(t)
               /\ Len(t.robots) = Len(s.robots) /\ Len(t.obstacles) = Len(s.obstacles)
<1> DEFINE rs == [s.robots EXCEPT ![i] = r]
<1>1. s.robots \in Seq(Robots) /\ s.obstacles \in Seq(Obstacles)
  BY ScenarioFields
<1>2. /\ rs \in Seq(Robots) /\ Len(rs) = Len(s.robots)
      /\ \A k \in 1 .. Len(s.robots) : rs[k] = IF k = i THEN r ELSE s.robots[k]
  BY <1>1, ExceptSeq
<1> HIDE DEF rs
<1>3. \A k \in 1 .. Len(rs) : k \in 1 .. Len(s.robots) /\ rs[k].id = s.robots[k].id
  BY <1>2
<1>4. Scenario(rs, s.obstacles) \in Scenarios /\ OneRole(Scenario(rs, s.obstacles))
  <2>1. \A k, l \in 1 .. Len(rs) : rs[k].id = rs[l].id => k = l
    BY <1>3, OneRoleMeans
  <2>2. \A k \in 1 .. Len(rs), j \in 1 .. Len(s.obstacles) : rs[k].id # s.obstacles[j].id
    BY <1>3, OneRoleMeans
  <2> QED
    BY <1>1, <1>2, <2>1, <2>2, OneRoleOf
<1> QED
  BY <1>2, <1>4 DEF rs, Scenario

LEMMA ObstacleReplaced ==
    ASSUME NEW s \in Scenarios, OneRole(s), NEW i \in 1 .. Len(s.obstacles),
           NEW o \in Obstacles, o.id = s.obstacles[i].id
    PROVE  LET t == Scenario(s.robots, [s.obstacles EXCEPT ![i] = o])
           IN  /\ t \in Scenarios /\ OneRole(t)
               /\ Len(t.robots) = Len(s.robots) /\ Len(t.obstacles) = Len(s.obstacles)
<1> DEFINE os == [s.obstacles EXCEPT ![i] = o]
<1>1. s.robots \in Seq(Robots) /\ s.obstacles \in Seq(Obstacles)
  BY ScenarioFields
<1>2. /\ os \in Seq(Obstacles) /\ Len(os) = Len(s.obstacles)
      /\ \A k \in 1 .. Len(s.obstacles) : os[k] = IF k = i THEN o ELSE s.obstacles[k]
  BY <1>1, ExceptSeq
<1> HIDE DEF os
<1>3. \A k \in 1 .. Len(os) : k \in 1 .. Len(s.obstacles) /\ os[k].id = s.obstacles[k].id
  BY <1>2
<1>4. Scenario(s.robots, os) \in Scenarios /\ OneRole(Scenario(s.robots, os))
  <2>1. \A k \in 1 .. Len(s.robots), j \in 1 .. Len(os) : s.robots[k].id # os[j].id
    BY <1>3, OneRoleMeans
  <2> QED
    BY <1>1, <1>2, <2>1, OneRoleMeans, OneRoleOf
<1> QED
  BY <1>2, <1>4 DEF os, Scenario

\* Where a search ends.
Found(I) == IF I # {} THEN Min(I) ELSE 0

LEMMA FoundFacts ==
    ASSUME NEW n \in Nat, NEW I \in SUBSET (1 .. n)
    PROVE  Found(I) \in 0 .. n
<1>1. CASE I = {}
  BY <1>1 DEF Found
<1>2. CASE I # {}
  <2>1. I \subseteq Nat \ {0}
    OBVIOUS
  <2>2. Min(I) \in I
    BY <1>2, <2>1, SearchFacts
  <2>3. Found(I) = Min(I)
    BY <1>2 DEF Found
  <2>4. Found(I) \in 1 .. n
    BY <2>2, <2>3
  <2> QED
    BY <2>4
<1> QED
  BY <1>1, <1>2

LEMMA SearchesEnd ==
    ASSUME scenario \in Scenarios, NEW p
    PROVE  /\ RobotAt(p) \in 0 .. Len(scenario.robots)
           /\ ObstacleAt(p) \in 0 .. Len(scenario.obstacles)
           /\ PathAt(p) \in 0 .. Len(scenario.robots)
<1> DEFINE w == SelectInSeq(shown, LAMBDA v : ~v.failed /\ p \in {v.start, v.target})
           I == {i \in 1 .. Len(scenario.robots) : scenario.robots[i].start = p}
           J == {i \in 1 .. Len(scenario.obstacles) : scenario.obstacles[i].pos = p}
           K == {i \in 1 .. Len(scenario.robots) : scenario.robots[i].id = shown[w].id}
<1>1. Len(scenario.robots) \in Nat /\ Len(scenario.obstacles) \in Nat
  BY ScenarioFields
<1>2. RobotAt(p) = Found(I)
  BY DEF RobotAt, SelectInSeq, Found
<1>3. ObstacleAt(p) = Found(J)
  BY DEF ObstacleAt, SelectInSeq, Found
<1>4. PathAt(p) = IF w = 0 THEN 0 ELSE Found(K)
  <2>1. PathAt(p) = IF w = 0 THEN 0 ELSE SelectInSeq(scenario.robots, LAMBDA r : r.id = shown[w].id)
    BY DEF PathAt
  <2> HIDE DEF w
  <2> QED
    BY <2>1 DEF SelectInSeq, Found
<1>5. I \in SUBSET (1 .. Len(scenario.robots)) /\ J \in SUBSET (1 .. Len(scenario.obstacles))
      /\ K \in SUBSET (1 .. Len(scenario.robots))
  OBVIOUS
<1> HIDE DEF w, I, J, K
<1>6. Found(I) \in 0 .. Len(scenario.robots) /\ Found(K) \in 0 .. Len(scenario.robots)
      /\ Found(J) \in 0 .. Len(scenario.obstacles)
  BY <1>1, <1>5, FoundFacts
<1> QED
  BY <1>1, <1>2, <1>3, <1>4, <1>6

--------------------------------------------------------------------------------
(* No identity plays two parts. *)

\* No path of ps is planned around the body of the robot it is for.
PathsFit(ps) == \A i \in DOMAIN ps : \A b \in ps[i].around : b[1] # ps[i].id

LEMMA PlannedFits ==
    ASSUME NEW s \in Scenarios, OneRole(s), NEW label, NEW failed
    PROVE  PathsFit(Planned(s, label, failed))
<1> DEFINE ps == Planned(s, label, failed)
<1>1. DOMAIN s.robots = 1 .. Len(s.robots) /\ DOMAIN s.obstacles = 1 .. Len(s.obstacles)
  BY ScenarioFields
<1>2. SUFFICES ASSUME NEW i \in DOMAIN ps, NEW b \in ps[i].around
               PROVE  b[1] # ps[i].id
  BY DEF PathsFit
<1>3. i \in 1 .. Len(s.robots) /\ ps[i].id = s.robots[i].id /\ b \in Around(s, label, i)
  BY <1>1, <1>2 DEF Planned
<1> HIDE DEF ps
<1>4. \/ \E o \in ToSet(s.obstacles) : b = <<o.id, o.pos>>
      \/ \E r \in ToSet(s.robots) : r # s.robots[i] /\ b = <<r.id, r.start>>
  BY <1>3 DEF Around
<1>5. CASE \E o \in ToSet(s.obstacles) : b = <<o.id, o.pos>>
  <2>1. PICK k \in 1 .. Len(s.obstacles) : b = <<s.obstacles[k].id, s.obstacles[k].pos>>
    BY <1>1, <1>5 DEF ToSet
  <2> QED
    BY <1>3, <2>1, OneRoleMeans
<1>6. CASE \E r \in ToSet(s.robots) : r # s.robots[i] /\ b = <<r.id, r.start>>
  <2>1. PICK k \in 1 .. Len(s.robots) :
            s.robots[k] # s.robots[i] /\ b = <<s.robots[k].id, s.robots[k].start>>
    BY <1>1, <1>6 DEF ToSet
  <2> QED
    BY <1>3, <2>1, OneRoleMeans
<1> QED
  BY <1>4, <1>5, <1>6

\* Every scenario that can become the one being edited gives each identity one
\* part, the selections lie inside its lists (an edit replaces and deletes at
\* the selected place), and what is drawn or can be drawn again fits.
Sound(s) == s \in Scenarios /\ OneRole(s)
ChosenIn(s, c) == c.robot \in 0 .. Len(s.robots) /\ c.obstacle \in 0 .. Len(s.obstacles)
PreviewFits == \/ preview = NoPreview
               \/ \E l, o, p : preview = [label |-> l, of |-> o, paths |-> p] /\ PathsFit(p)
EditorInv ==
    /\ scenario # NoScenario => Sound(scenario) /\ ChosenIn(scenario, chosen)
    /\ \A f \in DOMAIN files : Sound(files[f])
    /\ PreviewFits /\ PathsFit(shown)

LEMMA EditorInvInit == Init => EditorInv
  BY EditorAssumption DEF Init, EditorInv, PreviewFits, PathsFit, Sound

\* An edit, which also clears what is drawn.
LEMMA EditedKeeps ==
    ASSUME EditorInv, NEW s, NEW c, Edited(s, c), Sound(s), ChosenIn(s, c)
    PROVE  EditorInv'
<1>1. scenario' = s /\ chosen' = c /\ files' = files /\ preview' = NoPreview /\ shown' = <<>>
  BY DEF Edited
<1>2. PathsFit(shown')
  BY <1>1 DEF PathsFit
<1> QED
  BY <1>1, <1>2 DEF EditorInv, PreviewFits, Sound, ChosenIn, PathsFit

LEMMA InstallKeeps ==
    ASSUME EditorInv, NEW s, Install(s), Sound(s)
    PROVE  EditorInv'
<1>1. /\ scenario' = s /\ chosen' = [robot |-> 0, obstacle |-> 0] /\ files' = files
      /\ preview' = NoPreview /\ shown' = <<>>
  BY DEF Install, Nothing
<1>2. ChosenIn(s, chosen')
  BY <1>1, ScenarioFields DEF ChosenIn, Sound
<1> QED
  BY <1>1, <1>2 DEF EditorInv, PreviewFits, Sound, ChosenIn, PathsFit

LEMMA SelectedKeeps ==
    ASSUME EditorInv, NEW c, Selected(c), scenario # NoScenario => ChosenIn(scenario, c)
    PROVE  EditorInv'
  BY DEF Selected, scene, EditorInv, PreviewFits, Sound, ChosenIn, PathsFit

LEMMA NoRobotsSound ==
    ASSUME NEW os \in Seq(Obstacles)
    PROVE  Sound(Scenario(<<>>, os))
<1> DEFINE rs == <<>>
<1>1. rs \in Seq(Robots) /\ Len(rs) = 0
  OBVIOUS
<1> HIDE DEF rs
<1>2. 1 .. Len(rs) = {}
  BY <1>1
<1>3. Scenario(rs, os) \in Scenarios /\ OneRole(Scenario(rs, os))
  BY <1>1, <1>2, OneRoleOf
<1> QED
  BY <1>3 DEF rs, Sound

LEMMA LoadFromGrSimKeeps == EditorInv /\ LoadFromGrSim => EditorInv'
<1> SUFFICES ASSUME EditorInv, NEW o \in Snapshots, Install(Scenario(<<>>, o)) PROVE EditorInv'
  BY DEF LoadFromGrSim
<1>1. o \in Seq(Obstacles)
  BY EditorAssumption
<1> QED
  BY <1>1, NoRobotsSound, InstallKeeps

LEMMA AddNewKeeps == EditorInv /\ AddNew => EditorInv'
<1>1. <<>> \in Seq(Obstacles)
  OBVIOUS
<1> QED
  BY <1>1, NoRobotsSound, InstallKeeps DEF AddNew

LEMMA FilesKeep ==
    ASSUME EditorInv, NEW f, Load(f) \/ Save(f) \/ Delete(f)
    PROVE  EditorInv'
<1>1. CASE Load(f)
  BY <1>1, InstallKeeps DEF Load, EditorInv
<1>2. CASE Save(f)
  <2>1. \A g \in DOMAIN files' : Sound(files'[g])
    BY <1>2 DEF Save, EditorInv
  <2> QED
    BY <1>2, <2>1 DEF Save, EditorInv, PreviewFits, PathsFit, Sound, ChosenIn
<1>3. CASE Delete(f)
  <2>1. \A g \in DOMAIN files' : Sound(files'[g])
    BY <1>3 DEF Delete, EditorInv
  <2> QED
    BY <1>3, <2>1 DEF Delete, EditorInv, PreviewFits, PathsFit, Sound, ChosenIn
<1> QED
  BY <1>1, <1>2, <1>3

\* The tools and the lists of the inspector change no scenario.
LEMMA ToolsKeep ==
    ASSUME EditorInv,
           \/ \E t \in Modes : SelectTool(t)
           \/ \E i : RobotRow(i) \/ ObstacleRow(i)
    PROVE  EditorInv'
<1>1. CASE \E t \in Modes : SelectTool(t)
  BY <1>1 DEF SelectTool, scene, EditorInv, PreviewFits, PathsFit, Sound, ChosenIn
<1>2. ASSUME NEW i, RobotRow(i)
      PROVE  EditorInv'
  <2>1. ChosenIn(scenario, OnlyRobot(i))
    BY <1>2, ScenarioFields DEF RobotRow, OnlyRobot, ChosenIn, EditorInv, Sound
  <2> QED
    BY <1>2, <2>1 DEF RobotRow, scene, EditorInv, PreviewFits, PathsFit, Sound, ChosenIn
<1>3. ASSUME NEW i, ObstacleRow(i)
      PROVE  EditorInv'
  <2>1. ChosenIn(scenario, OnlyObstacle(i))
    BY <1>3, ScenarioFields DEF ObstacleRow, OnlyObstacle, ChosenIn, EditorInv, Sound
  <2> QED
    BY <1>3, <2>1 DEF ObstacleRow, scene, EditorInv, PreviewFits, PathsFit, Sound, ChosenIn
<1> QED
  BY <1>1, <1>2, <1>3

LEMMA ChoosingKeeps ==
    ASSUME EditorInv,
           \/ \E i \in DOMAIN shown : ClickPath(i)
           \/ \E p \in Spots : ClickPathEnd(p) \/ SelectObstacle(p) \/ SelectRobot(p)
    PROVE  EditorInv'
<1>1. scenario # NoScenario /\ scenario \in Scenarios
      /\ Len(scenario.robots) \in Nat /\ DOMAIN scenario.robots = 1 .. Len(scenario.robots)
      /\ Len(scenario.obstacles) \in Nat
  <2>1. scenario # NoScenario
    BY DEF ClickPath, ClickPathEnd, SelectObstacle, SelectRobot, OnField
  <2> QED
    BY <2>1, ScenarioFields DEF EditorInv, Sound
<1>2. ASSUME NEW i, ClickPath(i)
      PROVE  EditorInv'
  <2>1. PICK k \in DOMAIN scenario.robots : Selected(OnlyRobot(k))
    BY <1>2 DEF ClickPath
  <2>2. ChosenIn(scenario, OnlyRobot(k))
    BY <1>1 DEF ChosenIn, OnlyRobot
  <2> QED
    BY <2>1, <2>2, SelectedKeeps
<1>3. ASSUME NEW p, ClickPathEnd(p)
      PROVE  EditorInv'
  <2>1. ChosenIn(scenario, OnlyRobot(PathAt(p)))
    BY <1>1, SearchesEnd DEF ChosenIn, OnlyRobot
  <2> QED
    BY <1>3, <2>1, SelectedKeeps DEF ClickPathEnd
<1>4. ASSUME NEW p, SelectObstacle(p)
      PROVE  EditorInv'
  <2>1. ChosenIn(scenario, OnlyObstacle(ObstacleAt(p)))
    BY <1>1, SearchesEnd DEF ChosenIn, OnlyObstacle
  <2> QED
    BY <1>4, <2>1, SelectedKeeps DEF SelectObstacle
<1>5. ASSUME NEW p, SelectRobot(p)
      PROVE  EditorInv'
  <2>1. ChosenIn(scenario, OnlyRobot(RobotAt(p)))
    BY <1>1, SearchesEnd DEF ChosenIn, OnlyRobot
  <2> QED
    BY <1>5, <2>1, SelectedKeeps DEF SelectRobot
<1> QED
  BY <1>2, <1>3, <1>4, <1>5

LEMMA ConvertToObstacleKeeps ==
    ASSUME EditorInv, NEW p, ConvertToObstacle(p)
    PROVE  EditorInv'
<1> DEFINE i == RobotAt(p)
           r == scenario.robots[i]
           rest == [scenario EXCEPT !.robots = Without(@, i)]
           s == SetObstacle(rest, Obstacle(r.id, "all", r.start))
           k == SelectInSeq(s.obstacles, LAMBDA o : o.id = r.id)
<1>1. Edited(s, OnlyObstacle(k)) /\ scenario # NoScenario /\ i # 0
  BY DEF ConvertToObstacle, OnField
<1>2. Sound(scenario) /\ scenario \in Scenarios /\ OneRole(scenario)
  BY <1>1 DEF EditorInv, Sound
<1>3. i \in 1 .. Len(scenario.robots)
  BY <1>1, <1>2, SearchesEnd
<1> HIDE DEF i
<1>4. rest \in Scenarios /\ OneRole(rest)
  BY <1>2, <1>3, WithoutRobot
<1>5. r \in Robots
  BY <1>2, <1>3, ScenarioFields
<1> HIDE DEF rest, r
<1>6. Obstacle(r.id, "all", r.start) \in Obstacles
  BY <1>5, EditorAssumption DEF Obstacle, Obstacles, Robots
<1>7. s \in Scenarios /\ OneRole(s)
  BY <1>4, <1>6, SetObstacleFacts
<1> HIDE DEF s
<1>8. k \in 0 .. Len(s.obstacles) /\ Len(s.robots) \in Nat
  <2> DEFINE I == {n \in 1 .. Len(s.obstacles) : s.obstacles[n].id = r.id}
  <2>1. Len(s.obstacles) \in Nat /\ Len(s.robots) \in Nat /\ I \in SUBSET (1 .. Len(s.obstacles))
    BY <1>7, ScenarioFields
  <2>2. k = Found(I)
    BY DEF SelectInSeq, Found
  <2> HIDE DEF I, k
  <2> QED
    BY <2>1, <2>2, FoundFacts
<1> HIDE DEF k
<1>9. ChosenIn(s, OnlyObstacle(k))
  BY <1>8 DEF ChosenIn, OnlyObstacle
<1> QED
  BY <1>1, <1>7, <1>9, EditedKeeps DEF Sound

LEMMA ConvertToRobotKeeps ==
    ASSUME EditorInv, NEW p, ConvertToRobot(p)
    PROVE  EditorInv'
<1> DEFINE i == ObstacleAt(p)
           o == scenario.obstacles[i]
           rest == [scenario EXCEPT !.obstacles = Without(@, i)]
           s == SetRobot(rest, Robot(o.id, o.pos, NoTarget))
           k == SelectInSeq(s.robots, LAMBDA r : r.id = o.id)
<1>1. Edited(s, OnlyRobot(k)) /\ scenario # NoScenario /\ i # 0
  BY DEF ConvertToRobot, OnField
<1>2. Sound(scenario) /\ scenario \in Scenarios /\ OneRole(scenario)
  BY <1>1 DEF EditorInv, Sound
<1>3. i \in 1 .. Len(scenario.obstacles)
  BY <1>1, <1>2, SearchesEnd
<1> HIDE DEF i
<1>4. rest \in Scenarios /\ OneRole(rest)
  BY <1>2, <1>3, WithoutObstacle
<1>5. o \in Obstacles
  BY <1>2, <1>3, ScenarioFields
<1> HIDE DEF rest, o
<1>6. Robot(o.id, o.pos, NoTarget) \in Robots
  BY <1>5 DEF Robot, Obstacles, Robots
<1>7. s \in Scenarios /\ OneRole(s)
  BY <1>4, <1>6, SetRobotFacts
<1> HIDE DEF s
<1>8. k \in 0 .. Len(s.robots) /\ Len(s.obstacles) \in Nat
  <2> DEFINE I == {n \in 1 .. Len(s.robots) : s.robots[n].id = o.id}
  <2>1. Len(s.robots) \in Nat /\ Len(s.obstacles) \in Nat /\ I \in SUBSET (1 .. Len(s.robots))
    BY <1>7, ScenarioFields
  <2>2. k = Found(I)
    BY DEF SelectInSeq, Found
  <2> HIDE DEF I, k
  <2> QED
    BY <2>1, <2>2, FoundFacts
<1> HIDE DEF k
<1>9. ChosenIn(s, OnlyRobot(k))
  BY <1>8 DEF ChosenIn, OnlyRobot
<1> QED
  BY <1>1, <1>7, <1>9, EditedKeeps DEF Sound

\* A robot that moves or is given a target.
LEMMA RobotMovesKeep ==
    ASSUME EditorInv, NEW p \in Spots, MoveRobot(p) \/ SetTarget(p)
    PROVE  EditorInv'
<1> DEFINE i == chosen.robot
           r == scenario.robots[i]
           moved(q) == Scenario([scenario.robots EXCEPT ![i] = q], scenario.obstacles)
<1>1. scenario # NoScenario /\ i # 0
  BY DEF MoveRobot, SetTarget, OnField
<1>2. /\ scenario \in Scenarios /\ OneRole(scenario) /\ i \in 1 .. Len(scenario.robots)
      /\ chosen.obstacle \in 0 .. Len(scenario.obstacles)
  BY <1>1 DEF EditorInv, Sound, ChosenIn
<1>3. r \in Robots /\ scenario = Scenario(scenario.robots, scenario.obstacles)
  BY <1>2, ScenarioFields
<1>4. ASSUME NEW q \in Robots, q.id = r.id, Edited(moved(q), chosen)
      PROVE  EditorInv'
  <2>1. /\ moved(q) \in Scenarios /\ OneRole(moved(q))
        /\ Len(moved(q).robots) = Len(scenario.robots) /\ Len(moved(q).obstacles) = Len(scenario.obstacles)
    BY <1>2, <1>4, RobotReplaced
  <2> HIDE DEF moved
  <2> QED
    BY <1>2, <1>4, <2>1, EditedKeeps DEF Sound, ChosenIn
<1>5. CASE MoveRobot(p)
  <2>1. [r EXCEPT !.start = p] \in Robots /\ [r EXCEPT !.start = p].id = r.id
    BY <1>3 DEF Robots
  <2>2. [scenario EXCEPT !.robots[i].start = p] = moved([r EXCEPT !.start = p])
    BY <1>3 DEF Scenario
  <2> QED
    BY <1>4, <1>5, <2>1, <2>2 DEF MoveRobot
<1>6. CASE SetTarget(p)
  <2>1. [r EXCEPT !.target = p] \in Robots /\ [r EXCEPT !.target = p].id = r.id
    BY <1>3 DEF Robots
  <2>2. [scenario EXCEPT !.robots[i].target = p] = moved([r EXCEPT !.target = p])
    BY <1>3 DEF Scenario
  <2> QED
    BY <1>4, <1>6, <2>1, <2>2 DEF SetTarget
<1> QED
  BY <1>5, <1>6

\* An obstacle that moves or is given one more waypoint.
LEMMA ObstacleMovesKeep ==
    ASSUME EditorInv, NEW p \in Spots, MoveObstacle(p) \/ AddWaypoint(p)
    PROVE  EditorInv'
<1> DEFINE i == chosen.obstacle
           o == scenario.obstacles[i]
           moved(q) == Scenario(scenario.robots, [scenario.obstacles EXCEPT ![i] = q])
<1>1. scenario # NoScenario /\ i # 0
  BY DEF MoveObstacle, AddWaypoint, OnField
<1>2. /\ scenario \in Scenarios /\ OneRole(scenario) /\ i \in 1 .. Len(scenario.obstacles)
      /\ chosen.robot \in 0 .. Len(scenario.robots)
  BY <1>1 DEF EditorInv, Sound, ChosenIn
<1>3. o \in Obstacles /\ scenario = Scenario(scenario.robots, scenario.obstacles)
  BY <1>2, ScenarioFields
<1>4. ASSUME NEW q \in Obstacles, q.id = o.id, Edited(moved(q), chosen)
      PROVE  EditorInv'
  <2>1. /\ moved(q) \in Scenarios /\ OneRole(moved(q))
        /\ Len(moved(q).robots) = Len(scenario.robots) /\ Len(moved(q).obstacles) = Len(scenario.obstacles)
    BY <1>2, <1>4, ObstacleReplaced
  <2> HIDE DEF moved
  <2> QED
    BY <1>2, <1>4, <2>1, EditedKeeps DEF Sound, ChosenIn
<1>5. CASE MoveObstacle(p)
  <2>1. [o EXCEPT !.pos = p] \in Obstacles /\ [o EXCEPT !.pos = p].id = o.id
    BY <1>3 DEF Obstacles
  <2>2. [scenario EXCEPT !.obstacles[i].pos = p] = moved([o EXCEPT !.pos = p])
    BY <1>3 DEF Scenario
  <2> QED
    BY <1>4, <1>5, <2>1, <2>2 DEF MoveObstacle
<1>6. CASE AddWaypoint(p)
  <2>1. o.patrol \in 0 .. MAX_PATROL /\ o.patrol < MAX_PATROL /\ MAX_PATROL \in Nat
    BY <1>3, <1>6, EditorAssumption DEF AddWaypoint, Obstacles
  <2>2. o.patrol + 1 \in 0 .. MAX_PATROL
    BY <2>1
  <2>3. [o EXCEPT !.patrol = @ + 1] \in Obstacles /\ [o EXCEPT !.patrol = @ + 1].id = o.id
    BY <1>3, <2>2 DEF Obstacles
  <2>4. [scenario EXCEPT !.obstacles[i].patrol = @ + 1] = moved([o EXCEPT !.patrol = @ + 1])
    BY <1>3 DEF Scenario
  <2> QED
    BY <1>4, <1>6, <2>3, <2>4 DEF AddWaypoint
<1> QED
  BY <1>5, <1>6

LEMMA DeleteKeyKeeps ==
    ASSUME EditorInv, DeleteKey
    PROVE  EditorInv'
<1>1. scenario # NoScenario /\ scenario \in Scenarios /\ OneRole(scenario) /\ ChosenIn(scenario, chosen)
  BY DEF DeleteKey, EditorInv, Sound
<1>2. Len(scenario.robots) \in Nat /\ Len(scenario.obstacles) \in Nat
  BY <1>1, ScenarioFields
<1>3. CASE chosen.obstacle # 0
  <2> DEFINE t == Scenario(scenario.robots, Without(scenario.obstacles, chosen.obstacle))
  <2>1. chosen.obstacle \in 1 .. Len(scenario.obstacles) /\ chosen.robot \in 0 .. Len(scenario.robots)
    BY <1>1, <1>2, <1>3 DEF ChosenIn
  <2>2. t \in Scenarios /\ OneRole(t) /\ Edited(t, OnlyRobot(chosen.robot))
    BY <1>1, <1>3, <2>1, WithoutObstacle DEF DeleteKey
  <2>3. t.robots = scenario.robots /\ Len(t.obstacles) \in Nat
    BY <2>2, ScenarioFields DEF Scenario
  <2> HIDE DEF t
  <2>4. ChosenIn(t, OnlyRobot(chosen.robot))
    BY <2>1, <2>3 DEF ChosenIn, OnlyRobot
  <2> QED
    BY <2>2, <2>4, EditedKeeps DEF Sound
<1>4. CASE chosen.obstacle = 0
  <2> DEFINE t == Scenario(Without(scenario.robots, chosen.robot), scenario.obstacles)
  <2>1. chosen.robot \in 1 .. Len(scenario.robots)
    BY <1>1, <1>2, <1>4 DEF ChosenIn, DeleteKey
  <2>2. t \in Scenarios /\ OneRole(t) /\ Edited(t, Nothing)
    BY <1>1, <1>4, <2>1, WithoutRobot DEF DeleteKey
  <2>3. Len(t.robots) \in Nat /\ Len(t.obstacles) \in Nat
    BY <2>2, ScenarioFields
  <2> HIDE DEF t
  <2>4. ChosenIn(t, Nothing)
    BY <2>3 DEF ChosenIn, Nothing
  <2> QED
    BY <2>2, <2>4, EditedKeeps DEF Sound
<1> QED
  BY <1>3, <1>4

\* Planning, clearing and switching the label draw only paths that fit.
LEMMA DisplayFits ==
    ASSUME NEW p, NEW label, Display(p, label), p = NoPreview \/ PathsFit(p.paths)
    PROVE  PathsFit(shown')
<1>1. shown' = <<>> \/ (p # NoPreview /\ shown' = p.paths)
  BY DEF Display
<1>2. PathsFit(<<>>)
  BY DEF PathsFit
<1> QED
  BY <1>1, <1>2

LEMMA DrawingKeeps ==
    ASSUME EditorInv, Plan \/ ClearPreview \/ PlannerChanged
    PROVE  EditorInv'
<1>1. scenario' = scenario /\ files' = files /\ chosen' = chosen
  BY DEF Plan, ClearPreview, PlannerChanged, scene
<1>2. PreviewFits' /\ PathsFit(shown')
  <2>1. CASE Plan
    <3>1. PICK failed : preview' = [label |-> planner, of |-> scenario, paths |-> Planned(scenario, planner, failed)]
      BY <2>1 DEF Plan, Built
    <3>2. PathsFit(Planned(scenario, planner, failed))
      BY <2>1, PlannedFits DEF Plan, EditorInv, Sound
    <3>3. PreviewFits'
      BY <3>1, <3>2 DEF PreviewFits
    <3>4. PathsFit(preview'.paths)
      BY <3>1, <3>2
    <3>5. PathsFit(shown')
      BY <2>1, <3>4, DisplayFits DEF Plan
    <3> QED
      BY <3>3, <3>5
  <2>2. CASE ClearPreview
    <3>1. shown' = <<>> /\ PathsFit(<<>>)
      BY <2>2 DEF ClearPreview, PathsFit
    <3>2. CASE preview = NoPreview
      BY <2>2, <3>1, <3>2 DEF ClearPreview, PreviewFits
    <3>3. CASE preview # NoPreview
      <4>1. PICK l, o, p : preview = [label |-> l, of |-> o, paths |-> p]
        BY <3>3 DEF EditorInv, PreviewFits
      <4>2. preview' = [label |-> l, of |-> o, paths |-> <<>>]
        BY <2>2, <3>3, <4>1 DEF ClearPreview
      <4> QED
        BY <3>1, <4>2 DEF PreviewFits
    <3> QED
      BY <3>2, <3>3
  <2>3. CASE PlannerChanged
    <3>1. preview = NoPreview \/ PathsFit(preview.paths)
      BY DEF EditorInv, PreviewFits
    <3>2. PathsFit(shown') /\ preview' = preview
      BY <2>3, <3>1, DisplayFits DEF PlannerChanged
    <3> QED
      BY <3>2 DEF EditorInv, PreviewFits
  <2> QED
    BY <2>1, <2>2, <2>3
<1> QED
  BY <1>1, <1>2 DEF EditorInv, Sound, ChosenIn, PathsFit

LEMMA EditorInvNext == EditorInv /\ [Next]_vars => EditorInv'
<1> SUFFICES ASSUME EditorInv, [Next]_vars PROVE EditorInv'
  OBVIOUS
<1>1. CASE UNCHANGED vars
  BY <1>1 DEF vars, scene, EditorInv, PreviewFits, PathsFit, Sound, ChosenIn
<1>2. ASSUME NEW p \in Spots, Click(p)
      PROVE  EditorInv'
  BY <1>2, ChoosingKeeps, ConvertToObstacleKeeps, ConvertToRobotKeeps, RobotMovesKeep,
     ObstacleMovesKeep DEF Click
<1> QED
  BY <1>1, <1>2, LoadFromGrSimKeeps, AddNewKeeps, FilesKeep, ToolsKeep, ChoosingKeeps,
     DeleteKeyKeeps, DrawingKeeps DEF Next

\* A list whose elements have identities of their own names as many as it has.
LEMMA IdsCount ==
    ASSUME NEW n \in Nat, NEW s, \A i, j \in 1 .. n : s[i].id = s[j].id => i = j
    PROVE  Cardinality({s[i].id : i \in 1 .. n}) = n
<1> DEFINE S == {s[i].id : i \in 1 .. n}
           f == [i \in 1 .. n |-> s[i].id]
<1>1. f \in Bijection(1 .. n, S)
  BY DEF Bijection, Injection, Surjection, IsInjective
<1> HIDE DEF f, S
<1>2. ExistsBijection(1 .. n, S)
  BY <1>1 DEF ExistsBijection
<1>3. Cardinality(S) = n
  BY <1>2, FS_CountingElements
<1> QED
  BY <1>3 DEF S

\* In every state, an identity is one robot or obstacles of one or more
\* layouts, never both and never two robots, and no path on the canvas was
\* planned around its own robot: whatever is clicked, converted, deleted,
\* saved and loaded, for all identities, spots and files (set_robot,
\* set_obstacle, _obstacles_for_robot).
THEOREM NoIdentityTwice == Spec => []OneRoleEach
<1>1. EditorInv => OneRoleEach
  <2> SUFFICES ASSUME EditorInv PROVE OneRoleEach
    OBVIOUS
  <2>1. ASSUME scenario # NoScenario
        PROVE  LET robots == {scenario.robots[i].id : i \in DOMAIN scenario.robots}
                   others == {scenario.obstacles[i].id : i \in DOMAIN scenario.obstacles}
               IN  robots \cap others = {} /\ Cardinality(robots) = Len(scenario.robots)
    <3>1. scenario \in Scenarios /\ OneRole(scenario)
      BY <2>1 DEF EditorInv, Sound
    <3>2. Len(scenario.robots) \in Nat /\ DOMAIN scenario.robots = 1 .. Len(scenario.robots)
      BY <3>1, ScenarioFields
    <3>3. Cardinality({scenario.robots[i].id : i \in 1 .. Len(scenario.robots)}) = Len(scenario.robots)
      <4> DEFINE rs == scenario.robots
      <4>1. \A i, j \in 1 .. Len(rs) : rs[i].id = rs[j].id => i = j
        BY <3>1, OneRoleMeans
      <4>2. Len(rs) \in Nat
        BY <3>2
      <4> HIDE DEF rs
      <4>3. Cardinality({rs[i].id : i \in 1 .. Len(rs)}) = Len(rs)
        BY <4>1, <4>2, IdsCount
      <4> QED
        BY <4>3 DEF rs
    <3> QED
      BY <3>1, <3>2, <3>3 DEF OneRole
  <2> QED
    BY <2>1 DEF EditorInv, PathsFit, OneRoleEach
<1> QED
  BY <1>1, EditorInvInit, EditorInvNext, PTL DEF Spec

--------------------------------------------------------------------------------
(* No preview outlives what it shows. *)

\* The preview is a record of what it is of, which Clear needs.
CurrentInv ==
    /\ PreviewIsCurrent
    /\ preview = NoPreview \/ \E l, o, p : preview = [label |-> l, of |-> o, paths |-> p]

LEMMA CurrentInvInit == Init => CurrentInv
  BY DEF Init, CurrentInv, PreviewIsCurrent

LEMMA CurrentInvNext == CurrentInv /\ [Next]_vars => CurrentInv'
<1> SUFFICES ASSUME CurrentInv, [Next]_vars PROVE CurrentInv'
  OBVIOUS
<1> USE DEF CurrentInv, PreviewIsCurrent
<1>1. ASSUME preview' = NoPreview, shown' = <<>>
      PROVE  CurrentInv'
  BY <1>1
<1>2. ASSUME scenario' = scenario, preview' = preview, shown' = shown, planner' = planner
      PROVE  CurrentInv'
  BY <1>2
<1>3. CASE UNCHANGED vars
  BY <1>2, <1>3 DEF vars, scene
<1>4. CASE LoadFromGrSim \/ AddNew \/ \E f \in Files : Load(f)
  BY <1>1, <1>4 DEF LoadFromGrSim, AddNew, Load, Install
<1>5. CASE \E f \in Files : Save(f) \/ Delete(f)
  BY <1>2, <1>5 DEF Save, Delete
<1>6. CASE \E t \in Modes : SelectTool(t)
  BY <1>2, <1>6 DEF SelectTool, scene
<1>7. CASE \E i \in 1 .. 2 * Cardinality(Ids) : RobotRow(i) \/ ObstacleRow(i)
  BY <1>2, <1>7 DEF RobotRow, ObstacleRow, scene
<1>8. ASSUME NEW c, Selected(c)
      PROVE  CurrentInv'
  BY <1>2, <1>8 DEF Selected, scene
<1>9. ASSUME NEW s, NEW c, Edited(s, c)
      PROVE  CurrentInv'
  BY <1>1, <1>9 DEF Edited
<1>10. CASE DeleteKey
  BY <1>9, <1>10 DEF DeleteKey
<1>11. CASE \E i \in DOMAIN shown : ClickPath(i)
  BY <1>8, <1>11 DEF ClickPath
<1>12. CASE \E p \in Spots : Click(p)
  BY <1>8, <1>9, <1>12 DEF Click, ClickPathEnd, ConvertToObstacle, SelectObstacle, MoveObstacle,
     ConvertToRobot, SelectRobot, MoveRobot, SetTarget, AddWaypoint
<1>13. CASE Plan
  <2>1. PICK failed :
            preview' = [label |-> planner, of |-> scenario, paths |-> Planned(scenario, planner, failed)]
    BY <1>13 DEF Plan, Built
  <2>2. preview'.of = scenario /\ preview'.label = planner
    BY <2>1
  <2>3. scenario' = scenario /\ planner' = planner /\ Display(preview', planner)
    BY <1>13 DEF Plan, scene
  <2>4. shown' # <<>> => preview' # NoPreview /\ shown' = preview'.paths
    BY <2>3 DEF Display
  <2> HIDE DEF CurrentInv, PreviewIsCurrent
  <2>5. PreviewIsCurrent'
    BY <2>2, <2>3, <2>4 DEF PreviewIsCurrent
  <2> QED
    BY <2>1, <2>5 DEF CurrentInv
<1>14. CASE ClearPreview
  <2>1. CASE preview = NoPreview
    BY <1>1, <1>14, <2>1 DEF ClearPreview
  <2>2. CASE preview # NoPreview
    <3>1. PICK l, o, p : preview = [label |-> l, of |-> o, paths |-> p]
      BY <2>2
    <3>2. preview' = [label |-> l, of |-> o, paths |-> <<>>]
      BY <1>14, <2>2, <3>1 DEF ClearPreview
    <3> QED
      BY <1>14, <2>2, <3>1, <3>2 DEF ClearPreview, scene
  <2> QED
    BY <2>1, <2>2
<1>15. CASE PlannerChanged
  BY <1>15 DEF PlannerChanged, Display, scene
<1> QED
  BY <1>3, <1>4, <1>5, <1>6, <1>7, <1>10, <1>11, <1>12, <1>13, <1>14, <1>15 DEF Next

\* In every state, a stored preview is of the scenario as it is, and paths on
\* the canvas are the stored preview's, of the selected planner: every edit
\* and every load discards it (_commit_edit, _scenario_edited).
THEOREM PreviewsAreCurrent == Spec => []PreviewIsCurrent
<1>1. CurrentInv => PreviewIsCurrent
  BY DEF CurrentInv
<1> QED
  BY <1>1, CurrentInvInit, CurrentInvNext, PTL DEF Spec

--------------------------------------------------------------------------------
(* The generator. *)

\* No two bodies of a random scenario share an identity, and each identity is
\* one of its team's, whatever the numbers of robots and obstacles, as long as
\* the robots fit in the team they all play for (random_scenario, which hands
\* the blue numbers to robots first; __post_init__ only bounds the sum).
THEOREM KeysFitTeams ==
    ASSUME NEW c, ValidConfig(c), c.robots <= MAX_ROBOTS_PER_TEAM
    PROVE  /\ \A i, j \in Before(c.obstacles) : ObstacleKey(c, i) = ObstacleKey(c, j) => i = j
           /\ \A i \in Before(c.obstacles), r \in Before(c.robots) : ObstacleKey(c, i) # RobotKey(r)
           /\ \A i \in Before(c.obstacles) : ObstacleKey(c, i)[2] \in Before(MAX_ROBOTS_PER_TEAM)
           /\ \A r \in Before(c.robots) : RobotKey(r)[2] \in Before(MAX_ROBOTS_PER_TEAM)
  <1>1. /\ c.robots \in Nat /\ c.obstacles \in Nat /\ c.robots + c.obstacles <= 32 /\ c.robots <= 16
    BY DEF ValidConfig, Configs, MAX_ROBOTS_PER_TEAM
  <1>2. ASSUME NEW i \in Before(c.obstacles)
        PROVE  /\ i \in Int /\ 0 <= i /\ i < c.obstacles
               /\ ObstacleKey(c, i)[1] = IF i < 16 THEN "yellow" ELSE "blue"
               /\ ObstacleKey(c, i)[2] = IF i < 16 THEN i ELSE c.robots + i - 16
    BY <1>1 DEF Before, ObstacleKey, MAX_ROBOTS_PER_TEAM
  <1>3. ASSUME NEW r \in Before(c.robots)
        PROVE  r \in Int /\ 0 <= r /\ r < c.robots /\ RobotKey(r)[1] = "blue" /\ RobotKey(r)[2] = r
    BY <1>1 DEF Before, RobotKey
  <1>4. \A i, j \in Before(c.obstacles) : ObstacleKey(c, i) = ObstacleKey(c, j) => i = j
    <2> SUFFICES ASSUME NEW i \in Before(c.obstacles), NEW j \in Before(c.obstacles),
                        ObstacleKey(c, i) = ObstacleKey(c, j)
                 PROVE  i = j
      OBVIOUS
    <2>1. ObstacleKey(c, i)[1] = ObstacleKey(c, j)[1] /\ ObstacleKey(c, i)[2] = ObstacleKey(c, j)[2]
      OBVIOUS
    <2>2. (i < 16) <=> (j < 16)
      BY <1>2, <2>1
    <2>. QED  BY <1>1, <1>2, <2>1, <2>2
  <1>5. \A i \in Before(c.obstacles), r \in Before(c.robots) : ObstacleKey(c, i) # RobotKey(r)
    <2> SUFFICES ASSUME NEW i \in Before(c.obstacles), NEW r \in Before(c.robots),
                        ObstacleKey(c, i) = RobotKey(r)
                 PROVE  FALSE
      OBVIOUS
    <2>1. ObstacleKey(c, i)[1] = RobotKey(r)[1] /\ ObstacleKey(c, i)[2] = RobotKey(r)[2]
      OBVIOUS
    <2>2. i >= 16
      BY <1>2, <1>3, <2>1
    <2>. QED  BY <1>1, <1>2, <1>3, <2>1, <2>2
  <1>6. \A i \in Before(c.obstacles) : ObstacleKey(c, i)[2] \in Before(MAX_ROBOTS_PER_TEAM)
    <2> SUFFICES ASSUME NEW i \in Before(c.obstacles)
                 PROVE  ObstacleKey(c, i)[2] \in 0 .. 15
      BY DEF Before, MAX_ROBOTS_PER_TEAM
    <2>1. /\ i \in Int /\ 0 <= i /\ i < c.obstacles
          /\ ObstacleKey(c, i)[2] = IF i < 16 THEN i ELSE c.robots + i - 16
      BY <1>2
    <2>. QED  BY ONLY <1>1, <2>1
  <1>7. \A r \in Before(c.robots) : RobotKey(r)[2] \in Before(MAX_ROBOTS_PER_TEAM)
    BY <1>1, <1>3 DEF Before, MAX_ROBOTS_PER_TEAM
  <1>. QED  BY <1>4, <1>5, <1>6, <1>7

LEMMA Multiples ==
    ASSUME NEW n \in Int, n > 0, NEW j \in Int, NEW k \in Int, j < k
    PROVE  n * j \in Int /\ n * k \in Int /\ n * k >= n * j + n
  BY SMT

\* The numbers that seed two scenarios of a set differ when their seeds or
\* their indices do, up to the factor of the seed: a batch does not repeat a
\* scenario unnoticed (_rng). Equal salts are assumed, which perturb_scenario
\* takes from the characters of the base's name.
THEOREM StreamsDiffer ==
    ASSUME INDICES \in Nat, INDICES > 0, SALTS \in Nat, SALTS > 0,
           NEW seed \in Int, NEW other \in Int, NEW salt \in Int,
           NEW index \in Before(INDICES), NEW index2 \in Before(INDICES),
           Stream(seed, index, salt) = Stream(other, index2, salt)
    PROVE  seed = other /\ index = index2
  <1> DEFINE a == INDICES * seed + index
             b == INDICES * other + index2
  <1>1. /\ index \in Int /\ 0 <= index /\ index < INDICES
        /\ index2 \in Int /\ 0 <= index2 /\ index2 < INDICES
        /\ INDICES * seed \in Int /\ INDICES * other \in Int
    BY DEF Before
  <1>2. a \in Int /\ b \in Int
    BY <1>1
  <1>3. SALTS * a + salt = SALTS * b + salt
    BY DEF Stream
  <1> HIDE DEF a, b
  <1>4. a = b
    <2>1. SALTS * a \in Int /\ SALTS * b \in Int /\ SALTS * a = SALTS * b
      BY <1>2, <1>3
    <2>2. ~(a < b) /\ ~(b < a)
      BY <1>2, <2>1, Multiples
    <2>. QED  BY <1>2, <2>2
  <1>5. INDICES * seed + index = INDICES * other + index2
    BY <1>4 DEF a, b
  <1>6. ~(seed < other) /\ ~(other < seed)
    BY <1>1, <1>5, Multiples
  <1>7. seed = other
    BY <1>6
  <1>. QED  BY <1>1, <1>5, <1>7

LEMMA DistanceSymmetric ==
    ASSUME NEW p \in Points, NEW q \in Points, NEW d
    PROVE  AtLeast(p, q, d) <=> AtLeast(q, p, d)
  <1>1. Distance2(p, q) = Distance2(q, p)
    BY DEF Distance2, Points
  <1>. QED  BY <1>1 DEF AtLeast

\* No two bodies of a random scenario are nearer than the separation at the
\* start, and no two targets, nor a target and an obstacle's first position:
\* each is only checked against what was placed before it (_place).
THEOREM BodiesStartApart ==
    ASSUME NEW c, ValidConfig(c), NEW s, MayReturn(c, s)
    PROVE  /\ \A i, j \in Before(c.obstacles) : i # j => AtLeast(s.pos[i], s.pos[j], Separation(c))
           /\ \A i, j \in Before(c.robots) : i # j => AtLeast(s.start[i], s.start[j], Separation(c))
           /\ \A i, j \in Before(c.robots) : i # j => AtLeast(s.target[i], s.target[j], Separation(c))
           /\ \A i \in Before(c.robots), j \in Before(c.obstacles) :
                  /\ AtLeast(s.start[i], s.pos[j], Separation(c))
                  /\ AtLeast(s.target[i], s.pos[j], Separation(c))
  <1> DEFINE d == Separation(c)
             free == Samples(c.edge_margin)
  <1>1. c.obstacles \in Nat /\ c.robots \in Nat
    BY DEF ValidConfig, Configs
  <1>2. /\ s.pos \in [Before(c.obstacles) -> free]
        /\ s.start \in [Before(c.robots) -> free] /\ s.target \in [Before(c.robots) -> free]
        /\ \A i \in Before(c.obstacles) : Clear(s.pos[i], {s.pos[j] : j \in Before(i)}, d)
        /\ \A i \in Before(c.robots) :
               /\ Clear(s.start[i], {s.pos[j] : j \in Before(c.obstacles)}, d)
               /\ Clear(s.start[i], {s.start[j] : j \in Before(i)}, d)
               /\ Clear(s.target[i], {s.pos[j] : j \in Before(c.obstacles)}, d)
               /\ Clear(s.target[i], {s.target[j] : j \in Before(i)}, d)
    BY DEF MayReturn
  <1>3. free \subseteq Points
    BY DEF Samples
  <1> HIDE DEF d, free
  <1>4. ASSUME NEW n \in Nat, NEW f \in [Before(n) -> free],
               \A i \in Before(n) : Clear(f[i], {f[j] : j \in Before(i)}, d),
               NEW i \in Before(n), NEW j \in Before(n), i # j
        PROVE  AtLeast(f[i], f[j], d)
    <2>1. f[i] \in Points /\ f[j] \in Points
      BY <1>3, <1>4
    <2>2. i \in Int /\ j \in Int /\ (i < j \/ j < i)
      BY <1>4 DEF Before
    <2>3. CASE j < i
      <3>1. j \in Before(i)
        BY <1>4, <2>2, <2>3 DEF Before
      <3>. QED  BY <1>4, <3>1 DEF Clear
    <2>4. CASE i < j
      <3>1. i \in Before(j)
        BY <1>4, <2>2, <2>4 DEF Before
      <3>2. AtLeast(f[j], f[i], d)
        BY <1>4, <3>1 DEF Clear
      <3>. QED  BY <2>1, <3>2, DistanceSymmetric
    <2>. QED  BY <2>2, <2>3, <2>4
  <1>5. \A i, j \in Before(c.obstacles) : i # j => AtLeast(s.pos[i], s.pos[j], d)
    BY <1>1, <1>2, <1>4
  <1>6. \A i, j \in Before(c.robots) : i # j => AtLeast(s.start[i], s.start[j], d)
    BY <1>1, <1>2, <1>4
  <1>7. \A i, j \in Before(c.robots) : i # j => AtLeast(s.target[i], s.target[j], d)
    BY <1>1, <1>2, <1>4
  <1>8. \A i \in Before(c.robots), j \in Before(c.obstacles) :
            AtLeast(s.start[i], s.pos[j], d) /\ AtLeast(s.target[i], s.pos[j], d)
    BY <1>2 DEF Clear
  <1>. QED  BY <1>5, <1>6, <1>7, <1>8 DEF d

\* A jittered position is on the field by the margin, and on each axis no
\* further from a position of the field than the step it was given: the clamp
\* never carries it away from its origin (_jitter).
THEOREM JitterStaysNear ==
    ASSUME NEW p \in Points, NEW v \in Points, NEW margin \in Int, Half \in [Axes -> Int],
           \A a \in Axes : Low(margin, a) <= High(margin, a), NEW a \in Axes
    PROVE  /\ Jittered(p, v, margin)[a] \in Low(margin, a) .. High(margin, a)
           /\ p[a] \in Low(margin, a) .. High(margin, a) =>
                  \/ v[a] >= 0 /\ Jittered(p, v, margin)[a] \in p[a] .. p[a] + v[a]
                  \/ v[a] <= 0 /\ Jittered(p, v, margin)[a] \in p[a] + v[a] .. p[a]
  <1>1. /\ Half[a] \in Int /\ p[a] \in Int /\ v[a] \in Int
        /\ Low(margin, a) \in Int /\ High(margin, a) \in Int
    BY DEF Points, Axes, Low, High
  <1>2. Jittered(p, v, margin)[a] = Clamp(p[a] + v[a], Low(margin, a), High(margin, a))
    BY DEF Jittered, Axes
  <1>. QED  BY <1>1, <1>2 DEF Clamp

=================================================================================
