------------------------------- MODULE Lists_proofs -------------------------------
(****************************************************************************)
(* What the other proofs need to know of numbers and lists.  The theorems   *)
(* of the library on induction take a predicate as a parameter; here it is  *)
(* a set of natural numbers, which has a least element.                     *)
(****************************************************************************)
EXTENDS Lists, FiniteSetsExt, WellFoundedInduction, TLAPS

Before == {p \in Nat \X Nat : p[1] < p[2]}

(* A set of natural numbers that is not empty has a least element.          *)
LEMMA LeastNumber ==
    ASSUME NEW T \in SUBSET Nat, T # {}
    PROVE  \E m \in T : \A n \in T : m <= n
<1>1. IsWellFoundedOn(Before, Nat)
  BY NatLessThanWellFounded DEF OpToRel, Before
<1>2. PICK m \in T : \A n \in T : <<n, m>> \notin Before
  BY <1>1, WFMin
<1>3. \A i, j \in Nat : i < j => <<i, j>> \in Before
  BY DEF Before
<1>4. ASSUME NEW n \in T PROVE m <= n
  <2>1. m \in Nat /\ n \in Nat /\ ~(n < m)
    BY <1>2, <1>3
  <2>2. QED
    BY <2>1
<1>. QED  BY <1>2, <1>4

(* Induction: what holds of 0 and is inherited holds of every number.       *)
LEMMA NumberInduction ==
    ASSUME NEW T \in SUBSET Nat, 0 \in T, \A n \in Nat : n \in T => n + 1 \in T
    PROVE  T = Nat
<1> SUFFICES ASSUME Nat \ T # {} PROVE FALSE
  OBVIOUS
<1>1. PICK m \in Nat \ T : \A n \in Nat \ T : m <= n
  BY LeastNumber
<1>2. m # 0 /\ m - 1 \in Nat /\ (m - 1) + 1 = m /\ ~(m <= m - 1)
  BY <1>1
<1>3. m - 1 \in T
  BY <1>1, <1>2
<1>. QED  BY <1>1, <1>2, <1>3

(* The operator of the community modules returns what it is named for.      *)
LEMMA MinIsLeast ==
    ASSUME NEW T \in SUBSET Nat, T # {}
    PROVE  Min(T) \in T /\ \A n \in T : Min(T) <= n
<1>1. \E m \in T : \A n \in T : m <= n
  BY LeastNumber
<1>. QED  BY <1>1 DEF Min

(* The recursive function in Only exists.                                   *)
LEMMA OnlyRecursion ==
    ASSUME NEW T, NEW s \in Seq(T), NEW S
    PROVE  \E f : /\ f = [n \in 0..Len(s) |->
                             IF n = 0 THEN << >>
                             ELSE IF s[n] \in S THEN Append(f[n - 1], s[n])
                             ELSE f[n - 1]]
                 /\ Only(s, S) = f[Len(s)]
<1> DEFINE Step(f, n) == IF n = 0 THEN << >>
                         ELSE IF s[n] \in S THEN Append(f[n - 1], s[n])
                         ELSE f[n - 1]
           Rec(f, m) == f = [n \in 0..m |-> Step(f, n)]
           P == {m \in Nat : \E f : Rec(f, m)}
<1>1. 0 \in P
  <2> DEFINE e == [n \in 0..0 |-> << >>]
  <2>1. Rec(e, 0)
    OBVIOUS
  <2>. QED  BY <2>1
<1>2. ASSUME NEW m \in Nat, m \in P PROVE m + 1 \in P
  <2>1. PICK f : Rec(f, m)
    BY <1>2
  <2> DEFINE g == [n \in 0..(m + 1) |-> IF n = m + 1 THEN Step(f, n) ELSE f[n]]
  <2>2. ASSUME NEW n \in 0..(m + 1) PROVE g[n] = Step(g, n)
    <3>1. Step(g, n) = Step(f, n)
      <4>1. CASE n = 0
        BY <4>1
      <4>2. CASE n # 0
        <5>1. n - 1 \in 0..(m + 1) /\ n - 1 # m + 1
          BY <4>2
        <5>2. g[n - 1] = f[n - 1]
          BY <5>1
        <5>. HIDE DEF g
        <5>. QED  BY <5>2
      <4>. QED  BY <4>1, <4>2
    <3>2. CASE n = m + 1
      <4>1. g[n] = Step(f, n)
        BY <3>2
      <4>. QED  BY <4>1, <3>1
    <3>3. CASE n # m + 1
      <4>1. n \in 0..m
        BY <3>3
      <4>2. f[n] = Step(f, n)
        <5>. HIDE DEF Step
        <5>. QED  BY <2>1, <4>1
      <4>3. g[n] = f[n]
        BY <3>3
      <4>. QED  BY <4>2, <4>3, <3>1
    <3>. QED  BY <3>2, <3>3
  <2>3. Rec(g, m + 1)
    <3>. HIDE DEF Step
    <3>1. g = [n \in 0..(m + 1) |-> g[n]]
      OBVIOUS
    <3>. HIDE DEF g
    <3>2. [n \in 0..(m + 1) |-> g[n]] = [n \in 0..(m + 1) |-> Step(g, n)]
      BY <2>2
    <3>. QED  BY <3>1, <3>2
  <2>. HIDE DEF Rec, g
  <2>. QED  BY <2>3
<1>3. Len(s) \in P
  <2>. HIDE DEF P
  <2>1. P \in SUBSET Nat
    BY DEF P
  <2>2. P = Nat
    BY <1>1, <1>2, <2>1, NumberInduction
  <2>. QED  BY <2>2
<1>4. PICK f : Rec(f, Len(s))
  BY <1>3
<1> DEFINE only == CHOOSE h : Rec(h, Len(s))
<1>5. Rec(only, Len(s))
  <2>. HIDE DEF Rec
  <2>. QED  BY <1>4
<1>6. Only(s, S) = only[Len(s)]
  BY DEF Only
<1>. HIDE DEF only
<1>. QED  BY <1>5, <1>6

(* Only takes elements of s in ascending order of their positions, and all  *)
(* that belong to S.                                                        *)
Selects(t, s, n, S, f) ==
    /\ f \in [1..Len(t) -> 1..n]
    /\ \A k \in 1..Len(t) : k <= f[k] /\ t[k] = s[f[k]] /\ s[f[k]] \in S
    /\ \A k, l \in 1..Len(t) : k < l => f[k] < f[l]
    /\ \A j \in 1..n : s[j] \in S => \E k \in 1..Len(t) : f[k] = j

LEMMA OnlySelects ==
    ASSUME NEW T, NEW s \in Seq(T), NEW S
    PROVE  /\ Only(s, S) \in Seq(T)
           /\ \E f : Selects(Only(s, S), s, Len(s), S, f)
<1>1. PICK only : /\ only = [n \in 0..Len(s) |->
                               IF n = 0 THEN << >>
                               ELSE IF s[n] \in S THEN Append(only[n - 1], s[n])
                               ELSE only[n - 1]]
                  /\ Only(s, S) = only[Len(s)]
  BY OnlyRecursion
<1>2. only[0] = << >>
  BY <1>1
<1>3. ASSUME NEW n \in Nat, n + 1 <= Len(s)
      PROVE  only[n + 1] = IF s[n + 1] \in S THEN Append(only[n], s[n + 1])
                           ELSE only[n]
  <2>1. n + 1 \in 0..Len(s) /\ n + 1 # 0 /\ (n + 1) - 1 = n
    BY <1>3
  <2>. QED  BY <1>1, <2>1
<1> DEFINE Good(n) == /\ only[n] \in Seq(T)
                      /\ \E f : Selects(only[n], s, n, S, f)
           P == {n \in Nat : n <= Len(s) => Good(n)}
<1>4. Good(0)
  <2>1. Selects(<< >>, s, 0, S, << >>)
    BY DEF Selects
  <2>. QED  BY <1>2, <2>1
<1>5. ASSUME NEW n \in Nat, n + 1 <= Len(s), Good(n) PROVE Good(n + 1)
  <2>1. PICK f : Selects(only[n], s, n, S, f)
    BY <1>5
  <2>2. only[n] \in Seq(T) /\ s[n + 1] \in T
    BY <1>5
  <2> DEFINE t == only[n]
  <2>3. CASE s[n + 1] \notin S
    <3>1. only[n + 1] = t
      BY <1>3, <1>5, <2>3
    <3>. HIDE DEF t
    <3>2. \A j \in 1..(n + 1) : j # n + 1 => j \in 1..n
      OBVIOUS
    <3>3. Selects(t, s, n, S, f)
      BY <2>1 DEF t
    <3>4. f \in [1..Len(t) -> 1..(n + 1)]
      <4>1. f \in [1..Len(t) -> 1..n] /\ 1..n \subseteq 1..(n + 1)
        BY <3>3 DEF Selects
      <4>. QED  BY <4>1
    <3>5. Selects(t, s, n + 1, S, f)
      BY <3>2, <3>3, <3>4, <2>3 DEF Selects
    <3>. QED  BY <3>1, <3>5, <2>2 DEF t
  <2>4. CASE s[n + 1] \in S
    <3> DEFINE u == Append(t, s[n + 1])
               g == [k \in 1..(Len(t) + 1) |-> IF k = Len(t) + 1 THEN n + 1 ELSE f[k]]
    <3>1. /\ only[n + 1] = u /\ u \in Seq(T) /\ Len(u) = Len(t) + 1
          /\ Len(t) \in Nat /\ u[Len(t) + 1] = s[n + 1]
          /\ \A k \in 1..Len(t) : u[k] = t[k]
      <4>1. only[n + 1] = u
        BY <1>3, <1>5, <2>4
      <4>2. t \in Seq(T)
        BY <2>2
      <4>. HIDE DEF t
      <4>. QED  BY <4>1, <4>2, <2>2
    <3>0. Selects(t, s, n, S, f)
      BY <2>1
    <3> HIDE DEF u, t
    <3>2. Len(t) <= n
      <4>1. CASE Len(t) = 0
        BY <4>1
      <4>2. CASE Len(t) # 0
        <5>1. Len(t) \in 1..Len(t)
          BY <4>2, <3>1
        <5>2. Len(t) <= f[Len(t)] /\ f[Len(t)] \in 1..n
          BY <5>1, <3>0 DEF Selects
        <5>. QED  BY <5>2, <3>1
      <4>. QED  BY <4>1, <4>2
    <3>3. \A k \in 1..Len(t) : g[k] = f[k] /\ f[k] \in 1..n
      <4>1. \A k \in 1..Len(t) : f[k] \in 1..n
        BY <3>0 DEF Selects
      <4>2. \A k \in 1..Len(t) : k \in 1..(Len(t) + 1) /\ k # Len(t) + 1
        BY <3>1
      <4>. QED  BY <4>1, <4>2
    <3>4. g[Len(t) + 1] = n + 1
      BY <3>1
    <3>5. g \in [1..(Len(t) + 1) -> 1..(n + 1)]
      <4>1. ASSUME NEW k \in 1..(Len(t) + 1)
            PROVE  (IF k = Len(t) + 1 THEN n + 1 ELSE f[k]) \in 1..(n + 1)
        <5>1. CASE k = Len(t) + 1
          BY <5>1
        <5>2. CASE k # Len(t) + 1
          <6>1. k \in 1..Len(t)
            BY <5>2, <3>1
          <6>2. f[k] \in 1..n
            BY <6>1, <3>3
          <6>. QED  BY <6>2, <5>2
        <5>. QED  BY <5>1, <5>2
      <4>. QED  BY <4>1
    <3> HIDE DEF g
    <3>a. \A k \in 1..(Len(t) + 1) : k \in 1..Len(t) \/ k = Len(t) + 1
      BY <3>1
    <3>6. ASSUME NEW k \in 1..(Len(t) + 1)
          PROVE  k <= g[k] /\ u[k] = s[g[k]] /\ s[g[k]] \in S
      <4>1. CASE k \in 1..Len(t)
        BY <4>1, <3>1, <3>3, <3>0 DEF Selects
      <4>2. CASE k = Len(t) + 1
        BY <4>2, <3>1, <3>2, <3>4, <2>4
      <4>. QED  BY <4>1, <4>2, <3>a
    <3>7. ASSUME NEW k \in 1..(Len(t) + 1), NEW l \in 1..(Len(t) + 1), k < l
          PROVE  g[k] < g[l]
      <4>1. k \in 1..Len(t)
        BY <3>1, <3>7
      <4>2. CASE l \in 1..Len(t)
        BY <4>1, <4>2, <3>3, <3>7, <3>0 DEF Selects
      <4>3. CASE l = Len(t) + 1
        <5>1. g[l] = n + 1 /\ g[k] \in 1..n
          BY <4>1, <4>3, <3>3, <3>4
        <5>. QED  BY <5>1
      <4>. QED  BY <4>2, <4>3, <3>a
    <3>8. ASSUME NEW j \in 1..(n + 1), s[j] \in S
          PROVE  \E k \in 1..(Len(t) + 1) : g[k] = j
      <4>1. CASE j = n + 1
        <5>1. Len(t) + 1 \in 1..(Len(t) + 1)
          BY <3>1
        <5>. QED  BY <5>1, <4>1, <3>4
      <4>2. CASE j \in 1..n
        <5>1. PICK k \in 1..Len(t) : f[k] = j
          BY <4>2, <3>8, <3>0 DEF Selects
        <5>2. k \in 1..(Len(t) + 1)
          BY <3>1
        <5>. QED  BY <5>1, <5>2, <3>3
      <4>. QED  BY <4>1, <4>2
    <3>9. Selects(u, s, n + 1, S, g)
      BY <3>1, <3>5, <3>6, <3>7, <3>8 DEF Selects
    <3>. QED  BY <3>1, <3>9
  <2>. QED  BY <2>3, <2>4
<1>6. Good(Len(s))
  <2>1. P \in SUBSET Nat /\ Len(s) \in Nat
    OBVIOUS
  <2>2. 0 \in P
    BY <1>4
  <2>3. ASSUME NEW n \in Nat, n \in P PROVE n + 1 \in P
    <3>. HIDE DEF Good
    <3>1. n + 1 <= Len(s) => Good(n + 1)
      BY <1>5, <2>3, <2>1
    <3>. QED  BY <3>1
  <2>4. P = Nat
    <3>. HIDE DEF P
    <3>. QED  BY <2>1, <2>2, <2>3, NumberInduction
  <2>. HIDE DEF Good
  <2>. QED  BY <2>1, <2>4
<1>. QED  BY <1>1, <1>6
=============================================================================
