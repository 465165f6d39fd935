---------------------------- MODULE BasicLemmas ----------------------------
(***************************************************************************)
(* Facts about numbers and sequences that several proofs rest on.          *)
(***************************************************************************)
EXTENDS Subsequence, WellFoundedInduction, TLAPS

\* A set of naturals has a least element.
LEMMA LeastExists ==
    ASSUME NEW S, S \subseteq Nat, S # {}
    PROVE  \E x \in S : \A y \in S : x <= y
<1>1. PICK x \in S : \A y \in S : ~(<<y, x>> \in OpToRel(<, Nat))
    BY NatLessThanWellFounded, WFMin
<1>2. \A y \in S : ~(y < x)
    BY <1>1 DEF OpToRel
<1> QED
    BY <1>2

\* A sequence with one element more, or one less.
LEMMA AppendAt ==
    ASSUME NEW S, NEW q \in Seq(S), NEW e \in S
    PROVE  /\ Append(q, e) \in Seq(S) /\ Len(Append(q, e)) = Len(q) + 1
           /\ DOMAIN Append(q, e) = DOMAIN q \union {Len(q) + 1} /\ Len(q) + 1 \notin DOMAIN q
           /\ Append(q, e)[Len(q) + 1] = e
           /\ \A i \in DOMAIN q : Append(q, e)[i] = q[i]
    OBVIOUS

LEMMA TailAt ==
    ASSUME NEW S, NEW q \in Seq(S), q # << >>
    PROVE  /\ Tail(q) \in Seq(S) /\ Head(q) \in S /\ 1 \in DOMAIN q /\ Head(q) = q[1]
           /\ \A i \in DOMAIN Tail(q) : i + 1 \in DOMAIN q /\ Tail(q)[i] = q[i + 1]
    OBVIOUS

-----------------------------------------------------------------------------
(* Parts of sequences                                                      *)

\* The equation of the function Picked recurs on, up to n.
Picks(f, s, T, n) ==
    f = [i \in 0 .. n |-> IF i = 0 THEN << >> ELSE IF i \in T THEN Append(f[i - 1], s[i]) ELSE f[i - 1]]

\* Such a function exists.
LEMMA PicksExists ==
    ASSUME NEW s, NEW T, NEW n \in Nat
    PROVE  \E f : Picks(f, s, T, n)
<1> DEFINE B == {k \in Nat : ~ \E f : Picks(f, s, T, k)}
<1> SUFFICES B = {}
    OBVIOUS
<1> SUFFICES ASSUME B # {} PROVE FALSE
    OBVIOUS
<1>1. PICK k \in B : \A j \in B : k <= j
    BY LeastExists
<1>2. CASE k = 0
  <2>1. Picks([i \in 0 .. 0 |-> << >>], s, T, 0)
      BY DEF Picks
  <2> QED
      BY <1>2, <2>1
<1>3. CASE k # 0
  <2>1. k - 1 \in Nat /\ ~(k <= k - 1)
      BY <1>3
  <2>2. PICK f : Picks(f, s, T, k - 1)
      BY <1>1, <2>1
  <2> DEFINE g == [i \in 0 .. k |-> IF i = k THEN IF k \in T THEN Append(f[k - 1], s[k]) ELSE f[k - 1] ELSE f[i]]
  <2>3. Picks(g, s, T, k)
    <3>1. ASSUME NEW i \in 0 .. k
          PROVE  g[i] = IF i = 0 THEN << >> ELSE IF i \in T THEN Append(g[i - 1], s[i]) ELSE g[i - 1]
      <4>1. CASE i = k
        <5>1. g[k - 1] = f[k - 1] /\ i # 0
            BY <1>3, <4>1
        <5> QED
            BY <4>1, <5>1
      <4>2. CASE i # k
        <5>1. i \in 0 .. k - 1 /\ g[i] = f[i] /\ (i # 0 => g[i - 1] = f[i - 1])
            BY <1>3, <4>2
        <5>2. f[i] = IF i = 0 THEN << >> ELSE IF i \in T THEN Append(f[i - 1], s[i]) ELSE f[i - 1]
            BY <2>2, <5>1 DEF Picks
        <5> QED
            BY <5>1, <5>2
      <4> QED
          BY <4>1, <4>2
    <3> QED
        BY <3>1 DEF Picks
  <2> QED
      BY <2>3
<1> QED
    BY <1>2, <1>3

\* What is picked from the first n elements.
PickedUpto(s, T) == CHOOSE f : Picks(f, s, T, Len(s))

LEMMA PickedStep ==
    ASSUME NEW s, NEW T, Len(s) \in Nat
    PROVE  /\ Picked(s, T) = PickedUpto(s, T)[Len(s)]
           /\ PickedUpto(s, T)[0] = << >>
           /\ \A n \in 1 .. Len(s) :
                 PickedUpto(s, T)[n] = IF n \in T THEN Append(PickedUpto(s, T)[n - 1], s[n]) ELSE PickedUpto(s, T)[n - 1]
<1>1. Picks(PickedUpto(s, T), s, T, Len(s))
    BY PicksExists DEF PickedUpto
<1>2. Picked(s, T) = PickedUpto(s, T)[Len(s)]
    BY DEF Picked, PickedUpto, Picks
<1>3. \A n \in 1 .. Len(s) : n \in 0 .. Len(s) /\ n # 0
    OBVIOUS
<1> DEFINE U == PickedUpto(s, T)
<1> HIDE DEF U
<1>4. \A i \in 0 .. Len(s) : U[i] = IF i = 0 THEN << >> ELSE IF i \in T THEN Append(U[i - 1], s[i]) ELSE U[i - 1]
    BY <1>1 DEF Picks, U
<1>5. U[0] = << >>
    BY <1>4
<1>6. \A n \in 1 .. Len(s) : U[n] = IF n \in T THEN Append(U[n - 1], s[n]) ELSE U[n - 1]
    BY <1>3, <1>4
<1> QED
    BY <1>2, <1>5, <1>6 DEF U

\* What is picked from a sequence is from it, and no longer than it.
LEMMA PickedFrom ==
    ASSUME NEW S, NEW s \in Seq(S), NEW T
    PROVE  Picked(s, T) \in Seq({s[n] : n \in T \cap DOMAIN s}) /\ Len(Picked(s, T)) <= Len(s)
<1> DEFINE E == {s[n] : n \in T \cap DOMAIN s}
           U == PickedUpto(s, T)
           Good(n) == U[n] \in Seq(E) /\ Len(U[n]) <= n
           B == {n \in 0 .. Len(s) : ~Good(n)}
<1>1. Len(s) \in Nat /\ DOMAIN s = 1 .. Len(s)
    OBVIOUS
<1>2. /\ Picked(s, T) = U[Len(s)] /\ U[0] = << >>
      /\ \A n \in 1 .. Len(s) : U[n] = IF n \in T THEN Append(U[n - 1], s[n]) ELSE U[n - 1]
    BY <1>1, PickedStep
<1>3. B = {}
  <2> SUFFICES ASSUME B # {} PROVE FALSE
      OBVIOUS
  <2>0. B \subseteq Nat
      BY <1>1
  <2>1. PICK n \in B : \A m \in B : n <= m
    <3> HIDE DEF B
    <3> QED
        BY <2>0, LeastExists
  <2>2. CASE n = 0
    <3>1. Good(0)
        BY <1>2
    <3> QED
        BY <2>1, <2>2, <3>1
  <2>3. CASE n # 0
    <3>1. n \in 1 .. Len(s) /\ n - 1 \in 0 .. Len(s) /\ ~(n <= n - 1) /\ n \in Nat
        BY <1>1, <2>3
    <3>2. Good(n - 1)
        BY <2>1, <3>1
    <3>3. n \in T => s[n] \in E
        BY <1>1, <3>1
    <3> HIDE DEF E, U
    <3>4. Good(n)
      <4>1. CASE n \in T
        <5>1. U[n] = Append(U[n - 1], s[n])
            BY <1>2, <3>1, <4>1
        <5> DEFINE p == U[n - 1]
        <5>2. p \in Seq(E) /\ Len(p) <= n - 1 /\ s[n] \in E
            BY <3>2, <3>3, <4>1
        <5> HIDE DEF p
        <5>3. Append(p, s[n]) \in Seq(E) /\ Len(Append(p, s[n])) = Len(p) + 1
            BY <5>2
        <5> DEFINE l == Len(p)
        <5>4. l \in Nat /\ l <= n - 1
            BY <5>2
        <5> HIDE DEF l
        <5>5. l + 1 <= n
            BY <3>1, <5>4
        <5> QED
            BY <5>1, <5>3, <5>5 DEF p, l
      <4>2. CASE n \notin T
        <5>1. U[n] = U[n - 1]
            BY <1>2, <3>1, <4>2
        <5> DEFINE l == Len(U[n])
        <5>2. U[n] \in Seq(E) /\ l <= n - 1 /\ l \in Nat
            BY <3>2, <5>1
        <5> HIDE DEF l
        <5>3. l <= n
            BY <3>1, <5>2
        <5> QED
            BY <5>2, <5>3 DEF l
      <4> QED
          BY <4>1, <4>2
    <3> QED
        BY <3>4
  <2> QED
      BY <2>2, <2>3
<1>4. Good(Len(s))
    BY <1>1, <1>3
<1> QED
    BY <1>2, <1>4
=============================================================================
