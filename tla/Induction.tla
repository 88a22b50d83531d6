----------------------------- MODULE Induction ------------------------------
(***************************************************************************)
(* Induction over numbers, with sets and functions in the place of         *)
(* predicates and operators: the least element of a set, and functions     *)
(* that are defined by recursion.                                          *)
(***************************************************************************)
EXTENDS Integers, WellFoundedInduction, TLAPS

\* Less-than on the naturals, as a set of pairs.
LEMMA LessThan ==
    \E R : /\ IsWellFoundedOn(R, Nat)
           /\ \A m, n \in Nat : m < n => <<m, n>> \in R
<1>1. \A m, n \in Nat : m < n => <<m, n>> \in OpToRel(<, Nat)
  BY Zenon DEF OpToRel
<1>. QED BY <1>1, NatLessThanWellFounded, Zenon

\* WFMin with its parameters bound.
LEMMA Minimal ==
    \A R, S, T : IsWellFoundedOn(R, S) /\ T \subseteq S /\ T # {}
                 => \E x \in T : \A y \in T : ~(<<y, x>> \in R)
BY WFMin

\* A set of naturals that is not empty has a least element.
LEMMA Least ==
    ASSUME NEW T, T \subseteq Nat, T # {}
    PROVE  \E n \in T : \A m \in T : n <= m
<1>1. PICK R : /\ IsWellFoundedOn(R, Nat)
               /\ \A m, n \in Nat : m < n => <<m, n>> \in R
  BY LessThan
<1>2. \E n \in T : \A m \in T : ~(<<m, n>> \in R)
  <2>1. ASSUME NEW S, S = Nat PROVE  \E n \in T : \A m \in T : ~(<<m, n>> \in R)
    <3>1. IsWellFoundedOn(R, S) /\ T \subseteq S /\ T # {}
      BY <1>1, <2>1
    <3>. QED BY <3>1, Minimal, Zenon
  <2>. QED BY <2>1
<1>3. PICK n \in T : \A m \in T : ~(<<m, n>> \in R)
  BY <1>2
<1>4. \A m \in T : ~(m < n)
  BY <1>1, <1>3
<1>. QED BY <1>3, <1>4

\* A set of naturals that holds 0 and, with every number, the next one.
LEMMA SetInduction ==
    ASSUME NEW S, 0 \in S, \A n \in S \cap Nat : n + 1 \in S
    PROVE  Nat \subseteq S
<1>. DEFINE T == Nat \ S
<1>1. ASSUME T # {} PROVE FALSE
  <2>1. PICK n \in T : \A m \in T : n <= m
    BY <1>1, Least
  <2>2. n \in Nat /\ n # 0 /\ n - 1 \in Nat /\ n - 1 < n /\ (n - 1) + 1 = n
    OBVIOUS
  <2>3. n - 1 \in S \cap Nat
    BY <2>1, <2>2
  <2>. QED BY <2>2, <2>3
<1>. QED BY <1>1

LEMMA Iterated ==
    ASSUME NEW X, NEW start \in X, NEW step \in [Nat -> [X -> X]]
    PROVE  \E g \in [Nat -> X] : g = [n \in Nat |-> IF n = 0 THEN start ELSE step[n][g[n - 1]]]
<1> DEFINE Good(h, n) == h \in [0..n -> X] /\ h[0] = start /\ \A k \in 1..n : h[k] = step[k][h[k - 1]]
           S == {n \in Nat : \E h \in [0..n -> X] : Good(h, n)}
<1>1. 0 \in S
  <2> DEFINE h == [k \in 0..0 |-> start]
  <2>1. Good(h, 0)
    OBVIOUS
  <2> QED
    BY <2>1
<1>2. ASSUME NEW n \in S PROVE n + 1 \in S
  <2>1. PICK h \in [0..n -> X] : Good(h, n)
    OBVIOUS
  <2> DEFINE e == [k \in 0..n + 1 |-> IF k = n + 1 THEN step[n + 1][h[n]] ELSE h[k]]
  <2>2. n \in Nat /\ n + 1 \in Nat
    OBVIOUS
  <2>3. h[n] \in X /\ step[n + 1][h[n]] \in X
    BY <2>1, <2>2
  <2>4. e \in [0..n + 1 -> X]
    BY <2>1, <2>2, <2>3
  <2>5. ASSUME NEW k \in 1..n + 1 PROVE e[k] = step[k][e[k - 1]]
    BY <2>1, <2>2
  <2>6. e[0] = start
    BY <2>1, <2>2
  <2>7. Good(e, n + 1)
    BY <2>4, <2>5, <2>6
  <2> QED
    BY <2>2, <2>4, <2>7
<1>3. Nat \subseteq S
  <2> HIDE DEF S
  <2> QED
  BY <1>1, <1>2, SetInduction
<1> DEFINE H(n) == CHOOSE h \in [0..n -> X] : Good(h, n)
<1>4. ASSUME NEW n \in Nat PROVE Good(H(n), n)
  <2>1. n \in S
    BY <1>3
  <2>2. \E h \in [0..n -> X] : Good(h, n)
    BY <2>1
  <2> HIDE DEF Good
  <2> QED
  BY <2>2
<1>5. ASSUME NEW n \in Nat, NEW m \in Nat, n <= m PROVE H(n)[n] = H(m)[n]
  <2> DEFINE U == {k \in Nat : k <= n => H(n)[k] = H(m)[k]}
  <2> HIDE DEF H
  <2>1. 0 \in U
    BY <1>4
  <2>2. ASSUME NEW k \in U PROVE k + 1 \in U
    <3>1. k \in Nat
      OBVIOUS
    <3>2. CASE k + 1 <= n
      <4>1. k + 1 \in 1..n /\ k + 1 \in 1..m /\ (k + 1) - 1 = k /\ k <= n
        BY <3>1, <3>2, <1>5
      <4>2. H(n)[k + 1] = step[k + 1][H(n)[k]] /\ H(m)[k + 1] = step[k + 1][H(m)[k]]
        <5>1. Good(H(n), n) /\ Good(H(m), m)
          BY <1>4
        <5> QED
        BY <4>1, <5>1
      <4> QED
        BY <3>1, <4>1, <4>2
    <3> QED
      BY <3>1, <3>2
  <2>3. Nat \subseteq U
    <3> HIDE DEF U
    <3> QED
    BY <2>1, <2>2, SetInduction
  <2>4. n \in U
    BY <2>3
  <2> QED
    BY <2>4
<1> DEFINE g == [n \in Nat |-> H(n)[n]]
<1>6. g \in [Nat -> X]
  <2> HIDE DEF H
  <2> QED
  BY <1>4
<1>7. ASSUME NEW n \in Nat PROVE g[n] = IF n = 0 THEN start ELSE step[n][g[n - 1]]
  <2> HIDE DEF H
  <2>1. CASE n = 0
    BY <1>4, <2>1
  <2>2. CASE n # 0
    <3>1. n - 1 \in Nat /\ n - 1 <= n /\ n \in 1..n
      BY <2>2
    <3>2. H(n)[n] = step[n][H(n)[n - 1]]
      BY <1>4, <3>1
    <3>3. H(n - 1)[n - 1] = H(n)[n - 1]
      BY <1>5, <3>1
    <3> QED
      BY <2>2, <3>1, <3>2, <3>3
  <2> QED
    BY <2>1, <2>2
<1>8. g = [n \in Nat |-> IF n = 0 THEN start ELSE step[n][g[n - 1]]]
  <2> HIDE DEF H
  <2> QED
  BY <1>7
<1> HIDE DEF g
<1> QED
  BY <1>6, <1>8

\* A function defined by recursion over the naturals exists.
Iterates(g, X, start, step) ==
    g \in [Nat -> X] /\ g = [n \in Nat |-> IF n = 0 THEN start ELSE step[n][g[n - 1]]]
LEMMA Iteration ==
    \A X, start, step : start \in X /\ step \in [Nat -> [X -> X]] => \E g : Iterates(g, X, start, step)
BY Iterated DEF Iterates

\* One over an interval too.
IteratesTo(g, X, n, start, step) ==
    g \in [0..n -> X] /\ g = [k \in 0..n |-> IF k = 0 THEN start ELSE step[k][g[k - 1]]]
LEMMA IteratedTo ==
    ASSUME NEW X, NEW n \in Nat, NEW start \in X, NEW step \in [1..n -> [X -> X]]
    PROVE  \E g : IteratesTo(g, X, n, start, step)
<1>. DEFINE all == [k \in Nat |-> IF k \in 1..n THEN step[k] ELSE [x \in X |-> x]]
<1>1. all \in [Nat -> [X -> X]] /\ \A k \in 1..n : all[k] = step[k]
  OBVIOUS
<1>. HIDE DEF all
<1>2. PICK g : Iterates(g, X, start, all)
  BY <1>1, Iteration
<1>. DEFINE h == [k \in 0..n |-> g[k]]
<1>3. g \in [Nat -> X] /\ \A k \in Nat : g[k] = IF k = 0 THEN start ELSE all[k][g[k - 1]]
  BY <1>2 DEF Iterates
<1>4. ASSUME NEW k \in 0..n PROVE h[k] = IF k = 0 THEN start ELSE step[k][h[k - 1]]
  <2>1. CASE k = 0
    BY <1>3, <2>1
  <2>2. CASE k # 0
    <3>1. k \in 1..n /\ k \in Nat /\ k - 1 \in 0..n
      BY <2>2
    <3>2. h[k] = g[k] /\ h[k - 1] = g[k - 1]
      BY <3>1
    <3>. HIDE DEF h
    <3>. QED BY <1>1, <1>3, <2>2, <3>1, <3>2
  <2>. QED BY <2>1, <2>2
<1>5. h \in [0..n -> X]
  BY <1>3
<1>6. h = [k \in 0..n |-> h[k]]
  OBVIOUS
<1>. HIDE DEF h
<1>7. h = [k \in 0..n |-> IF k = 0 THEN start ELSE step[k][h[k - 1]]]
  BY <1>4, <1>6
<1>. QED BY <1>5, <1>7 DEF IteratesTo
LEMMA IterationTo ==
    \A X, n, start, step : n \in Nat /\ start \in X /\ step \in [1..n -> [X -> X]]
                           => \E g : IteratesTo(g, X, n, start, step)
BY IteratedTo
=============================================================================
