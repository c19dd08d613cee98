----------------------------- MODULE Recursion ------------------------------
(***************************************************************************)
(* Induction and recursion on the natural numbers, in a form that can be   *)
(* cited for one set, or instantiated for one step, at a time.  Nothing    *)
(* here is about the checker.                                              *)
(***************************************************************************)
EXTENDS Integers, WellFoundedInduction, TLAPS

CONSTANTS
    Base(_),        \* where the recursion on s starts
    Step(_, _, _)   \* what it makes, for s and n, of what it has for n - 1

\* A non-empty set of natural numbers has a least one.
LEMMA Least ==
    ASSUME NEW S, S \subseteq Nat, S # {}
    PROVE  \E m \in S : \A n \in S : m <= n
  <1>1. PICK m \in S : \A n \in S : <<n, m>> \notin OpToRel(<, Nat) BY NatLessThanWellFounded, WFMin
  <1>2. \A n \in S : ~(n < m) BY <1>1, Zenon DEF OpToRel
  <1> QED BY <1>2

\* A set that has zero, and with a number the next one, has all.
LEMMA Induction ==
    ASSUME NEW S, 0 \in S, \A n \in Nat : n \in S => n + 1 \in S
    PROVE  Nat \subseteq S
  <1> SUFFICES ASSUME Nat \ S # {} PROVE FALSE OBVIOUS
  <1>1. PICK m \in Nat \ S : \A n \in Nat \ S : m <= n BY Least
  <1>2. m - 1 \in Nat BY <1>1
  <1>3. m - 1 \in S BY <1>1, <1>2
  <1> QED BY <1>1, <1>2, <1>3

Solves(s, m, g) == g = [n \in 0 .. m |-> IF n = 0 THEN Base(s) ELSE Step(s, n, g[n - 1])]

\* What a solution is, place by place.
LEMMA SolvesFacts ==
    ASSUME NEW s, NEW m \in Nat, NEW g, Solves(s, m, g)
    PROVE  g[0] = Base(s) /\ \A n \in 0 .. m - 1 : g[n + 1] = Step(s, n + 1, g[n])
  <1> DEFINE h == [n \in 0 .. m |-> IF n = 0 THEN Base(s) ELSE Step(s, n, g[n - 1])]
  <1>1. g = h BY DEF Solves
  <1>2. h[0] = Base(s) /\ \A n \in 0 .. m - 1 : h[n + 1] = Step(s, n + 1, g[n]) OBVIOUS
  <1> QED BY <1>1, <1>2

\* There is a solution up to every number.
LEMMA SolutionsExist == ASSUME NEW s PROVE \A m \in Nat : \E g : Solves(s, m, g)
  <1> DEFINE S == {m \in Nat : \E g : Solves(s, m, g)}
  <1>1. 0 \in S
    <2> DEFINE g == [n \in 0 .. 0 |-> Base(s)]
    <2>1. Solves(s, 0, g) BY DEF Solves
    <2> QED BY <2>1
  <1>2. ASSUME NEW m \in Nat, m \in S PROVE m + 1 \in S
    <2>1. PICK g : Solves(s, m, g) BY <1>2
    <2> DEFINE h == [n \in 0 .. m + 1 |-> IF n <= m THEN g[n] ELSE Step(s, m + 1, g[m])]
               k == [n \in 0 .. m + 1 |-> IF n = 0 THEN Base(s) ELSE Step(s, n, h[n - 1])]
    <2>2. \A n \in 0 .. m + 1 : h[n] = k[n]
      <3> SUFFICES ASSUME NEW n \in 0 .. m + 1 PROVE h[n] = k[n] OBVIOUS
      <3>1. CASE n = 0 BY <3>1, <2>1, SolvesFacts
      <3>2. CASE n # 0
        <4>1. n - 1 \in 0 .. m /\ k[n] = Step(s, n, h[n - 1]) /\ h[n - 1] = g[n - 1] BY <3>2
        <4>2. CASE n <= m
          <5>1. n - 1 \in 0 .. m - 1 /\ (n - 1) + 1 = n BY <3>2, <4>2
          <5>2. g[n] = Step(s, n, g[n - 1]) BY <2>1, <5>1, SolvesFacts
          <5> QED BY <4>1, <4>2, <5>2
        <4>3. CASE n = m + 1 BY <4>1, <4>3
        <4> QED BY <4>2, <4>3
      <3> QED BY <3>1, <3>2
    <2>3. h = k BY <2>2
    <2>4. Solves(s, m + 1, h) BY <2>3 DEF Solves
    <2> QED BY <2>4
  <1> HIDE DEF S
  <1>3. Nat \subseteq S BY <1>1, <1>2, Induction
  <1> QED BY <1>3 DEF S

\* Solutions agree as far as they go.
LEMMA SolutionsAgree ==
    ASSUME NEW s, NEW m \in Nat, NEW g, Solves(s, m, g), NEW l \in Nat, NEW h, Solves(s, l, h)
    PROVE  \A n \in Nat : n <= m /\ n <= l => g[n] = h[n]
  <1> DEFINE S == {n \in Nat : n <= m /\ n <= l => g[n] = h[n]}
  <1>1. 0 \in S BY SolvesFacts
  <1>2. ASSUME NEW n \in Nat, n \in S PROVE n + 1 \in S
    <2> SUFFICES ASSUME n + 1 <= m, n + 1 <= l PROVE g[n + 1] = h[n + 1] OBVIOUS
    <2>1. n \in 0 .. m - 1 /\ n \in 0 .. l - 1 /\ g[n] = h[n] BY <1>2
    <2>2. g[n + 1] = Step(s, n + 1, g[n]) /\ h[n + 1] = Step(s, n + 1, h[n]) BY <2>1, SolvesFacts
    <2> QED BY <2>1, <2>2
  <1> HIDE DEF S
  <1>3. Nat \subseteq S BY <1>1, <1>2, Induction
  <1> QED BY <1>3 DEF S

\* The equation of a function f[n \in Nat] that is defined by f[n - 1] has a
\* solution, so that the function is one.
THEOREM HasSolution ==
    ASSUME NEW s
    PROVE  \E f : f = [n \in Nat |-> IF n = 0 THEN Base(s) ELSE Step(s, n, f[n - 1])]
  <1> DEFINE G(m) == CHOOSE g : Solves(s, m, g)
             f == [n \in Nat |-> G(n)[n]]
             h == [n \in Nat |-> IF n = 0 THEN Base(s) ELSE Step(s, n, f[n - 1])]
  <1>1. \A m \in Nat : Solves(s, m, G(m)) BY SolutionsExist
  <1> HIDE DEF G
  <1>2. \A n \in Nat : f[n] = h[n]
    <2> SUFFICES ASSUME NEW n \in Nat PROVE f[n] = h[n] OBVIOUS
    <2>1. CASE n = 0 BY <2>1, <1>1, SolvesFacts
    <2>2. CASE n # 0
      <3>1. n - 1 \in Nat /\ n - 1 \in 0 .. n - 1 /\ (n - 1) + 1 = n BY <2>2
      <3>2. Solves(s, n, G(n)) /\ Solves(s, n - 1, G(n - 1)) BY <1>1, <3>1
      <3>3. G(n)[n - 1] = G(n - 1)[n - 1] BY <3>1, <3>2, SolutionsAgree
      <3>4. G(n)[n] = Step(s, n, G(n)[n - 1]) BY <3>1, <3>2, SolvesFacts
      <3> QED BY <2>2, <3>1, <3>3, <3>4
    <2> QED BY <2>1, <2>2
  <1>3. f = h BY <1>2
  <1> QED BY <1>3
=============================================================================
