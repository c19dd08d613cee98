------------------------ MODULE StructuralRecursion ------------------------
(***************************************************************************)
(* Recursion over data that is built in stages, D[0] = {}, D[1], D[2]...,  *)
(* where what a function does with data of one stage depends on what it    *)
(* does with data of the stage before.  Nothing here is about the checker. *)
(***************************************************************************)
EXTENDS Integers, TLAPS

CONSTANTS Arm(_, _, _)   \* what the function makes of x, for a parameter, given the function

\* The parameter and the stages travel together.
Nothing(p) == [x \in {} |-> 0]
NextStage(p, n, f) == [x \in p[2][n] |-> Arm(p[1], x, f)]

Staged == INSTANCE Recursion WITH Base <- Nothing, Step <- NextStage

\* D[0], D[1], D[2]... are stages.
Grows(D) == D[0] = {} /\ \A n \in Nat : D[n] \subseteq D[n + 1]

\* What is made of one stage depends on the stage before.
Local(s, D) ==
    \A n \in Nat : \A f, g :
        (\A y \in D[n] : f[y] = g[y]) => \A x \in D[n + 1] : Arm(s, x, f) = Arm(s, x, g)

Solvable(s, S) == \E f : f = [x \in S |-> Arm(s, x, f)]

\* The equation of a function on one of the stages has a solution, so that the
\* function is one.
THEOREM HasFold == \A s, D : Grows(D) /\ Local(s, D) => \A m \in Nat : Solvable(s, D[m])
  <1> SUFFICES ASSUME NEW s, NEW D, Grows(D), Local(s, D), NEW m \in Nat
               PROVE  \E f : f = [x \in D[m] |-> Arm(s, x, f)]
    BY DEF Solvable
  <1> USE DEF Grows, Local
  <1> DEFINE p == <<s, D>>
  <1>1. PICK F : F = [n \in Nat |-> IF n = 0 THEN Nothing(p) ELSE NextStage(p, n, F[n - 1])]
    BY Staged!HasSolution
  <1>2. ASSUME NEW n \in Nat PROVE F[n + 1] = [x \in D[n + 1] |-> Arm(s, x, F[n])]
    <2> DEFINE G == [k \in Nat |-> IF k = 0 THEN Nothing(p) ELSE NextStage(p, k, F[k - 1])]
    <2>1. n + 1 \in Nat /\ n + 1 # 0 /\ (n + 1) - 1 = n OBVIOUS
    <2>2. G[n + 1] = NextStage(p, n + 1, F[n]) BY <2>1
    <2>3. F[n + 1] = NextStage(p, n + 1, F[n]) BY <1>1, <2>2
    <2>4. p[1] = s /\ p[2] = D OBVIOUS
    <2> HIDE DEF p
    <2> QED BY <2>3, <2>4 DEF NextStage
  <1> HIDE DEF p
  <1> DEFINE S == {n \in Nat : \A y \in D[n] : F[n][y] = F[n + 1][y]}
  <1>3. 0 \in S OBVIOUS
  <1>4. ASSUME NEW n \in Nat, n \in S PROVE n + 1 \in S
    <2> SUFFICES ASSUME NEW y \in D[n + 1] PROVE F[n + 1][y] = F[(n + 1) + 1][y] OBVIOUS
    <2>1. y \in D[(n + 1) + 1] /\ n + 1 \in Nat OBVIOUS
    <2>2. F[n + 1][y] = Arm(s, y, F[n]) BY <1>2
    <2>3. F[(n + 1) + 1][y] = Arm(s, y, F[n + 1])
      <3>1. F[(n + 1) + 1] = [x \in D[(n + 1) + 1] |-> Arm(s, x, F[n + 1])] BY <1>2, <2>1
      <3> QED BY <2>1, <3>1
    <2>4. \A z \in D[n] : F[n][z] = F[n + 1][z] BY <1>4
    <2>5. Arm(s, y, F[n]) = Arm(s, y, F[n + 1]) BY <2>4
    <2> QED BY <2>2, <2>3, <2>5
  <1>5. Nat \subseteq S
    <2> HIDE DEF S
    <2> QED BY <1>3, <1>4, Staged!Induction
  <1>6. CASE m = 0
    <2>1. [x \in D[m] |-> Arm(s, x, Nothing(p))] = Nothing(p) BY <1>6 DEF Nothing
    <2> QED BY <2>1
  <1>7. CASE m # 0
    <2>1. PICK n \in Nat : m = n + 1 BY <1>7
    <2>2. F[m] = [x \in D[m] |-> Arm(s, x, F[n])] BY <1>2, <2>1
    <2>3. \A y \in D[n] : F[n][y] = F[m][y] BY <1>5, <2>1
    <2>4. \A x \in D[m] : Arm(s, x, F[n]) = Arm(s, x, F[m]) BY <2>1, <2>3
    <2>5. [x \in D[m] |-> Arm(s, x, F[n])] = [x \in D[m] |-> Arm(s, x, F[m])] BY <2>4
    <2>6. F[m] = [x \in D[m] |-> Arm(s, x, F[m])] BY <2>2, <2>5
    <2> QED BY <2>6
  <1> QED BY <1>6, <1>7
=============================================================================
