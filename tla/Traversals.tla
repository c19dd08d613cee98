----------------------------- MODULE Traversals -----------------------------
(***************************************************************************)
(* Expressions up to a depth, going through one, and what is at the head   *)
(* of one: a telescope of binders or a spine of applications.              *)
(***************************************************************************)
EXTENDS ExprNodes

CONSTANTS
    ExprDepth    \* bound on how deep expressions nest, those on the way included

ASSUME ExprDepthAssumption == ExprDepth \in Nat \ {0}

ExprsOver(parts) ==
    ({"var"} \X Nat) \cup ({"sort"} \X Level) \cup ({"const"} \X STRING \X Seq(Level))
    \cup ({"app", "pi", "lam"} \X parts \X parts) \cup ({"let"} \X parts \X parts \X parts)
    \cup ({"proj"} \X Nat \X parts) \cup ({"local"} \X {"dbj", "unique"} \X Nat \X parts)

\* The expressions of depth up to n, the type of a local counting.
ExprsTo[n \in Nat] == IF n = 0 THEN {} ELSE UNION {ExprsOver(parts) : parts \in {ExprsTo[n - 1]}}

-----------------------------------------------------------------------------
(* Traversals.                                                             *)

\* e with every leaf replaced, leaf being a function of the leaf and of the
\* offset, which counts the binders it is under.
TraverseArm(leaf, x, T) ==
    LET e == x[1] IN
    IF Children(e) = {} THEN leaf[x]
    ELSE [i \in DOMAIN e |-> IF i \in Children(e) THEN T[<<e[i], Below(e, i, x[2])>>] ELSE e[i]]

Traverse(leaf, e, offset) ==
    LET T[x \in ExprsTo[ExprDepth] \X Nat] == TraverseArm(leaf, x, T) IN T[<<e, offset>>]

-----------------------------------------------------------------------------
(* Telescopes and spines.                                                  *)

\* The i-th component of e, and of that, k times.
Down(e, i) == LET D[k \in Nat] == IF k = 0 THEN e ELSE D[k - 1][i] IN D

\* How often that goes through a node with the tag.
RunLength(e, i, tag) ==
    CHOOSE k \in 0 .. ExprDepth : (\A j \in 0 .. k - 1 : Down(e, i)[j][1] = tag) /\ Down(e, i)[k][1] # tag

BinderTypes(e, n) == [i \in 1 .. n |-> Down(e, 3)[i - 1][2]]

MkLocal(how, n, t) == IF how = "dbj" THEN DbjLevel(n, t) ELSE Unique(n, t)

Args(e, n) == [i \in 1 .. n |-> Down(e, 2)[n - i][3]]

Applied(f, args) == LET A[k \in Nat] == IF k = 0 THEN f ELSE App(A[k - 1], args[k]) IN A[Len(args)]
=============================================================================
