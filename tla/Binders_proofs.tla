--------------------------- MODULE Binders_proofs ---------------------------
(***************************************************************************)
(* Proofs about Binders and Exprs for every set of starting terms, every   *)
(* constant and every bound on the depth.  Of Binders: what is at hand     *)
(* stands for the textbook's term, and every local in it is one of those   *)
(* that are open.  Of Exprs: the code's traversals, with what they skip    *)
(* and with their caches, do what those of Binders do, so that Exprs       *)
(* implements Binders.                                                     *)
(*                                                                         *)
(* Expressions come in stages, so that an induction on the stage is an     *)
(* induction on expressions.  The laws of traversals are proved once, for  *)
(* any treatment of the leaves; the laws of instantiating, abstracting,    *)
(* shifting and substituting follow from them by a look at one leaf.  A    *)
(* traversal with a cache is done with the sites below one before it is    *)
(* done with that one, so that an induction on how many it is done with    *)
(* has every answer it needs.                                              *)
(***************************************************************************)
EXTENDS Exprs, TLAPS

-----------------------------------------------------------------------------
(* Nodes.                                                                  *)

Node(e, P) ==
    /\ e = [i \in DOMAIN e |-> e[i]]
    /\ 1 \in DOMAIN e /\ 1 \notin Children(e)
    /\ \A i \in Children(e) : i \in DOMAIN e /\ e[i] \in P
    /\ IsLocal(e) => e[4] \in P

\* A node is a function, and its children are of the stage before.
LEMMA NodeParts == ASSUME NEW P, NEW e \in ExprsOver(P) PROVE Node(e, P)
  <1> USE DEF Node, Children, IsLocal
  <1>1. CASE e \in {"var"} \X Nat BY <1>1
  <1>2. CASE e \in {"sort"} \X Level BY <1>2
  <1>3. CASE e \in {"const"} \X STRING \X Seq(Level) BY <1>3
  <1>4. CASE e \in {"app", "pi", "lam"} \X P \X P BY <1>4
  <1>5. CASE e \in {"let"} \X P \X P \X P BY <1>5
  <1>6. CASE e \in {"proj"} \X Nat \X P BY <1>6
  <1>7. CASE e \in {"local"} \X {"dbj", "unique"} \X Nat \X P BY <1>7
  <1> QED BY <1>1, <1>2, <1>3, <1>4, <1>5, <1>6, <1>7 DEF ExprsOver

With(e, c) == [i \in DOMAIN e |-> IF i \in Children(e) THEN c[i] ELSE e[i]]

\* Other children make a node of the same kind.
LEMMA NodeMade ==
    ASSUME NEW P, NEW Q, NEW e \in ExprsOver(P), Children(e) # {}, NEW c
    PROVE  /\ (\A i \in Children(e) : c[i] \in Q) => With(e, c) \in ExprsOver(Q)
           /\ DOMAIN With(e, c) = DOMAIN e /\ With(e, c)[1] = e[1]
           /\ \A i \in Children(e) : With(e, c)[i] = c[i]
  <1>0. DOMAIN With(e, c) = DOMAIN e /\ With(e, c)[1] = e[1] /\ \A i \in Children(e) : With(e, c)[i] = c[i]
    BY NodeParts DEF With, Node
  <1> SUFFICES ASSUME \A i \in Children(e) : c[i] \in Q PROVE With(e, c) \in ExprsOver(Q) BY <1>0
  <1> USE DEF With, Children
  <1>4. CASE e \in {"app", "pi", "lam"} \X P \X P
    <2>1. With(e, c) = <<e[1], c[2], c[3]>> BY <1>4
    <2> QED BY <1>4, <2>1 DEF ExprsOver
  <1>5. CASE e \in {"let"} \X P \X P \X P 
    <2>1. With(e, c) = <<e[1], c[2], c[3], c[4]>> BY <1>5
    <2> QED BY <1>5, <2>1 DEF ExprsOver
  <1>6. CASE e \in {"proj"} \X Nat \X P
    <2>1. With(e, c) = <<e[1], e[2], c[3]>> BY <1>6
    <2> QED BY <1>6, <2>1 DEF ExprsOver
  <1>7. CASE e[1] \in {"var", "sort", "const", "local"} BY <1>7
  <1> QED BY <1>4, <1>5, <1>6, <1>7 DEF ExprsOver

-----------------------------------------------------------------------------
(* Expressions come in stages.                                             *)

Expr == ExprsTo[ExprDepth]

NoExprs(s) == {}
NextExprs(s, n, parts) == ExprsOver(parts)

Stages == INSTANCE Recursion WITH Base <- NoExprs, Step <- NextExprs

\* One stage is made of the one before.
LEMMA StageFacts == ExprsTo[0] = {} /\ \A n \in Nat : ExprsTo[n + 1] = ExprsOver(ExprsTo[n])
  <1> DEFINE F(f) == [n \in Nat |-> IF n = 0 THEN {} ELSE ExprsOver(f[n - 1])]
             G(f) == [n \in Nat |-> IF n = 0 THEN {} ELSE UNION {ExprsOver(parts) : parts \in {f[n - 1]}}]
  <1>1. \E f : f = [n \in Nat |-> IF n = 0 THEN NoExprs(0) ELSE NextExprs(0, n, f[n - 1])]
    BY Stages!HasSolution
  <1>2. \E f : f = F(f) BY <1>1 DEF NoExprs, NextExprs
  <1>3. \A p : UNION {ExprsOver(parts) : parts \in {p}} = ExprsOver(p) OBVIOUS
  <1>4. \A f : F(f) = G(f) BY <1>3
  <1>5. ExprsTo = CHOOSE f : f = G(f) BY DEF ExprsTo
  <1>6. ExprsTo = G(ExprsTo)
    <2> HIDE DEF F, G
    <2> QED BY <1>2, <1>4, <1>5
  <1>7. ExprsTo = F(ExprsTo) BY <1>4, <1>6
  <1>8. F(ExprsTo)[0] = {} OBVIOUS
  <1>9. ASSUME NEW n \in Nat PROVE F(ExprsTo)[n + 1] = ExprsOver(ExprsTo[n])
    <2>1. n + 1 \in Nat /\ n + 1 # 0 /\ (n + 1) - 1 = n OBVIOUS
    <2> QED BY <2>1
  <1> HIDE DEF F
  <1> QED BY <1>7, <1>8, <1>9

\* More parts make more expressions.
LEMMA OverGrows == ASSUME NEW P, NEW Q, P \subseteq Q PROVE ExprsOver(P) \subseteq ExprsOver(Q)
  BY DEF ExprsOver

\* Stages only grow.
LEMMA StagesGrow == \A n \in Nat : ExprsTo[n] \subseteq ExprsTo[n + 1]
  <1> DEFINE S == {n \in Nat : ExprsTo[n] \subseteq ExprsTo[n + 1]}
  <1>1. 0 \in S BY StageFacts
  <1>2. ASSUME NEW n \in Nat, n \in S PROVE n + 1 \in S
    <2>1. PICK m \in Nat : m = n + 1 OBVIOUS
    <2>2. ExprsTo[n] \subseteq ExprsTo[m] BY <1>2, <2>1
    <2>3. ExprsTo[m] = ExprsOver(ExprsTo[n]) /\ ExprsTo[m + 1] = ExprsOver(ExprsTo[m]) BY <2>1, StageFacts
    <2> QED BY <2>1, <2>2, <2>3, OverGrows
  <1> HIDE DEF S
  <1>3. Nat \subseteq S BY <1>1, <1>2, Stages!Induction
  <1> QED BY <1>3 DEF S

\* Expressions are nodes of earlier stages, and these are expressions too.
LEMMA ExprsAreNodes ==
    \E n \in Nat : Expr = ExprsOver(ExprsTo[n]) /\ ExprsTo[n] \subseteq Expr /\ ExprDepth = n + 1
  <1>1. PICK n \in Nat : ExprDepth = n + 1
    <2>1. ExprDepth - 1 \in Nat /\ ExprDepth = (ExprDepth - 1) + 1 BY ExprDepthAssumption
    <2> QED BY <2>1
  <1> QED BY <1>1, StageFacts, StagesGrow DEF Expr

\* A part of an expression is one.
LEMMA ExprParts == ASSUME NEW e \in Expr PROVE Node(e, Expr)
  <1>1. PICK n \in Nat : Expr = ExprsOver(ExprsTo[n]) /\ ExprsTo[n] \subseteq Expr BY ExprsAreNodes
  <1>2. Node(e, ExprsTo[n]) BY <1>1, NodeParts
  <1> QED BY <1>1, <1>2 DEF Node

\* Every stage up to the bound is of expressions.
LEMMA StagesAreExprs == \A n \in 0 .. ExprDepth : ExprsTo[n] \subseteq Expr
  <1> DEFINE S == {k \in Nat : k <= ExprDepth => ExprsTo[ExprDepth - k] \subseteq Expr}
  <1>1. 0 \in S BY ExprDepthAssumption DEF Expr
  <1>2. ASSUME NEW k \in Nat, k \in S PROVE k + 1 \in S
    <2> SUFFICES ASSUME k + 1 <= ExprDepth PROVE ExprsTo[ExprDepth - (k + 1)] \subseteq Expr OBVIOUS
    <2>1. PICK m \in Nat : m = ExprDepth - (k + 1) BY ExprDepthAssumption
    <2>2. m + 1 = ExprDepth - k /\ k <= ExprDepth BY <2>1, ExprDepthAssumption
    <2>3. ExprsTo[m] \subseteq ExprsTo[m + 1] BY StagesGrow
    <2> QED BY <1>2, <2>1, <2>2, <2>3
  <1> HIDE DEF S
  <1>3. Nat \subseteq S BY <1>1, <1>2, Stages!Induction
  <1>4. ASSUME NEW n \in 0 .. ExprDepth PROVE ExprsTo[n] \subseteq Expr
    <2>1. ExprDepth - n \in S /\ ExprDepth - (ExprDepth - n) = n BY <1>3, ExprDepthAssumption
    <2>2. ExprDepth - n <= ExprDepth BY ExprDepthAssumption
    <2> QED BY <2>1, <2>2 DEF S
  <1> QED BY <1>4

\* What holds of every stage if of the one before, holds of all expressions.
LEMMA StageInduction ==
    ASSUME NEW S,
           \A n \in Nat : ExprsTo[n] \subseteq Expr /\ ExprsTo[n + 1] \subseteq Expr /\ ExprsTo[n] \subseteq S
                          => ExprsTo[n + 1] \subseteq S
    PROVE  Expr \subseteq S
  <1> DEFINE T == {n \in Nat : n <= ExprDepth => ExprsTo[n] \subseteq S}
  <1>1. 0 \in T BY StageFacts
  <1>2. ASSUME NEW n \in Nat, n \in T PROVE n + 1 \in T
    <2> SUFFICES ASSUME n + 1 <= ExprDepth PROVE ExprsTo[n + 1] \subseteq S OBVIOUS
    <2>1. n \in 0 .. ExprDepth /\ n + 1 \in 0 .. ExprDepth BY ExprDepthAssumption
    <2>2. ExprsTo[n] \subseteq S /\ ExprsTo[n] \subseteq Expr /\ ExprsTo[n + 1] \subseteq Expr BY <1>2, <2>1, StagesAreExprs
    <2> QED BY <2>2
  <1> HIDE DEF T
  <1>3. Nat \subseteq T BY <1>1, <1>2, Stages!Induction
  <1>4. ExprDepth \in T BY <1>3, ExprDepthAssumption
  <1> QED BY <1>4, ExprDepthAssumption DEF T, Expr

\* What holds of every node of whose children it holds, holds of all.
LEMMA ExprInduction ==
    ASSUME NEW S, \A e \in Expr : (\A i \in Children(e) : e[i] \in S) => e \in S
    PROVE  Expr \subseteq S
  <1>1. ASSUME NEW n \in Nat, ExprsTo[n] \subseteq S, ExprsTo[n + 1] \subseteq Expr, NEW e \in ExprsTo[n + 1]
        PROVE  e \in S
    <2>1. Node(e, ExprsTo[n]) BY StageFacts, NodeParts
    <2> QED BY <1>1, <2>1 DEF Node
  <1> QED BY <1>1, StageInduction

-----------------------------------------------------------------------------
(* What is defined by recursion on an expression.                          *)

OfLeaves(s, x, f) == LeavesArm(x, f)

Traversing == INSTANCE StructuralRecursion WITH Arm <- TraverseArm
Gathering == INSTANCE StructuralRecursion WITH Arm <- OfLeaves

Sites == [n \in Nat |-> ExprsTo[n] \X Nat]

\* The stages of the pairs of an expression and an offset grow, and the last has all.
LEMMA SitesGrow ==
    /\ Sites[0] = {} /\ \A n \in Nat : Sites[n] \subseteq Sites[n + 1]
    /\ Sites[ExprDepth] = Expr \X Nat
  BY StageFacts, StagesGrow, ExprDepthAssumption DEF Sites, Expr

\* The children of a node are at sites of the stage before.
LEMMA SiteParts ==
    ASSUME NEW n \in Nat, NEW x \in Sites[n + 1]
    PROVE  \A i \in Children(x[1]) : <<x[1][i], Below(x[1], i, x[2])>> \in Sites[n]
  <1>1. x \in ExprsTo[n + 1] \X Nat /\ Sites[n] = ExprsTo[n] \X Nat BY DEF Sites
  <1>2. Node(x[1], ExprsTo[n]) /\ x[2] \in Nat BY <1>1, StageFacts, NodeParts
  <1>3. \A i : Below(x[1], i, x[2]) \in Nat BY <1>2 DEF Below
  <1> QED BY <1>1, <1>2, <1>3 DEF Node

\* Traverse, node by node.
LEMMA TraverseUnfolds ==
    ASSUME NEW leaf, NEW e \in Expr, NEW o \in Nat
    PROVE  /\ Children(e) = {} => Traverse(leaf, e, o) = leaf[<<e, o>>]
           /\ Children(e) # {} =>
                \E c : /\ Traverse(leaf, e, o) = With(e, c)
                       /\ \A i \in Children(e) : c[i] = Traverse(leaf, e[i], Below(e, i, o))
  <1> DEFINE F(f) == [x \in Expr \X Nat |-> TraverseArm(leaf, x, f)]
             I == CHOOSE f : f = F(f)
  <1>1. Traversing!Local(leaf, Sites)
    <2> SUFFICES ASSUME NEW n \in Nat, NEW f, NEW g, \A y \in Sites[n] : f[y] = g[y], NEW x \in Sites[n + 1]
                 PROVE  TraverseArm(leaf, x, f) = TraverseArm(leaf, x, g)
      BY DEF Traversing!Local
    <2>1. \A i \in Children(x[1]) : f[<<x[1][i], Below(x[1], i, x[2])>>] = g[<<x[1][i], Below(x[1], i, x[2])>>]
      BY SiteParts
    <2> QED BY <2>1 DEF TraverseArm
  <1>2. Traversing!Solvable(leaf, Expr \X Nat)
    <2>1. Traversing!Solvable(leaf, Sites[ExprDepth])
      BY <1>1, SitesGrow, ExprDepthAssumption, Traversing!HasFold DEF Traversing!Grows
    <2> QED BY <2>1, SitesGrow
  <1>3. I = F(I) BY <1>2 DEF Traversing!Solvable
  <1>4. \A y, k : Traverse(leaf, y, k) = I[<<y, k>>] BY DEF Traverse, Expr
  <1> HIDE DEF I
  <1>5. I[<<e, o>>] = TraverseArm(leaf, <<e, o>>, I) BY <1>3
  <1>6. CASE Children(e) = {} BY <1>4, <1>5, <1>6 DEF TraverseArm
  <1>7. CASE Children(e) # {}
    <2> DEFINE c == [i \in Children(e) |-> I[<<e[i], Below(e, i, o)>>]]
    <2>1. I[<<e, o>>] = With(e, c) BY <1>5, <1>7 DEF TraverseArm, With
    <2>2. \A i \in Children(e) : c[i] = Traverse(leaf, e[i], Below(e, i, o)) BY <1>4
    <2> HIDE DEF c
    <2> QED BY <1>4, <1>7, <2>1, <2>2
  <1> QED BY <1>6, <1>7

\* LeavesAt, node by node.
LEMMA LeavesUnfold ==
    ASSUME NEW e \in Expr, NEW o \in Nat
    PROVE  LeavesAt(e, o) =
             IF Children(e) = {} THEN {<<e, o>>} ELSE UNION {LeavesAt(e[i], Below(e, i, o)) : i \in Children(e)}
  <1> DEFINE F(f) == [x \in Expr \X Nat |-> LeavesArm(x, f)]
             I == CHOOSE f : f = F(f)
  <1>1. Gathering!Local(0, Sites)
    <2> SUFFICES ASSUME NEW n \in Nat, NEW f, NEW g, \A y \in Sites[n] : f[y] = g[y], NEW x \in Sites[n + 1]
                 PROVE  LeavesArm(x, f) = LeavesArm(x, g)
      BY DEF Gathering!Local, OfLeaves
    <2>1. \A i \in Children(x[1]) : f[<<x[1][i], Below(x[1], i, x[2])>>] = g[<<x[1][i], Below(x[1], i, x[2])>>]
      BY SiteParts
    <2>2. {f[<<x[1][i], Below(x[1], i, x[2])>>] : i \in Children(x[1])}
            = {g[<<x[1][i], Below(x[1], i, x[2])>>] : i \in Children(x[1])}
      BY <2>1
    <2> QED BY <2>2 DEF LeavesArm
  <1>2. Gathering!Solvable(0, Expr \X Nat)
    <2>1. Gathering!Solvable(0, Sites[ExprDepth])
      BY <1>1, SitesGrow, ExprDepthAssumption, Gathering!HasFold DEF Gathering!Grows
    <2> QED BY <2>1, SitesGrow
  <1>3. I = F(I) BY <1>2 DEF Gathering!Solvable, OfLeaves
  <1>4. \A y, k : LeavesAt(y, k) = I[<<y, k>>] BY DEF LeavesAt, Expr
  <1> HIDE DEF I
  <1>5. I[<<e, o>>] = LeavesArm(<<e, o>>, I) BY <1>3
  <1> QED BY <1>4, <1>5 DEF LeavesArm

\* Leaves are at hand, and nodes have the leaves of their children.
LEMMA LeavesAtLeaf == ASSUME NEW e \in Expr, NEW o \in Nat, Children(e) = {} PROVE LeavesAt(e, o) = {<<e, o>>}
  BY LeavesUnfold

\* The leaves of a node are those of its children, which are expressions.
LEMMA LeavesAtNode ==
    ASSUME NEW e \in Expr, NEW o \in Nat, Children(e) # {}
    PROVE  /\ \A x : x \in LeavesAt(e, o) <=> \E i \in Children(e) : x \in LeavesAt(e[i], Below(e, i, o))
           /\ \A i \in Children(e) : e[i] \in Expr /\ Below(e, i, o) \in Nat /\ Below(e, i, o) >= o
  <1>1. \A x : x \in LeavesAt(e, o) <=> \E i \in Children(e) : x \in LeavesAt(e[i], Below(e, i, o))
    BY LeavesUnfold
  <1>2. \A i \in Children(e) : e[i] \in Expr /\ Below(e, i, o) \in Nat /\ Below(e, i, o) >= o
    BY ExprParts DEF Node, Below
  <1> QED BY <1>1, <1>2

\* What is below a node moves with the node.
LEMMA BelowMoves == ASSUME NEW e, NEW i, NEW o \in Nat, NEW c \in Nat PROVE Below(e, i, o + c) = Below(e, i, o) + c
  BY DEF Below

\* What a traversal makes of a node is a node of the same kind.
SameKind(r, e) ==
    /\ r[1] = e[1] /\ DOMAIN r = DOMAIN e /\ Children(r) = Children(e)
    /\ \A i, o : Below(r, i, o) = Below(e, i, o)

\* Other children change nothing else of a node.
LEMMA WithSameKind ==
    ASSUME NEW e \in Expr, Children(e) # {}, NEW c
    PROVE  SameKind(With(e, c), e) /\ \A i \in Children(e) : With(e, c)[i] = c[i]
  <1>1. PICK n \in Nat : Expr = ExprsOver(ExprsTo[n]) BY ExprsAreNodes
  <1>2. DOMAIN With(e, c) = DOMAIN e /\ With(e, c)[1] = e[1] /\ \A i \in Children(e) : With(e, c)[i] = c[i]
    BY <1>1, NodeMade
  <1> QED BY <1>2 DEF SameKind, Children, Below, IsBinder

\* A traversal does to a leaf what it does to leaves.
LEMMA AtLeaf == ASSUME NEW leaf, NEW e \in Expr, NEW o \in Nat, Children(e) = {} PROVE Traverse(leaf, e, o) = leaf[<<e, o>>]
  BY TraverseUnfolds

\* The children a traversal gives to a node.
Made(leaf, e, o, c) ==
    /\ Traverse(leaf, e, o) = With(e, c)
    /\ \A i \in Children(e) : c[i] = Traverse(leaf, e[i], Below(e, i, o))
    /\ SameKind(With(e, c), e) /\ \A i \in Children(e) : With(e, c)[i] = c[i]

\* A traversal of a node makes the same node of the traversed children.
LEMMA AtNode ==
    ASSUME NEW leaf, NEW e \in Expr, NEW o \in Nat, Children(e) # {}
    PROVE  \E c : Made(leaf, e, o, c)
  <1>1. PICK c : Traverse(leaf, e, o) = With(e, c) /\ \A i \in Children(e) : c[i] = Traverse(leaf, e[i], Below(e, i, o))
    BY TraverseUnfolds
  <1> QED BY <1>1, WithSameKind DEF Made

\* The same, child by child.
LEMMA TraverseNode ==
    ASSUME NEW leaf, NEW e \in Expr, NEW o \in Nat, Children(e) # {}
    PROVE  /\ SameKind(Traverse(leaf, e, o), e)
           /\ \A i \in Children(e) : Traverse(leaf, e, o)[i] = Traverse(leaf, e[i], Below(e, i, o))
  <1>1. PICK c : Made(leaf, e, o, c) BY AtNode
  <1> QED BY <1>1 DEF Made

\* Nodes of a kind are equal if their children are.
LEMMA EqualNodes ==
    ASSUME NEW e, NEW c, NEW d, \A i \in Children(e) : c[i] = d[i]
    PROVE  With(e, c) = With(e, d)
  BY DEF With

\* A node is made of its own children.
LEMMA OwnChildren == ASSUME NEW e \in Expr PROVE With(e, e) = e
  BY ExprParts DEF With, Node

-----------------------------------------------------------------------------
(* Laws of traversals.                                                     *)

\* Two traversals that do the same with every leaf are the same.
Alike(f, g, c, d, e, o) == \A x \in LeavesAt(e, o) : f[<<x[1], x[2] + c>>] = g[<<x[1], x[2] + d>>]

\* Two traversals that treat every leaf of e alike make the same of e.
LEMMA Congruence ==
    ASSUME NEW f, NEW g, NEW c \in Nat, NEW d \in Nat, NEW e \in Expr, NEW o \in Nat, Alike(f, g, c, d, e, o)
    PROVE  Traverse(f, e, o + c) = Traverse(g, e, o + d)
  <1> USE DEF Alike
  <1> DEFINE Same(y, k) == Alike(f, g, c, d, y, k)
             S == {y \in Expr : \A k \in Nat : Same(y, k) => Traverse(f, y, k + c) = Traverse(g, y, k + d)}
  <1>1. ASSUME NEW y \in Expr, \A i \in Children(y) : y[i] \in S PROVE y \in S
    <2> SUFFICES ASSUME NEW k \in Nat, Same(y, k) PROVE Traverse(f, y, k + c) = Traverse(g, y, k + d)
      OBVIOUS
    <2>0. k + c \in Nat /\ k + d \in Nat OBVIOUS
    <2>1. CASE Children(y) = {}
      <3>1. LeavesAt(y, k) = {<<y, k>>} BY <2>1, LeavesAtLeaf
      <3>2. f[<<y, k + c>>] = g[<<y, k + d>>] BY <3>1
      <3>3. Traverse(f, y, k + c) = f[<<y, k + c>>] BY <2>0, <2>1, AtLeaf
      <3>4. Traverse(g, y, k + d) = g[<<y, k + d>>] BY <2>0, <2>1, AtLeaf
      <3> QED BY <3>2, <3>3, <3>4
    <2>2. CASE Children(y) # {}
      <3>1. PICK p : Made(f, y, k + c, p) BY <2>0, <2>2, AtNode
      <3>2. PICK q : Made(g, y, k + d, q) BY <2>0, <2>2, AtNode
      <3>3. ASSUME NEW i \in Children(y) PROVE p[i] = q[i]
        <4>1. Below(y, i, k + c) = Below(y, i, k) + c /\ Below(y, i, k + d) = Below(y, i, k) + d BY BelowMoves
        <4>2. Same(y[i], Below(y, i, k)) /\ Below(y, i, k) \in Nat BY <2>2, LeavesAtNode
        <4>3. Traverse(f, y[i], Below(y, i, k) + c) = Traverse(g, y[i], Below(y, i, k) + d) BY <1>1, <4>2
        <4> QED BY <3>1, <3>2, <4>1, <4>3 DEF Made
      <3> QED BY <3>1, <3>2, <3>3, EqualNodes DEF Made
    <2> QED BY <2>1, <2>2
  <1> HIDE DEF S
  <1>2. Expr \subseteq S BY <1>1, ExprInduction
  <1> QED BY <1>2 DEF S

\* A traversal that keeps every leaf keeps the expression.
LEMMA Identity ==
    ASSUME NEW f, NEW e \in Expr, NEW o \in Nat, \A x \in LeavesAt(e, o) : f[x] = x[1]
    PROVE  Traverse(f, e, o) = e
  <1> DEFINE S == {y \in Expr : \A k \in Nat : (\A x \in LeavesAt(y, k) : f[x] = x[1]) => Traverse(f, y, k) = y}
  <1>1. ASSUME NEW y \in Expr, \A i \in Children(y) : y[i] \in S PROVE y \in S
    <2> SUFFICES ASSUME NEW k \in Nat, \A x \in LeavesAt(y, k) : f[x] = x[1] PROVE Traverse(f, y, k) = y
      OBVIOUS
    <2>1. CASE Children(y) = {}
      <3>1. LeavesAt(y, k) = {<<y, k>>} BY <2>1, LeavesAtLeaf
      <3>2. Traverse(f, y, k) = f[<<y, k>>] BY <2>1, AtLeaf
      <3> QED BY <3>1, <3>2
    <2>2. CASE Children(y) # {}
      <3>1. PICK c : Made(f, y, k, c) BY <2>2, AtNode
      <3>2. ASSUME NEW i \in Children(y) PROVE c[i] = y[i]
        <4>1. Below(y, i, k) \in Nat /\ \A x \in LeavesAt(y[i], Below(y, i, k)) : f[x] = x[1] BY <2>2, LeavesAtNode
        <4> QED BY <1>1, <3>1, <4>1 DEF Made
      <3> QED BY <3>1, <3>2, EqualNodes, OwnChildren DEF Made
    <2> QED BY <2>1, <2>2
  <1> HIDE DEF S
  <1>2. Expr \subseteq S BY <1>1, ExprInduction
  <1> QED BY <1>2 DEF S

\* Counting from a higher offset moves that of every leaf.
LEMMA Offsets ==
    ASSUME NEW e \in Expr, NEW o \in Nat, NEW c \in Nat
    PROVE  \A x : x \in LeavesAt(e, o + c) <=> \E y \in LeavesAt(e, o) : x = <<y[1], y[2] + c>>
  <1> DEFINE S == {z \in Expr : \A k \in Nat : \A x :
                     x \in LeavesAt(z, k + c) <=> \E y \in LeavesAt(z, k) : x = <<y[1], y[2] + c>>}
  <1>1. ASSUME NEW z \in Expr, \A i \in Children(z) : z[i] \in S PROVE z \in S
    <2> SUFFICES ASSUME NEW k \in Nat, NEW x
                 PROVE  x \in LeavesAt(z, k + c) <=> \E y \in LeavesAt(z, k) : x = <<y[1], y[2] + c>>
      OBVIOUS
    <2>0. k + c \in Nat OBVIOUS
    <2>1. CASE Children(z) = {}
      <3>1. LeavesAt(z, k) = {<<z, k>>} /\ LeavesAt(z, k + c) = {<<z, k + c>>} BY <2>0, <2>1, LeavesAtLeaf
      <3> QED BY <3>1
    <2>2. CASE Children(z) # {}
      <3>1. /\ \A w : w \in LeavesAt(z, k) <=> \E i \in Children(z) : w \in LeavesAt(z[i], Below(z, i, k))
            /\ \A i \in Children(z) : z[i] \in Expr /\ Below(z, i, k) \in Nat
        BY <2>2, LeavesAtNode
      <3>2. x \in LeavesAt(z, k + c) <=> \E i \in Children(z) : x \in LeavesAt(z[i], Below(z, i, k + c))
        BY <2>0, <2>2, LeavesAtNode
      <3>4. \A i \in Children(z) :
               x \in LeavesAt(z[i], Below(z, i, k + c)) <=> \E y \in LeavesAt(z[i], Below(z, i, k)) : x = <<y[1], y[2] + c>>
        BY <1>1, <3>1, BelowMoves
      <3> QED BY <3>1, <3>2, <3>4
    <2> QED BY <2>1, <2>2
  <1> HIDE DEF S
  <1>2. Expr \subseteq S BY <1>1, ExprInduction
  <1> QED BY <1>2 DEF S

\* A leaf has no children, is an expression and is at least as deep as counting
\* begins.
LEMMA LeavesAreLeaves ==
    ASSUME NEW e \in Expr, NEW o \in Nat
    PROVE  \A x \in LeavesAt(e, o) : /\ x = <<x[1], x[2]>> /\ x[1] \in Expr /\ Children(x[1]) = {}
                                     /\ x[2] \in Nat /\ x[2] >= o
  <1> DEFINE L(x, k) == /\ x = <<x[1], x[2]>> /\ x[1] \in Expr /\ Children(x[1]) = {}
                        /\ x[2] \in Nat /\ x[2] >= k
             S == {z \in Expr : \A k \in Nat : \A x \in LeavesAt(z, k) : L(x, k)}
  <1>1. ASSUME NEW z \in Expr, \A i \in Children(z) : z[i] \in S PROVE z \in S
    <2> SUFFICES ASSUME NEW k \in Nat, NEW x \in LeavesAt(z, k) PROVE L(x, k)
      OBVIOUS
    <2>1. CASE Children(z) = {}
      <3>1. x = <<z, k>> BY <2>1, LeavesAtLeaf
      <3> QED BY <2>1, <3>1
    <2>2. CASE Children(z) # {}
      <3>1. PICK i \in Children(z) : x \in LeavesAt(z[i], Below(z, i, k)) BY <2>2, LeavesAtNode
      <3>2. Below(z, i, k) \in Nat /\ Below(z, i, k) >= k BY <2>2, <3>1, LeavesAtNode
      <3>3. L(x, Below(z, i, k)) BY <1>1, <3>1, <3>2
      <3> QED BY <3>2, <3>3
    <2> QED BY <2>1, <2>2
  <1> HIDE DEF S
  <1>2. Expr \subseteq S BY <1>1, ExprInduction
  <1> QED BY <1>2 DEF S

\* One traversal after another is a third, if it is on every leaf.
LEMMA Fusion ==
    ASSUME NEW f, NEW g, NEW h, NEW c1 \in Nat, NEW c2 \in Nat, NEW c3 \in Nat, NEW e \in Expr, NEW o \in Nat,
           Traverse(g, e, o + c1) \in Expr,
           \A x \in LeavesAt(e, o) : g[<<x[1], x[2] + c1>>] \in Expr =>
               Traverse(h, g[<<x[1], x[2] + c1>>], x[2] + c2) = f[<<x[1], x[2] + c3>>]
    PROVE  Traverse(h, Traverse(g, e, o + c1), o + c2) = Traverse(f, e, o + c3)
  <1> DEFINE P(y, k) == /\ Traverse(g, y, k + c1) \in Expr
                        /\ \A x \in LeavesAt(y, k) : g[<<x[1], x[2] + c1>>] \in Expr =>
                               Traverse(h, g[<<x[1], x[2] + c1>>], x[2] + c2) = f[<<x[1], x[2] + c3>>]
             Q(y, k) == Traverse(h, Traverse(g, y, k + c1), k + c2) = Traverse(f, y, k + c3)
             S == {y \in Expr : \A k \in Nat : P(y, k) => Q(y, k)}
  <1>1. ASSUME NEW y \in Expr, \A i \in Children(y) : y[i] \in S PROVE y \in S
    <2> SUFFICES ASSUME NEW k \in Nat, P(y, k) PROVE Q(y, k) OBVIOUS
    <2>0. k + c1 \in Nat /\ k + c2 \in Nat /\ k + c3 \in Nat OBVIOUS
    <2>1. CASE Children(y) = {}
      <3>1. LeavesAt(y, k) = {<<y, k>>} BY <2>1, LeavesAtLeaf
      <3>2. Traverse(g, y, k + c1) = g[<<y, k + c1>>] BY <2>0, <2>1, AtLeaf
      <3>3. Traverse(f, y, k + c3) = f[<<y, k + c3>>] BY <2>0, <2>1, AtLeaf
      <3>4. <<y, k>> \in LeavesAt(y, k) /\ g[<<y, k + c1>>] \in Expr BY <3>1, <3>2
      <3>5. Traverse(h, g[<<y, k + c1>>], k + c2) = f[<<y, k + c3>>] BY <3>4
      <3> QED BY <3>2, <3>3, <3>5
    <2>2. CASE Children(y) # {}
      <3>1. PICK p : Made(g, y, k + c1, p) BY <2>0, <2>2, AtNode
      <3> DEFINE r == With(y, p)
      <3>2. r \in Expr /\ SameKind(r, y) /\ Traverse(g, y, k + c1) = r BY <3>1 DEF Made
      <3>3. Children(r) = Children(y) /\ (\A i : Below(r, i, k + c2) = Below(y, i, k + c2)) BY <3>2 DEF SameKind
      <3>4. PICK q : Made(h, r, k + c2, q) BY <2>0, <2>2, <3>2, <3>3, AtNode
      <3>5. PICK t : Made(f, y, k + c3, t) BY <2>0, <2>2, AtNode
      <3>6. ASSUME NEW i \in Children(y) PROVE q[i] = t[i]
        <4> DEFINE j == Below(y, i, k)
        <4>1. Below(y, i, k + c1) = j + c1 /\ Below(y, i, k + c2) = j + c2 /\ Below(y, i, k + c3) = j + c3 BY BelowMoves
        <4>2. j \in Nat /\ \A x \in LeavesAt(y[i], j) : x \in LeavesAt(y, k) BY <2>2, LeavesAtNode
        <4>3. r[i] = Traverse(g, y[i], j + c1) BY <3>1, <4>1 DEF Made
        <4>4. r[i] \in Expr BY <3>2, <3>3, ExprParts DEF Node
        <4>5. P(y[i], j) BY <4>2, <4>3, <4>4
        <4>6. Q(y[i], j) BY <1>1, <4>2, <4>5
        <4>7. q[i] = Traverse(h, r[i], j + c2) BY <3>3, <3>4, <4>1 DEF Made
        <4>8. t[i] = Traverse(f, y[i], j + c3) BY <3>5, <4>1 DEF Made
        <4> QED BY <4>3, <4>6, <4>7, <4>8
      <3>7. With(r, q) = With(y, q)
        <4>1. DOMAIN r = DOMAIN y BY <3>2 DEF SameKind
        <4>2. \A i \in DOMAIN y : i \notin Children(y) => r[i] = y[i] BY DEF With
        <4> HIDE DEF r
        <4> QED BY <3>3, <4>1, <4>2 DEF With
      <3>8. With(y, q) = With(y, t) BY <3>6, EqualNodes
      <3>9. Traverse(h, r, k + c2) = With(r, q) /\ Traverse(f, y, k + c3) = With(y, t) BY <3>4, <3>5 DEF Made
      <3> QED BY <3>2, <3>7, <3>8, <3>9
    <2> QED BY <2>1, <2>2
  <1>2. P(e, o) OBVIOUS
  <1> HIDE DEF S
  <1>3. Expr \subseteq S BY <1>1, ExprInduction
  <1> HIDE DEF P
  <1>4. Q(e, o) BY <1>2, <1>3 DEF S
  <1> QED BY <1>4

\* The leaves after a traversal are those of what it made of the leaves.
LEMMA LeavesAfter ==
    ASSUME NEW g, NEW c \in Nat, NEW e \in Expr, NEW o \in Nat, Traverse(g, e, o + c) \in Expr
    PROVE  /\ \A x \in LeavesAt(e, o) : g[<<x[1], x[2] + c>>] \in Expr
           /\ \A x : x \in LeavesAt(Traverse(g, e, o + c), o) <=>
                       \E y \in LeavesAt(e, o) : x \in LeavesAt(g[<<y[1], y[2] + c>>], y[2])
  <1> DEFINE P(z, k) == /\ \A x \in LeavesAt(z, k) : g[<<x[1], x[2] + c>>] \in Expr
                        /\ \A x : x \in LeavesAt(Traverse(g, z, k + c), k) <=>
                                    \E y \in LeavesAt(z, k) : x \in LeavesAt(g[<<y[1], y[2] + c>>], y[2])
             S == {z \in Expr : \A k \in Nat : Traverse(g, z, k + c) \in Expr => P(z, k)}
  <1>1. ASSUME NEW z \in Expr, \A i \in Children(z) : z[i] \in S PROVE z \in S
    <2> SUFFICES ASSUME NEW k \in Nat, Traverse(g, z, k + c) \in Expr PROVE P(z, k) OBVIOUS
    <2>0. k + c \in Nat OBVIOUS
    <2>1. CASE Children(z) = {}
      <3>1. LeavesAt(z, k) = {<<z, k>>} BY <2>1, LeavesAtLeaf
      <3>2. Traverse(g, z, k + c) = g[<<z, k + c>>] BY <2>0, <2>1, AtLeaf
      <3> QED BY <3>1, <3>2
    <2>2. CASE Children(z) # {}
      <3>1. PICK p : Made(g, z, k + c, p) BY <2>0, <2>2, AtNode
      <3> DEFINE r == With(z, p)
      <3>2. r \in Expr /\ SameKind(r, z) /\ Traverse(g, z, k + c) = r BY <3>1 DEF Made
      <3>3. Children(r) = Children(z) /\ (\A i : Below(r, i, k) = Below(z, i, k)) BY <3>2 DEF SameKind
      <3>4. ASSUME NEW i \in Children(z)
            PROVE  /\ \A x \in LeavesAt(z[i], Below(z, i, k)) : g[<<x[1], x[2] + c>>] \in Expr
                   /\ \A x : x \in LeavesAt(r[i], Below(z, i, k)) <=>
                               \E y \in LeavesAt(z[i], Below(z, i, k)) : x \in LeavesAt(g[<<y[1], y[2] + c>>], y[2])
        <4>1. Below(z, i, k + c) = Below(z, i, k) + c BY BelowMoves
        <4>2. r[i] = Traverse(g, z[i], Below(z, i, k) + c) BY <3>1, <4>1 DEF Made
        <4>3. r[i] \in Expr BY <3>2, <3>3, ExprParts DEF Node
        <4>4. Below(z, i, k) \in Nat BY <2>2, LeavesAtNode
        <4>5. P(z[i], Below(z, i, k)) BY <1>1, <4>2, <4>3, <4>4
        <4> QED BY <4>2, <4>5
      <3> HIDE DEF r
      <3>5. \A x : x \in LeavesAt(r, k) <=> \E i \in Children(z) : x \in LeavesAt(r[i], Below(z, i, k))
        <4>1. \A x : x \in LeavesAt(r, k) <=> \E i \in Children(r) : x \in LeavesAt(r[i], Below(r, i, k))
          BY <2>2, <3>2, <3>3, LeavesAtNode
        <4> QED BY <3>3, <4>1
      <3>6. \A x : x \in LeavesAt(z, k) <=> \E i \in Children(z) : x \in LeavesAt(z[i], Below(z, i, k))
        BY <2>2, LeavesAtNode
      <3>7. \A x \in LeavesAt(z, k) : g[<<x[1], x[2] + c>>] \in Expr BY <3>4, <3>6
      <3>8. \A x : x \in LeavesAt(r, k) <=> \E y \in LeavesAt(z, k) : x \in LeavesAt(g[<<y[1], y[2] + c>>], y[2])
        BY <3>4, <3>5, <3>6
      <3> QED BY <3>2, <3>7, <3>8
    <2> QED BY <2>1, <2>2
  <1> HIDE DEF S, P
  <1>2. Expr \subseteq S BY <1>1, ExprInduction
  <1>3. P(e, o) BY <1>2 DEF S
  <1> QED BY <1>3 DEF P

\* A traversal that puts only variables for leaves makes nothing deeper.
LEMMA NoDeeper ==
    ASSUME NEW g, \A x \in Expr \X Nat : g[x] = x[1] \/ \E i \in Nat : g[x] = Var(i)
    PROVE  \A e \in Expr, o \in Nat : Traverse(g, e, o) \in Expr
  <1> DEFINE S == {e \in Expr : \A n \in Nat : e \in ExprsTo[n] => \A o \in Nat : Traverse(g, e, o) \in ExprsTo[n]}
  <1>1. ASSUME NEW e \in Expr, \A i \in Children(e) : e[i] \in S PROVE e \in S
    <2> SUFFICES ASSUME NEW n \in Nat, e \in ExprsTo[n], NEW o \in Nat PROVE Traverse(g, e, o) \in ExprsTo[n] OBVIOUS
    <2>1. PICK m \in Nat : n = m + 1
      <3>1. n # 0 BY StageFacts
      <3>2. n - 1 \in Nat /\ n = (n - 1) + 1 BY <3>1
      <3> QED BY <3>2
    <2>2. ExprsTo[n] = ExprsOver(ExprsTo[m]) BY <2>1, StageFacts
    <2>3. CASE Children(e) = {}
      <3>1. Traverse(g, e, o) = g[<<e, o>>] BY <2>3, AtLeaf
      <3>2. g[<<e, o>>] = e \/ \E i \in Nat : g[<<e, o>>] = Var(i)
        <4>1. <<e, o>> \in Expr \X Nat /\ <<e, o>>[1] = e OBVIOUS
        <4> QED BY <4>1
      <3>3. \A i \in Nat : Var(i) \in ExprsTo[n] BY <2>2 DEF Var, ExprsOver
      <3> QED BY <3>1, <3>2, <3>3
    <2>4. CASE Children(e) # {}
      <3>1. PICK p : Made(g, e, o, p) BY <2>4, AtNode
      <3>2. Node(e, ExprsTo[m]) BY <2>2, NodeParts
      <3>3. \A i \in Children(e) : p[i] \in ExprsTo[m]
        <4>1. \A i \in Children(e) : Below(e, i, o) \in Nat BY <2>4, LeavesAtNode
        <4> QED BY <1>1, <3>1, <3>2, <4>1 DEF Made, Node
      <3>4. With(e, p) \in ExprsTo[n] BY <2>2, <2>4, <3>3, NodeMade
      <3> QED BY <3>1, <3>4 DEF Made
    <2> QED BY <2>3, <2>4
  <1> HIDE DEF S
  <1>2. Expr \subseteq S BY <1>1, ExprInduction
  <1> QED BY <1>2, ExprDepthAssumption DEF S, Expr

-----------------------------------------------------------------------------
(* What is loose and what is open.                                         *)

\* A leaf is a variable, a local, a sort or a constant.
LEMMA LeafKinds ==
    ASSUME NEW y \in Expr, Children(y) = {}
    PROVE  \/ y[1] = "var" /\ y[2] \in Nat /\ y = Var(y[2]) /\ ~IsLocal(y)
           \/ IsLocal(y) /\ y[1] # "var" /\ y[4] \in Expr
           \/ y[1] \in {"sort", "const"} /\ ~IsLocal(y)
  <1>1. PICK n \in Nat : Expr = ExprsOver(ExprsTo[n]) /\ ExprsTo[n] \subseteq Expr BY ExprsAreNodes
  <1> DEFINE P == ExprsTo[n]
  <1>2. y \in ExprsOver(P) BY <1>1
  <1>3. P \subseteq Expr BY <1>1
  <1> HIDE DEF P
  <1> USE DEF Children, IsLocal, Var
  <1>4. CASE y \in {"var"} \X Nat BY <1>4
  <1>5. CASE y \in {"sort"} \X Level BY <1>5
  <1>6. CASE y \in {"const"} \X STRING \X Seq(Level) BY <1>6
  <1>7. CASE y \in {"app", "pi", "lam"} \X P \X P BY <1>7
  <1>8. CASE y \in {"let"} \X P \X P \X P BY <1>8
  <1>9. CASE y \in {"proj"} \X Nat \X P BY <1>9
  <1>10. CASE y \in {"local"} \X {"dbj", "unique"} \X Nat \X P BY <1>3, <1>10
  <1> QED BY <1>2, <1>4, <1>5, <1>6, <1>7, <1>8, <1>9, <1>10 DEF ExprsOver

\* Variables are leaves.
LEMMA Vars ==
    \A i \in Nat : /\ Var(i) \in Expr /\ Children(Var(i)) = {} /\ ~IsLocal(Var(i))
                   /\ Var(i)[1] = "var" /\ Var(i)[2] = i
  BY ExprsAreNodes DEF Var, ExprsOver, Children, IsLocal

\* Locals are leaves, and no variables.
LEMMA LocalsAreLeaves == ASSUME NEW y, IsLocal(y) PROVE Children(y) = {} /\ y[1] # "var"
  BY DEF IsLocal, Children

Members(s) == {s[i] : i \in 1 .. Len(s)}

\* e is an expression with no variables loose beyond k binders and no locals but ls.
Fits(ls, e, k) == e \in Expr /\ LooseBelow(e, k) /\ LocalsOf(e) \subseteq Members(ls)

\* The same, by the leaves.
LEMMA ByLeaves ==
    ASSUME NEW ls, NEW e \in Expr, NEW k \in Nat, NEW c \in Nat
    PROVE  Fits(ls, e, k) <=> \A x \in LeavesAt(e, c) : /\ x[1][1] = "var" => x[1][2] + c < x[2] + k
                                                        /\ IsLocal(x[1]) => x[1] \in Members(ls)
  <1>1. \A x : x \in LeavesAt(e, 0 + c) <=> \E y \in LeavesAt(e, 0) : x = <<y[1], y[2] + c>> BY Offsets
  <1>2. \A x : x \in LeavesAt(e, c) <=> \E y \in LeavesAt(e, 0) : x = <<y[1], y[2] + c>> BY <1>1
  <1>3. \A x \in LeavesAt(e, 0) : x[1] \in Expr /\ Children(x[1]) = {} /\ x[2] \in Nat BY LeavesAreLeaves
  <1>4. \A x \in LeavesAt(e, 0) : x[1][1] = "var" => x[1][2] \in Nat BY <1>3, LeafKinds
  <1>5. LooseBelow(e, k) <=> \A x \in LeavesAt(e, c) : x[1][1] = "var" => x[1][2] + c < x[2] + k
    <2>1. ASSUME LooseBelow(e, k), NEW x \in LeavesAt(e, c), x[1][1] = "var" PROVE x[1][2] + c < x[2] + k
      <3>1. PICK y \in LeavesAt(e, 0) : x = <<y[1], y[2] + c>> BY <1>2
      <3>2. y[1][2] < y[2] + k /\ y[1][2] \in Nat /\ y[2] \in Nat /\ x[1] = y[1] /\ x[2] = y[2] + c
        BY <1>3, <1>4, <2>1, <3>1 DEF LooseBelow
      <3> QED BY <3>2
    <2>2. ASSUME \A x \in LeavesAt(e, c) : x[1][1] = "var" => x[1][2] + c < x[2] + k,
                 NEW y \in LeavesAt(e, 0), y[1][1] = "var"
          PROVE  y[1][2] < y[2] + k
      <3>1. PICK x : x = <<y[1], y[2] + c>> OBVIOUS
      <3>2. x \in LeavesAt(e, c) /\ x[1] = y[1] /\ x[2] = y[2] + c BY <1>2, <3>1
      <3>3. y[1][2] \in Nat /\ y[2] \in Nat BY <1>3, <1>4, <2>2
      <3>4. y[1][2] + c < y[2] + c + k BY <2>2, <3>2
      <3> QED BY <3>3, <3>4
    <2> QED BY <2>1, <2>2 DEF LooseBelow
  <1>6. LocalsOf(e) \subseteq Members(ls) <=> \A x \in LeavesAt(e, c) : IsLocal(x[1]) => x[1] \in Members(ls)
    <2>1. \A x \in LeavesAt(e, c) : \E y \in LeavesAt(e, 0) : x[1] = y[1] BY <1>2
    <2>2. ASSUME NEW y \in LeavesAt(e, 0) PROVE \E x \in LeavesAt(e, c) : x[1] = y[1]
      <3>1. PICK x : x = <<y[1], y[2] + c>> OBVIOUS
      <3> QED BY <1>2, <3>1
    <2> QED BY <2>1, <2>2 DEF LocalsOf
  <1> QED BY <1>5, <1>6 DEF Fits

\* A node fits if its children do, under its binders.
LEMMA PartsFit ==
    ASSUME NEW ls, NEW e \in Expr, NEW k \in Nat, Children(e) # {}
    PROVE  Fits(ls, e, k) <=> \A i \in Children(e) : Fits(ls, e[i], Below(e, i, k))
  <1>1. \A x : x \in LeavesAt(e, 0) <=> \E i \in Children(e) : x \in LeavesAt(e[i], Below(e, i, 0)) BY LeavesAtNode
  <1> DEFINE L(x) == /\ x[1][1] = "var" => x[1][2] + 0 < x[2] + k
                     /\ IsLocal(x[1]) => x[1] \in Members(ls)
  <1>2. ASSUME NEW i \in Children(e)
        PROVE  Fits(ls, e[i], Below(e, i, k)) <=> \A x \in LeavesAt(e[i], Below(e, i, 0)) : L(x)
    <2>1. e[i] \in Expr /\ Below(e, i, k) \in Nat /\ Below(e, i, 0) \in Nat BY LeavesAtNode
    <2>2. Below(e, i, 0 + k) = Below(e, i, 0) + k BY BelowMoves
    <2>3. Fits(ls, e[i], Below(e, i, k)) <=>
            \A x \in LeavesAt(e[i], Below(e, i, 0)) :
                /\ x[1][1] = "var" => x[1][2] + Below(e, i, 0) < x[2] + Below(e, i, k)
                /\ IsLocal(x[1]) => x[1] \in Members(ls)
      BY <2>1, ByLeaves
    <2>4. \A x \in LeavesAt(e[i], Below(e, i, 0)) : x[2] \in Nat /\ (x[1][1] = "var" => x[1][2] \in Nat)
      BY <2>1, LeavesAreLeaves, LeafKinds
    <2>5. \A x \in LeavesAt(e[i], Below(e, i, 0)) :
             x[1][1] = "var" => (x[1][2] + Below(e, i, 0) < x[2] + Below(e, i, k) <=> x[1][2] + 0 < x[2] + k)
      <3> DEFINE b == Below(e, i, 0)
                 d == Below(e, i, k)
      <3>1. d = b + k BY <2>2
      <3>2. b \in Nat BY <2>1
      <3> HIDE DEF b, d
      <3>3. \A x \in LeavesAt(e[i], b) : x[1][1] = "var" => (x[1][2] + b < x[2] + d <=> x[1][2] + 0 < x[2] + k)
        BY <2>4, <3>1, <3>2 DEF b
      <3> QED BY <3>3 DEF b, d
    <2> QED BY <2>3, <2>5
  <1>3. Fits(ls, e, k) <=> \A x \in LeavesAt(e, 0) : L(x) BY ByLeaves
  <1> HIDE DEF L
  <1> QED BY <1>1, <1>2, <1>3

-----------------------------------------------------------------------------
(* Lists of open locals.                                                   *)

\* Locals, none of them twice.
Distinct(ls) ==
    /\ ls \in Seq(Expr)
    /\ \A i \in 1 .. Len(ls) : IsLocal(ls[i])
    /\ \A i, j \in 1 .. Len(ls) : ls[i] = ls[j] => i = j

\* Each is closed to the variable of its place, other leaves stay.
LEMMA ClosingIs ==
    ASSUME NEW ls, Distinct(ls), NEW o \in Nat
    PROVE  /\ \A i \in 1 .. Len(ls) : Closing(ls)[<<ls[i], o>>] = Var(Len(ls) - i + o)
           /\ \A y \in Expr : ~(IsLocal(y) /\ y \in Members(ls)) => Closing(ls)[<<y, o>>] = y
  <1>1. \A y \in Expr : Closing(ls)[<<y, o>>] =
           IF IsLocal(y) /\ \E i \in 1 .. Len(ls) : IsLast(i, y, ls)
           THEN Var(Len(ls) - (CHOOSE i \in 1 .. Len(ls) : IsLast(i, y, ls)) + o)
           ELSE y
    BY DEF Closing, Expr
  <1>2. ASSUME NEW i \in 1 .. Len(ls) PROVE Closing(ls)[<<ls[i], o>>] = Var(Len(ls) - i + o)
    <2>0. Len(ls) \in Nat /\ ls[i] \in Expr BY DEF Distinct
    <2>1. IsLast(i, ls[i], ls) BY <2>0 DEF IsLast, Distinct
    <2>2. \A j \in 1 .. Len(ls) : IsLast(j, ls[i], ls) => j = i BY DEF IsLast, Distinct
    <2>3. (CHOOSE j \in 1 .. Len(ls) : IsLast(j, ls[i], ls)) = i BY <2>1, <2>2
    <2>4. IsLocal(ls[i]) BY DEF Distinct
    <2> QED BY <1>1, <2>0, <2>1, <2>3, <2>4
  <1>3. ASSUME NEW y \in Expr, ~(IsLocal(y) /\ y \in Members(ls)) PROVE Closing(ls)[<<y, o>>] = y
    BY <1>1, <1>3 DEF IsLast, Members
  <1> QED BY <1>2, <1>3

\* Closing makes nothing deeper.
LEMMA ClosingInside ==
    ASSUME NEW ls, Distinct(ls)
    PROVE  \A e \in Expr, o \in Nat : AbstrAt(e, ls, o) \in Expr
  <1>1. ASSUME NEW x \in Expr \X Nat PROVE Closing(ls)[x] = x[1] \/ \E i \in Nat : Closing(ls)[x] = Var(i)
    <2>1. x = <<x[1], x[2]>> /\ x[1] \in Expr /\ x[2] \in Nat BY <1>1
    <2>2. CASE x[1] \in Members(ls)
      <3>1. PICK i \in 1 .. Len(ls) : x[1] = ls[i] BY <2>2 DEF Members
      <3>2. Closing(ls)[x] = Var(Len(ls) - i + x[2]) BY <2>1, <3>1, ClosingIs
      <3>3. Len(ls) - i + x[2] \in Nat BY <2>1, <3>1 DEF Distinct
      <3> QED BY <3>2, <3>3
    <2>3. CASE x[1] \notin Members(ls) BY <2>1, <2>3, ClosingIs
    <2> QED BY <2>2, <2>3
  <1> QED BY <1>1, NoDeeper DEF AbstrAt

\* A list and another after it.
LEMMA Joined ==
    ASSUME NEW ls \in Seq(Expr), NEW new \in Seq(Expr)
    PROVE  /\ ls \o new \in Seq(Expr) /\ Len(ls \o new) = Len(ls) + Len(new)
           /\ \A i \in 1 .. Len(ls) : (ls \o new)[i] = ls[i]
           /\ \A i \in 1 .. Len(new) : (ls \o new)[Len(ls) + i] = new[i]
           /\ Members(ls \o new) = Members(ls) \cup Members(new)
  <1>1. Len(ls \o new) = Len(ls) + Len(new) /\ Len(ls) \in Nat /\ Len(new) \in Nat OBVIOUS
  <1>2. \A i \in 1 .. Len(ls) : (ls \o new)[i] = ls[i] OBVIOUS
  <1>3. \A i \in 1 .. Len(new) : (ls \o new)[Len(ls) + i] = new[i] OBVIOUS
  <1>4. \A i \in 1 .. Len(ls) + Len(new) : i \in 1 .. Len(ls) \/ \E j \in 1 .. Len(new) : i = Len(ls) + j
    <2> SUFFICES ASSUME NEW i \in 1 .. Len(ls) + Len(new), i \notin 1 .. Len(ls)
                 PROVE  \E j \in 1 .. Len(new) : i = Len(ls) + j
      OBVIOUS
    <2>1. i - Len(ls) \in 1 .. Len(new) /\ i = Len(ls) + (i - Len(ls)) BY <1>1
    <2> QED BY <2>1
  <1>5. \A j \in 1 .. Len(new) : Len(ls) + j \in 1 .. Len(ls) + Len(new) BY <1>1
  <1>6. \A i \in 1 .. Len(ls) : i \in 1 .. Len(ls) + Len(new) BY <1>1
  <1>7. Members(ls \o new) = Members(ls) \cup Members(new)
    <2> DEFINE s == ls \o new
    <2>1. Len(s) = Len(ls) + Len(new) BY <1>1
    <2>2. \A i \in 1 .. Len(ls) : s[i] = ls[i] BY <1>2
    <2>3. \A i \in 1 .. Len(new) : s[Len(ls) + i] = new[i] BY <1>3
    <2> HIDE DEF s
    <2>4. ASSUME NEW i \in 1 .. Len(s) PROVE s[i] \in Members(ls) \cup Members(new)
      <3>1. i \in 1 .. Len(ls) + Len(new) BY <2>1
      <3>2. CASE i \in 1 .. Len(ls) BY <2>2, <3>2 DEF Members
      <3>3. CASE \E j \in 1 .. Len(new) : i = Len(ls) + j BY <2>3, <3>3 DEF Members
      <3> QED BY <1>4, <3>1, <3>2, <3>3
    <2>5. ASSUME NEW i \in 1 .. Len(ls) PROVE ls[i] \in Members(s) BY <1>6, <2>1, <2>2 DEF Members
    <2>6. ASSUME NEW j \in 1 .. Len(new) PROVE new[j] \in Members(s) BY <1>5, <2>1, <2>3 DEF Members
    <2>7. Members(s) = Members(ls) \cup Members(new) BY <2>4, <2>5, <2>6 DEF Members
    <2> QED BY <2>7 DEF s
  <1> QED BY <1>1, <1>2, <1>3, <1>7

-----------------------------------------------------------------------------
(* Traversals, by the kinds of leaves.                                     *)

\* A leaf that is neither a variable nor a local.
IsPlain(y) == y[1] # "var" /\ ~IsLocal(y)

\* What a leaf of an expression that fits can be, and how deep.
LeafOf(ls, k, y, o) ==
    /\ y \in Expr /\ o \in Nat /\ Children(y) = {}
    /\ \/ \E v \in Nat : y = Var(v) /\ v < o + k
       \/ IsLocal(y) /\ y \in Members(ls)
       \/ IsPlain(y)

\* What a leaf can be in an expression over the locals ls with k loose variables.
LEMMA LeavesThatFit ==
    ASSUME NEW ls, NEW k \in Nat, NEW e, Fits(ls, e, k), NEW x \in LeavesAt(e, 0)
    PROVE  x = <<x[1], x[2]>> /\ LeafOf(ls, k, x[1], x[2])
  <1>0. e \in Expr BY DEF Fits
  <1>1. x = <<x[1], x[2]>> /\ x[1] \in Expr /\ Children(x[1]) = {} /\ x[2] \in Nat BY <1>0, LeavesAreLeaves
  <1>2. (x[1][1] = "var" => x[1][2] + 0 < x[2] + k) /\ (IsLocal(x[1]) => x[1] \in Members(ls)) BY <1>0, ByLeaves
  <1>3. \/ x[1][1] = "var" /\ x[1][2] \in Nat /\ x[1] = Var(x[1][2]) /\ ~IsLocal(x[1])
        \/ IsLocal(x[1]) /\ x[1][1] # "var"
        \/ x[1][1] # "var" /\ ~IsLocal(x[1])
    BY <1>1, LeafKinds
  <1>4. CASE x[1][1] = "var" /\ x[1][2] \in Nat /\ x[1] = Var(x[1][2])
    <2>1. PICK v \in Nat : v = x[1][2] BY <1>4
    <2>2. x[1] = Var(v) /\ v < x[2] + k BY <1>2, <1>4, <2>1
    <2> QED BY <1>1, <2>2 DEF LeafOf
  <1> QED BY <1>1, <1>2, <1>3, <1>4 DEF LeafOf, IsPlain

\* Which leaves fit.
LEMMA FittingLeaves ==
    ASSUME NEW ls, NEW k \in Nat
    PROVE  /\ \A v \in Nat : v < k => Fits(ls, Var(v), k)
           /\ \A y \in Expr : IsLocal(y) /\ y \in Members(ls) => Fits(ls, y, k)
           /\ \A y \in Expr : Children(y) = {} /\ IsPlain(y) => Fits(ls, y, k)
  <1>1. ASSUME NEW y \in Expr, Children(y) = {},
               y[1] = "var" => y[2] + 0 < 0 + k, IsLocal(y) => y \in Members(ls)
        PROVE  Fits(ls, y, k)
    <2>1. LeavesAt(y, 0) = {<<y, 0>>} BY <1>1, LeavesAtLeaf
    <2>2. \A x \in LeavesAt(y, 0) : (x[1][1] = "var" => x[1][2] + 0 < x[2] + k) /\ (IsLocal(x[1]) => x[1] \in Members(ls))
      BY <1>1, <2>1
    <2> QED BY <2>2, ByLeaves
  <1>2. ASSUME NEW v \in Nat, v < k PROVE Fits(ls, Var(v), k)
    <2>1. PICK y : y = Var(v) OBVIOUS
    <2>2. y \in Expr /\ Children(y) = {} /\ ~IsLocal(y) /\ y[2] = v BY <2>1, Vars
    <2>3. y[2] + 0 < 0 + k BY <1>2, <2>2
    <2> QED BY <1>1, <2>1, <2>2, <2>3
  <1> QED BY <1>1, <1>2, LocalsAreLeaves DEF IsPlain

\* Fusion on what fits.
LEMMA Fusing ==
    ASSUME NEW f, NEW g, NEW h, NEW c1 \in Nat, NEW c2 \in Nat, NEW c3 \in Nat,
           NEW ls, NEW k \in Nat, NEW e, Fits(ls, e, k), Traverse(g, e, c1) \in Expr,
           \A y, o : LeafOf(ls, k, y, o) /\ g[<<y, o + c1>>] \in Expr =>
               Traverse(h, g[<<y, o + c1>>], o + c2) = f[<<y, o + c3>>]
    PROVE  Traverse(h, Traverse(g, e, c1), c2) = Traverse(f, e, c3)
  <1>1. \A x \in LeavesAt(e, 0) : g[<<x[1], x[2] + c1>>] \in Expr =>
               Traverse(h, g[<<x[1], x[2] + c1>>], x[2] + c2) = f[<<x[1], x[2] + c3>>]
    BY LeavesThatFit
  <1>2. PICK o \in Nat : o = 0 OBVIOUS
  <1>3. o + c1 = c1 /\ o + c2 = c2 /\ o + c3 = c3 BY <1>2
  <1>4. e \in Expr BY DEF Fits
  <1>5. Traverse(g, e, o + c1) \in Expr BY <1>3
  <1>6. \A x \in LeavesAt(e, o) : g[<<x[1], x[2] + c1>>] \in Expr =>
               Traverse(h, g[<<x[1], x[2] + c1>>], x[2] + c2) = f[<<x[1], x[2] + c3>>]
    BY <1>1, <1>2
  <1>7. Traverse(h, Traverse(g, e, o + c1), o + c2) = Traverse(f, e, o + c3) BY <1>4, <1>5, <1>6, Fusion
  <1> QED BY <1>3, <1>7

\* What a traversal makes fits, if what it makes of the leaves does.
LEMMA FitsAfter ==
    ASSUME NEW g, NEW c \in Nat, NEW ls, NEW k \in Nat, NEW e, Fits(ls, e, k), Traverse(g, e, c) \in Expr,
           NEW ms, NEW d \in Nat,
           \A y, o : LeafOf(ls, k, y, o) /\ g[<<y, o + c>>] \in Expr => Fits(ms, g[<<y, o + c>>], o + d)
    PROVE  Fits(ms, Traverse(g, e, c), d)
  <1>1. e \in Expr /\ 0 + c = c BY DEF Fits
  <1>2. /\ \A x \in LeavesAt(e, 0) : g[<<x[1], x[2] + c>>] \in Expr
        /\ \A x : x \in LeavesAt(Traverse(g, e, 0 + c), 0) <=>
                    \E y \in LeavesAt(e, 0) : x \in LeavesAt(g[<<y[1], y[2] + c>>], y[2])
    BY <1>1, LeavesAfter
  <1>3. ASSUME NEW x \in LeavesAt(Traverse(g, e, c), 0)
        PROVE  (x[1][1] = "var" => x[1][2] + 0 < x[2] + d) /\ (IsLocal(x[1]) => x[1] \in Members(ms))
    <2>1. PICK y \in LeavesAt(e, 0) : x \in LeavesAt(g[<<y[1], y[2] + c>>], y[2]) BY <1>1, <1>2
    <2>2. LeafOf(ls, k, y[1], y[2]) /\ g[<<y[1], y[2] + c>>] \in Expr BY <1>2, LeavesThatFit
    <2>3. Fits(ms, g[<<y[1], y[2] + c>>], y[2] + d) BY <2>2
    <2>4. y[2] \in Nat /\ y[2] + d \in Nat BY <2>2 DEF LeafOf
    <2>5. (x[1][1] = "var" => x[1][2] + y[2] < x[2] + (y[2] + d)) /\ (IsLocal(x[1]) => x[1] \in Members(ms))
      BY <2>1, <2>2, <2>3, <2>4, ByLeaves
    <2>6. x[2] \in Nat /\ (x[1][1] = "var" => x[1][2] \in Nat)
      BY <2>1, <2>2, <2>4, LeavesAreLeaves, LeafKinds
    <2> QED BY <2>4, <2>5, <2>6
  <1> QED BY <1>3, ByLeaves

-----------------------------------------------------------------------------
(* Opening and closing.                                                    *)

\* What instantiating does with a leaf.
LEMMA FillingIs ==
    ASSUME NEW s, NEW o \in Nat
    PROVE  /\ \A v \in Nat : v - o \in 0 .. Len(s) - 1 => Filling(s)[<<Var(v), o>>] = s[Len(s) - (v - o)]
           /\ \A v \in Nat : ~(v - o \in 0 .. Len(s) - 1) => Filling(s)[<<Var(v), o>>] = Var(v)
           /\ \A y \in Expr : y[1] # "var" => Filling(s)[<<y, o>>] = y
  BY Vars DEF Filling, Expr

\* What shifting does with a leaf.
LEMMA ShiftingIs ==
    ASSUME NEW d, NEW o \in Nat
    PROVE  /\ \A v \in Nat : v >= o => Shifting(d)[<<Var(v), o>>] = Var(v + d)
           /\ \A v \in Nat : v < o => Shifting(d)[<<Var(v), o>>] = Var(v)
           /\ \A y \in Expr : y[1] # "var" => Shifting(d)[<<y, o>>] = y
  BY Vars DEF Shifting, Expr

\* What substituting for one variable does with a leaf.
LEMMA ReplacingIs ==
    ASSUME NEW a
    PROVE  /\ \A o \in Nat : Replacing(a)[<<Var(o), o>>] = ShiftFull(o, a)
           /\ \A v, o \in Nat : v > o => Replacing(a)[<<Var(v), o>>] = Var(v - 1)
           /\ \A v, o \in Nat : v < o => Replacing(a)[<<Var(v), o>>] = Var(v)
           /\ \A y \in Expr, o \in Nat : y[1] # "var" => Replacing(a)[<<y, o>>] = y
  BY Vars DEF Replacing, Expr

\* The locals of one list come before those of another.
LEMMA DistinctParts ==
    ASSUME NEW ls \in Seq(Expr), NEW new \in Seq(Expr), Distinct(ls \o new)
    PROVE  /\ Distinct(ls) /\ Distinct(new)
           /\ \A i \in 1 .. Len(ls) : ls[i] \notin Members(new)
  <1> DEFINE s == ls \o new
  <1>1. /\ Len(s) = Len(ls) + Len(new) /\ Len(ls) \in Nat /\ Len(new) \in Nat
        /\ \A i \in 1 .. Len(ls) : s[i] = ls[i]
        /\ \A i \in 1 .. Len(new) : s[Len(ls) + i] = new[i]
    BY Joined
  <1>2. (\A i \in 1 .. Len(s) : IsLocal(s[i])) /\ (\A i, j \in 1 .. Len(s) : s[i] = s[j] => i = j) BY DEF Distinct
  <1> HIDE DEF s
  <1>3. \A i \in 1 .. Len(ls) : i \in 1 .. Len(s) BY <1>1
  <1>4. \A i \in 1 .. Len(new) : Len(ls) + i \in 1 .. Len(s) BY <1>1
  <1>5. Distinct(ls) BY <1>1, <1>2, <1>3 DEF Distinct
  <1>6. Distinct(new)
    <2>1. \A i \in 1 .. Len(new) : IsLocal(new[i]) BY <1>1, <1>2, <1>4
    <2>2. ASSUME NEW i \in 1 .. Len(new), NEW j \in 1 .. Len(new), new[i] = new[j] PROVE i = j
      <3>1. s[Len(ls) + i] = s[Len(ls) + j] BY <1>1, <2>2
      <3>2. Len(ls) + i = Len(ls) + j BY <1>2, <1>4, <3>1
      <3> QED BY <1>1, <3>2
    <2> QED BY <2>1, <2>2 DEF Distinct
  <1>7. ASSUME NEW i \in 1 .. Len(ls), NEW j \in 1 .. Len(new), ls[i] = new[j] PROVE FALSE
    <2>1. s[i] = s[Len(ls) + j] BY <1>1, <1>7
    <2>2. i = Len(ls) + j BY <1>2, <1>3, <1>4, <2>1
    <2> QED BY <1>1, <2>2
  <1> QED BY <1>5, <1>6, <1>7 DEF Members

\* Where the locals of two lists are closed to.
LEMMA ClosingJoined ==
    ASSUME NEW ls \in Seq(Expr), NEW new \in Seq(Expr), Distinct(ls \o new), NEW o \in Nat
    PROVE  /\ \A i \in 1 .. Len(ls) : Closing(ls \o new)[<<ls[i], o>>] = Var(Len(ls) + Len(new) - i + o)
           /\ \A i \in 1 .. Len(new) : Closing(ls \o new)[<<new[i], o>>] = Var(Len(new) - i + o)
           /\ \A y \in Expr : ~IsLocal(y) => Closing(ls \o new)[<<y, o>>] = y
  <1> DEFINE s == ls \o new
  <1>1. /\ Len(s) = Len(ls) + Len(new) /\ Len(ls) \in Nat /\ Len(new) \in Nat
        /\ \A i \in 1 .. Len(ls) : s[i] = ls[i]
        /\ \A i \in 1 .. Len(new) : s[Len(ls) + i] = new[i]
    BY Joined
  <1>2. Distinct(s) OBVIOUS
  <1> HIDE DEF s
  <1>3. /\ \A i \in 1 .. Len(s) : Closing(s)[<<s[i], o>>] = Var(Len(s) - i + o)
        /\ \A y \in Expr : ~(IsLocal(y) /\ y \in Members(s)) => Closing(s)[<<y, o>>] = y
    BY <1>2, ClosingIs
  <1>4. ASSUME NEW i \in 1 .. Len(ls) PROVE Closing(s)[<<ls[i], o>>] = Var(Len(ls) + Len(new) - i + o)
    <2>1. i \in 1 .. Len(s) BY <1>1
    <2>2. Closing(s)[<<s[i], o>>] = Var(Len(s) - i + o) BY <1>3, <2>1
    <2>3. Len(s) - i + o = Len(ls) + Len(new) - i + o BY <1>1
    <2>4. s[i] = ls[i] BY <1>1
    <2> QED BY <2>2, <2>3, <2>4
  <1>5. ASSUME NEW i \in 1 .. Len(new) PROVE Closing(s)[<<new[i], o>>] = Var(Len(new) - i + o)
    <2>1. Len(ls) + i \in 1 .. Len(s) BY <1>1
    <2>2. Closing(s)[<<s[Len(ls) + i], o>>] = Var(Len(s) - (Len(ls) + i) + o) BY <1>3, <2>1
    <2>3. Len(s) - (Len(ls) + i) + o = Len(new) - i + o BY <1>1
    <2>4. s[Len(ls) + i] = new[i] BY <1>1
    <2> QED BY <2>2, <2>3, <2>4
  <1>6. s = ls \o new BY DEF s
  <1> QED BY <1>3, <1>4, <1>5, <1>6

\* Binders opened with new locals: what is below them stands, over those too,
\* for what it stood for below the binders.
LEMMA Opening ==
    ASSUME NEW ls \in Seq(Expr), NEW new \in Seq(Expr), Distinct(ls \o new),
           NEW e, Fits(ls, e, Len(new)), InstFull(e, new) \in Expr
    PROVE  /\ Fits(ls \o new, InstFull(e, new), 0)
           /\ AbstrPlain(InstFull(e, new), ls \o new) = AbstrAt(e, ls, Len(new))
  <1> DEFINE s == ls \o new
             n == Len(new)
             l == Len(ls)
  <1>0. e \in Expr /\ n \in Nat /\ l \in Nat /\ Distinct(ls) /\ Distinct(new) BY DistinctParts DEF Fits
  <1>1. Members(s) = Members(ls) \cup Members(new) BY Joined
  <1>2. /\ \A i \in 1 .. l : \A o \in Nat : Closing(s)[<<ls[i], o>>] = Var(l + n - i + o)
        /\ \A i \in 1 .. n : \A o \in Nat : Closing(s)[<<new[i], o>>] = Var(n - i + o)
        /\ \A y \in Expr : \A o \in Nat : ~IsLocal(y) => Closing(s)[<<y, o>>] = y
    BY ClosingJoined
  <1>3. /\ \A i \in 1 .. l : \A o \in Nat : Closing(ls)[<<ls[i], o>>] = Var(l - i + o)
        /\ \A y \in Expr : \A o \in Nat : ~IsLocal(y) => Closing(ls)[<<y, o>>] = y
    BY <1>0, ClosingIs
  <1>4. ASSUME NEW i \in 1 .. n
        PROVE  new[i] \in Expr /\ IsLocal(new[i]) /\ Children(new[i]) = {} /\ new[i] \in Members(new)
    BY <1>0, LocalsAreLeaves DEF Distinct, Members
  <1>5. Fits(ls, e, n) OBVIOUS
  <1>s. s = ls \o new OBVIOUS
  <1> DEFINE F == Filling(new)
  <1>f. /\ \A v, o \in Nat : v - o \in 0 .. n - 1 => F[<<Var(v), o>>] = new[n - (v - o)]
        /\ \A v, o \in Nat : ~(v - o \in 0 .. n - 1) => F[<<Var(v), o>>] = Var(v)
        /\ \A y \in Expr, o \in Nat : y[1] # "var" => F[<<y, o>>] = y
    BY FillingIs
  <1>8. Traverse(F, e, 0) \in Expr BY DEF InstFull
  <1>9. InstFull(e, new) = Traverse(F, e, 0) BY DEF InstFull
  <1> HIDE DEF s, n, l, F
  <1>6. ASSUME NEW y, NEW o, LeafOf(ls, n, y, o)
        PROVE  /\ Traverse(Closing(s), F[<<y, o>>], o) = Closing(ls)[<<y, o + n>>]
               /\ Fits(s, F[<<y, o>>], o)
    <2>0. y \in Expr /\ o \in Nat /\ Children(y) = {} /\ o + n \in Nat BY <1>0, <1>6 DEF LeafOf
    <2>1. ASSUME NEW v \in Nat, y = Var(v), v < o + n
          PROVE  Traverse(Closing(s), F[<<y, o>>], o) = Closing(ls)[<<y, o + n>>] /\ Fits(s, F[<<y, o>>], o)
      <3>0. ~IsLocal(y) BY <2>1, Vars
      <3>1. Closing(ls)[<<y, o + n>>] = y BY <1>3, <2>0, <3>0
      <3>2. CASE v < o
        <4>1. ~(v - o \in 0 .. n - 1) BY <2>0, <3>2
        <4>2. F[<<y, o>>] = y BY <1>f, <2>0, <2>1, <4>1
        <4>3. Closing(s)[<<y, o>>] = y BY <1>2, <2>0, <3>0
        <4>4. Traverse(Closing(s), y, o) = y BY <2>0, <4>3, AtLeaf
        <4>5. Fits(s, y, o) BY <2>0, <2>1, <3>2, FittingLeaves
        <4> QED BY <3>1, <4>2, <4>4, <4>5
      <3>3. CASE v >= o
        <4>1. v - o \in 0 .. n - 1 /\ n - (v - o) \in 1 .. n BY <1>0, <2>0, <2>1, <3>3
        <4> DEFINE i == n - (v - o)
        <4>2. F[<<y, o>>] = new[i] BY <1>f, <2>0, <2>1, <4>1
        <4>3. n - i + o = v BY <1>0, <2>0, <2>1
        <4>4. i \in 1 .. n BY <4>1
        <4> HIDE DEF i
        <4>5. Closing(s)[<<new[i], o>>] = Var(n - i + o) BY <1>2, <2>0, <4>4
        <4>6. new[i] \in Expr /\ IsLocal(new[i]) /\ Children(new[i]) = {} /\ new[i] \in Members(s) BY <1>1, <1>4, <4>4
        <4>7. Traverse(Closing(s), new[i], o) = y BY <2>0, <2>1, <4>3, <4>5, <4>6, AtLeaf
        <4>8. Fits(s, new[i], o) BY <2>0, <4>6, FittingLeaves
        <4> QED BY <3>1, <4>2, <4>7, <4>8
      <3> QED BY <2>0, <3>2, <3>3
    <2>2. ASSUME IsLocal(y), y \in Members(ls)
          PROVE  Traverse(Closing(s), F[<<y, o>>], o) = Closing(ls)[<<y, o + n>>] /\ Fits(s, F[<<y, o>>], o)
      <3>1. PICK i \in 1 .. l : y = ls[i] BY <2>2 DEF Members, l
      <3>2. F[<<y, o>>] = y BY <1>f, <2>0, <2>2, LocalsAreLeaves
      <3>3. Closing(s)[<<y, o>>] = Var(l + n - i + o) BY <1>2, <2>0, <3>1
      <3>4. Closing(ls)[<<y, o + n>>] = Var(l - i + (o + n)) BY <1>3, <2>0, <3>1
      <3>5. l + n - i + o = l - i + (o + n) BY <1>0, <2>0
      <3>6. Traverse(Closing(s), y, o) = Closing(s)[<<y, o>>] BY <2>0, AtLeaf
      <3>7. Fits(s, y, o) BY <1>1, <2>0, <2>2, FittingLeaves
      <3> QED BY <3>2, <3>3, <3>4, <3>5, <3>6, <3>7
    <2>3. ASSUME IsPlain(y)
          PROVE  Traverse(Closing(s), F[<<y, o>>], o) = Closing(ls)[<<y, o + n>>] /\ Fits(s, F[<<y, o>>], o)
      <3>1. F[<<y, o>>] = y BY <1>f, <2>0, <2>3 DEF IsPlain
      <3>2. Closing(s)[<<y, o>>] = y /\ Closing(ls)[<<y, o + n>>] = y BY <1>2, <1>3, <2>0, <2>3 DEF IsPlain
      <3>3. Traverse(Closing(s), y, o) = y BY <2>0, <3>2, AtLeaf
      <3>4. Fits(s, y, o) BY <2>0, <2>3, FittingLeaves
      <3> QED BY <3>1, <3>2, <3>3, <3>4
    <2> QED BY <1>6, <2>1, <2>2, <2>3 DEF LeafOf
  <1>7. \A o : \A y : LeafOf(ls, n, y, o) => o + 0 = o BY DEF LeafOf
  <1>10. Traverse(Closing(s), Traverse(F, e, 0), 0) = Traverse(Closing(ls), e, n)
    <2>1. \A y, o : LeafOf(ls, n, y, o) /\ F[<<y, o + 0>>] \in Expr =>
             Traverse(Closing(s), F[<<y, o + 0>>], o + 0) = Closing(ls)[<<y, o + n>>]
      BY <1>6, <1>7
    <2> QED BY <1>0, <1>5, <1>8, <2>1, Fusing
  <1>11. Fits(s, Traverse(F, e, 0), 0)
    <2>1. \A y, o : LeafOf(ls, n, y, o) /\ F[<<y, o + 0>>] \in Expr => Fits(s, F[<<y, o + 0>>], o + 0)
      BY <1>6, <1>7
    <2> QED BY <1>0, <1>5, <1>8, <2>1, FitsAfter
  <1> QED BY <1>9, <1>10, <1>11, <1>s DEF AbstrPlain, AbstrAt, n

\* What fits fits under more binders and with more locals open.
LEMMA FitsMore ==
    ASSUME NEW ls, NEW ms, NEW k \in Nat, NEW d \in Nat, k <= d, Members(ls) \subseteq Members(ms), NEW e, Fits(ls, e, k)
    PROVE  Fits(ms, e, d)
  <1>1. e \in Expr BY DEF Fits
  <1>2. \A x \in LeavesAt(e, 0) : /\ x[1][1] = "var" => x[1][2] + 0 < x[2] + k
                                  /\ IsLocal(x[1]) => x[1] \in Members(ls)
    BY <1>1, ByLeaves
  <1>3. \A x \in LeavesAt(e, 0) : x[2] \in Nat /\ (x[1][1] = "var" => x[1][2] \in Nat)
    BY <1>1, LeavesAreLeaves, LeafKinds
  <1>4. ASSUME NEW x \in LeavesAt(e, 0)
        PROVE  (x[1][1] = "var" => x[1][2] + 0 < x[2] + d) /\ (IsLocal(x[1]) => x[1] \in Members(ms))
    BY <1>2, <1>3
  <1> QED BY <1>1, <1>4, ByLeaves

\* Locals closed: what stood for something over them stands for it below their
\* binders.
LEMMA ClosingUp ==
    ASSUME NEW ls \in Seq(Expr), NEW new \in Seq(Expr), Distinct(ls \o new), NEW e, Fits(ls \o new, e, 0)
    PROVE  /\ Fits(ls, AbstrPlain(e, new), Len(new))
           /\ AbstrAt(AbstrPlain(e, new), ls, Len(new)) = AbstrPlain(e, ls \o new)
  <1> DEFINE s == ls \o new
             n == Len(new)
             l == Len(ls)
  <1>0. e \in Expr /\ n \in Nat /\ l \in Nat /\ Distinct(ls) /\ Distinct(new) BY DistinctParts DEF Fits
  <1>1. Members(s) = Members(ls) \cup Members(new) BY Joined
  <1>2. /\ \A i \in 1 .. l : \A o \in Nat : Closing(s)[<<ls[i], o>>] = Var(l + n - i + o)
        /\ \A i \in 1 .. n : \A o \in Nat : Closing(s)[<<new[i], o>>] = Var(n - i + o)
        /\ \A y \in Expr : \A o \in Nat : ~IsLocal(y) => Closing(s)[<<y, o>>] = y
    BY ClosingJoined
  <1>3. /\ \A i \in 1 .. l : \A o \in Nat : Closing(ls)[<<ls[i], o>>] = Var(l - i + o)
        /\ \A y \in Expr : \A o \in Nat : ~IsLocal(y) => Closing(ls)[<<y, o>>] = y
    BY <1>0, ClosingIs
  <1>4. /\ \A i \in 1 .. n : \A o \in Nat : Closing(new)[<<new[i], o>>] = Var(n - i + o)
        /\ \A y \in Expr : \A o \in Nat : ~IsLocal(y) => Closing(new)[<<y, o>>] = y
        /\ \A i \in 1 .. l : \A o \in Nat : Closing(new)[<<ls[i], o>>] = ls[i]
    <2>1. \A i \in 1 .. l : ls[i] \in Expr /\ ls[i] \notin Members(new) BY DistinctParts DEF Distinct
    <2> QED BY <1>0, <2>1, ClosingIs
  <1>5. Fits(s, e, 0) OBVIOUS
  <1>6. Traverse(Closing(new), e, 0) \in Expr BY <1>0, ClosingInside DEF AbstrAt
  <1>s. s = ls \o new OBVIOUS
  <1> HIDE DEF s, n, l
  <1>7. ASSUME NEW y, NEW o, LeafOf(s, 0, y, o)
        PROVE  /\ Traverse(Closing(ls), Closing(new)[<<y, o>>], o + n) = Closing(s)[<<y, o>>]
               /\ Fits(ls, Closing(new)[<<y, o>>], o + n)
    <2>0. y \in Expr /\ o \in Nat /\ Children(y) = {} /\ o + n \in Nat BY <1>0, <1>7 DEF LeafOf
    <2>1. ASSUME NEW v \in Nat, y = Var(v), v < o + 0
          PROVE  Traverse(Closing(ls), Closing(new)[<<y, o>>], o + n) = Closing(s)[<<y, o>>] /\ Fits(ls, Closing(new)[<<y, o>>], o + n)
      <3>0. ~IsLocal(y) BY <2>1, Vars
      <3>1. Closing(s)[<<y, o>>] = y /\ Closing(new)[<<y, o>>] = y /\ Closing(ls)[<<y, o + n>>] = y
        BY <1>2, <1>3, <1>4, <2>0, <3>0
      <3>2. Traverse(Closing(ls), y, o + n) = y BY <2>0, <3>1, AtLeaf
      <3>3. v < o + n BY <1>0, <2>0, <2>1
      <3>4. Fits(ls, y, o + n) BY <2>0, <2>1, <3>3, FittingLeaves
      <3> QED BY <3>1, <3>2, <3>4
    <2>2. ASSUME NEW i \in 1 .. l, y = ls[i]
          PROVE  Traverse(Closing(ls), Closing(new)[<<y, o>>], o + n) = Closing(s)[<<y, o>>] /\ Fits(ls, Closing(new)[<<y, o>>], o + n)
      <3>1. Closing(new)[<<y, o>>] = y BY <1>4, <2>0, <2>2
      <3>2. Closing(s)[<<y, o>>] = Var(l + n - i + o) BY <1>2, <2>0, <2>2
      <3>3. Closing(ls)[<<y, o + n>>] = Var(l - i + (o + n)) BY <1>3, <2>0, <2>2
      <3>4. l + n - i + o = l - i + (o + n) BY <1>0, <2>0
      <3>5. Traverse(Closing(ls), y, o + n) = Closing(ls)[<<y, o + n>>] BY <2>0, AtLeaf
      <3>6. IsLocal(y) /\ y \in Members(ls) BY <1>0, <2>2 DEF Distinct, Members, l
      <3>7. Fits(ls, y, o + n) BY <2>0, <3>6, FittingLeaves
      <3> QED BY <3>1, <3>2, <3>3, <3>4, <3>5, <3>7
    <2>3. ASSUME NEW i \in 1 .. n, y = new[i]
          PROVE  Traverse(Closing(ls), Closing(new)[<<y, o>>], o + n) = Closing(s)[<<y, o>>] /\ Fits(ls, Closing(new)[<<y, o>>], o + n)
      <3>1. PICK v \in Nat : v = n - i + o BY <1>0, <2>0
      <3>2. v < o + n BY <1>0, <2>0, <2>3, <3>1
      <3>3. Closing(new)[<<y, o>>] = Var(v) /\ Closing(s)[<<y, o>>] = Var(v) BY <1>2, <1>4, <2>0, <2>3, <3>1
      <3>4. Var(v) \in Expr /\ Children(Var(v)) = {} /\ ~IsLocal(Var(v)) BY Vars
      <3>5. Closing(ls)[<<Var(v), o + n>>] = Var(v) BY <1>3, <2>0, <3>4
      <3>6. Traverse(Closing(ls), Var(v), o + n) = Var(v) BY <2>0, <3>4, <3>5, AtLeaf
      <3>7. Fits(ls, Var(v), o + n) BY <2>0, <3>2, FittingLeaves
      <3> QED BY <3>3, <3>6, <3>7
    <2>4. ASSUME IsPlain(y)
          PROVE  Traverse(Closing(ls), Closing(new)[<<y, o>>], o + n) = Closing(s)[<<y, o>>] /\ Fits(ls, Closing(new)[<<y, o>>], o + n)
      <3>1. Closing(s)[<<y, o>>] = y /\ Closing(new)[<<y, o>>] = y /\ Closing(ls)[<<y, o + n>>] = y
        BY <1>2, <1>3, <1>4, <2>0, <2>4 DEF IsPlain
      <3>2. Traverse(Closing(ls), y, o + n) = y BY <2>0, <3>1, AtLeaf
      <3>3. Fits(ls, y, o + n) BY <2>0, <2>4, FittingLeaves
      <3> QED BY <3>1, <3>2, <3>3
    <2>5. y \in Members(s) => (\E i \in 1 .. l : y = ls[i]) \/ (\E i \in 1 .. n : y = new[i]) BY <1>1 DEF Members, l, n
    <2> QED BY <1>7, <2>1, <2>2, <2>3, <2>4, <2>5 DEF LeafOf
  <1>8. \A o : \A y : LeafOf(s, 0, y, o) => o + 0 = o BY DEF LeafOf
  <1>9. Traverse(Closing(ls), Traverse(Closing(new), e, 0), n) = Traverse(Closing(s), e, 0)
    <2>1. \A y, o : LeafOf(s, 0, y, o) /\ Closing(new)[<<y, o + 0>>] \in Expr =>
             Traverse(Closing(ls), Closing(new)[<<y, o + 0>>], o + n) = Closing(s)[<<y, o + 0>>]
      BY <1>7, <1>8
    <2> QED BY <1>0, <1>5, <1>6, <2>1, Fusing
  <1>10. Fits(ls, Traverse(Closing(new), e, 0), n)
    <2>1. \A y, o : LeafOf(s, 0, y, o) /\ Closing(new)[<<y, o + 0>>] \in Expr => Fits(ls, Closing(new)[<<y, o + 0>>], o + n)
      BY <1>7, <1>8
    <2> QED BY <1>0, <1>5, <1>6, <2>1, FitsAfter
  <1> QED BY <1>9, <1>10, <1>s DEF AbstrPlain, AbstrAt, n

\* The locals of the type checker from a number on are closed by their numbers.
LEMMA ClosingByLevel ==
    ASSUME NEW ls \in Seq(Expr), NEW new \in Seq(Expr), Distinct(ls \o new), NEW e, Fits(ls \o new, e, 0),
           NEW first \in Nat,
           \A i \in 1 .. Len(new) : new[i][2] = "dbj" /\ new[i][3] = first + i - 1,
           \A i \in 1 .. Len(ls) : ls[i][2] = "dbj" => ls[i][3] \in Nat /\ ls[i][3] < first
    PROVE  AbstrLevelsFull(e, first, first + Len(new)) = AbstrPlain(e, new)
  <1> DEFINE s == ls \o new
             n == Len(new)
             l == Len(ls)
  <1>0. e \in Expr /\ n \in Nat /\ l \in Nat /\ Distinct(ls) /\ Distinct(new) BY DistinctParts DEF Fits
  <1>1. Members(s) = Members(ls) \cup Members(new) BY Joined
  <1>2. /\ \A i \in 1 .. n : \A o \in Nat : Closing(new)[<<new[i], o>>] = Var(n - i + o)
        /\ \A y \in Expr : \A o \in Nat : ~IsLocal(y) => Closing(new)[<<y, o>>] = y
        /\ \A i \in 1 .. l : \A o \in Nat : Closing(new)[<<ls[i], o>>] = ls[i]
    <2>1. \A i \in 1 .. l : ls[i] \in Expr /\ ls[i] \notin Members(new)
      <3>1. ASSUME NEW i \in 1 .. Len(ls) PROVE ls[i] \in Expr /\ ls[i] \notin Members(new)
        <4>1. ls[i] \in Expr OBVIOUS
        <4>2. ls[i] \notin Members(new) BY DistinctParts
        <4> QED BY <4>1, <4>2
      <3> QED BY <3>1
    <2> QED BY <1>0, <2>1, ClosingIs
  <1>3. ASSUME NEW y \in Expr, NEW o \in Nat
        PROVE  /\ IsLocal(y) /\ y[2] = "dbj" /\ y[3] >= first => ClosingLevels(first)[<<y, o>>] = Var(o - y[3] - 1)
               /\ ~(IsLocal(y) /\ y[2] = "dbj" /\ y[3] >= first) => ClosingLevels(first)[<<y, o>>] = y
    BY DEF ClosingLevels, Expr
  <1>4. /\ \A i \in 1 .. n : IsLocal(new[i]) /\ new[i] \in Expr /\ new[i][2] = "dbj" /\ new[i][3] = first + i - 1
        /\ \A i \in 1 .. l : IsLocal(ls[i]) /\ ls[i] \in Expr /\ (ls[i][2] = "dbj" => ls[i][3] \in Nat /\ ls[i][3] < first)
    BY <1>0 DEF Distinct
  <1>5. Fits(s, e, 0) OBVIOUS
  <1> HIDE DEF s, n, l
  <1>6. ASSUME NEW y, NEW o, LeafOf(s, 0, y, o) PROVE ClosingLevels(first)[<<y, o + (first + n)>>] = Closing(new)[<<y, o>>]
    <2>0. y \in Expr /\ o \in Nat /\ o + (first + n) \in Nat BY <1>0, <1>6 DEF LeafOf
    <2>1. CASE ~IsLocal(y) BY <1>2, <1>3, <2>0, <2>1
    <2>2. ASSUME NEW i \in 1 .. n, y = new[i] PROVE ClosingLevels(first)[<<y, o + (first + n)>>] = Closing(new)[<<y, o>>]
      <3>1. first + i - 1 >= first BY <1>0
      <3>2. IsLocal(y) /\ y[2] = "dbj" /\ y[3] = first + i - 1 BY <1>4, <2>2
      <3>0. PICK p \in Nat : p = o + (first + n) BY <2>0
      <3>3. ClosingLevels(first)[<<y, p>>] = Var(p - y[3] - 1)
        <4>1. y[3] >= first BY <3>1, <3>2
        <4> QED BY <1>3, <2>0, <3>2, <4>1
      <3>4. p - y[3] - 1 = n - i + o BY <1>0, <2>0, <3>0, <3>2
      <3>5. Closing(new)[<<y, o>>] = Var(n - i + o) BY <1>2, <2>0, <2>2
      <3> QED BY <3>0, <3>3, <3>4, <3>5
    <2>3. ASSUME NEW i \in 1 .. l, y = ls[i] PROVE ClosingLevels(first)[<<y, o + (first + n)>>] = Closing(new)[<<y, o>>]
      <3>1. ~(IsLocal(y) /\ y[2] = "dbj" /\ y[3] >= first) BY <1>4, <2>3
      <3> QED BY <1>2, <1>3, <2>0, <2>3, <3>1
    <2>4. y \in Members(s) => (\E i \in 1 .. l : y = ls[i]) \/ (\E i \in 1 .. n : y = new[i]) BY <1>1 DEF Members, l, n
    <2>5. IsLocal(y) => y \in Members(s) BY <1>6, Vars DEF LeafOf, IsPlain
    <2> QED BY <2>1, <2>2, <2>3, <2>4, <2>5
  <1>7. \A x \in LeavesAt(e, 0) : ClosingLevels(first)[<<x[1], x[2] + (first + n)>>] = Closing(new)[<<x[1], x[2] + 0>>]
    <2>1. \A x \in LeavesAt(e, 0) : LeafOf(s, 0, x[1], x[2]) BY <1>5, LeavesThatFit
    <2>2. \A x \in LeavesAt(e, 0) : x[2] + 0 = x[2] BY <2>1 DEF LeafOf
    <2> QED BY <1>6, <2>1, <2>2
  <1>8. Traverse(ClosingLevels(first), e, 0 + (first + n)) = Traverse(Closing(new), e, 0 + 0)
    <2>1. PICK o \in Nat : o = 0 OBVIOUS
    <2>2. PICK c \in Nat : c = first + n BY <1>0
    <2>3. PICK d \in Nat : d = 0 OBVIOUS
    <2>4. \A x \in LeavesAt(e, o) : ClosingLevels(first)[<<x[1], x[2] + c>>] = Closing(new)[<<x[1], x[2] + d>>]
      BY <1>7, <2>1, <2>2, <2>3
    <2>5. Traverse(ClosingLevels(first), e, o + c) = Traverse(Closing(new), e, o + d)
      <3>1. Alike(ClosingLevels(first), Closing(new), c, d, e, o) BY <2>4 DEF Alike
      <3> QED BY <1>0, <3>1, Congruence
    <2> QED BY <2>1, <2>2, <2>3, <2>5
  <1>9. 0 + (first + n) = first + n /\ 0 + 0 = 0 BY <1>0
  <1> QED BY <1>8, <1>9 DEF AbstrLevelsFull, AbstrPlain, AbstrAt, n

-----------------------------------------------------------------------------
(* One argument after the other.                                           *)

\* An expression over no locals, as what is at hand stands for is.
LEMMA MeaningFits ==
    ASSUME NEW ls, Distinct(ls), NEW e, Fits(ls, e, 0)
    PROVE  Fits(<<>>, AbstrPlain(e, ls), Len(ls)) /\ AbstrPlain(e, ls) \in Expr
  <1>1. <<>> \o ls = ls /\ ls \in Seq(Expr) /\ <<>> \in Seq(Expr) BY DEF Distinct
  <1>2. Distinct(<<>> \o ls) /\ Fits(<<>> \o ls, e, 0) BY <1>1
  <1>3. Fits(<<>>, AbstrPlain(e, ls), Len(ls)) BY <1>1, <1>2, ClosingUp
  <1> QED BY <1>3 DEF Fits

\* Loose variables moved further make nothing deeper.
LEMMA ShiftingInside == ASSUME NEW d \in Nat, NEW e \in Expr PROVE ShiftFull(d, e) \in Expr
  <1>1. ASSUME NEW x \in Expr \X Nat PROVE Shifting(d)[x] = x[1] \/ \E i \in Nat : Shifting(d)[x] = Var(i)
    <2>1. Shifting(d)[x] = IF x[1][1] = "var" /\ x[1][2] >= x[2] THEN Var(x[1][2] + d) ELSE x[1] BY DEF Shifting, Expr
    <2>2. x[1] \in Expr OBVIOUS
    <2>3. CASE x[1][1] = "var"
      <3>1. Children(x[1]) = {} BY <2>3 DEF Children
      <3>2. PICK v \in Nat : v = x[1][2] BY <2>2, <2>3, <3>1, LeafKinds DEF IsLocal
      <3>3. v + d \in Nat OBVIOUS
      <3> QED BY <2>1, <3>2, <3>3
    <2> QED BY <2>1, <2>3
  <1> QED BY <1>1, NoDeeper DEF ShiftFull

\* What is over the open locals alone, closed under more binders.
LEMMA ClosingUnder ==
    ASSUME NEW ls, Distinct(ls), NEW e, Fits(ls, e, 0), NEW d \in Nat
    PROVE  AbstrAt(e, ls, d) = ShiftFull(d, AbstrPlain(e, ls))
  <1> DEFINE l == Len(ls)
             C == Closing(ls)
             H == Shifting(d)
  <1>0. e \in Expr /\ l \in Nat BY DEF Fits, Distinct
  <1>1. /\ \A i \in 1 .. l : \A o \in Nat : C[<<ls[i], o>>] = Var(l - i + o)
        /\ \A y \in Expr : \A o \in Nat : ~IsLocal(y) => C[<<y, o>>] = y
    BY ClosingIs
  <1>2. \A o \in Nat : /\ \A v \in Nat : v >= o => H[<<Var(v), o>>] = Var(v + d)
                       /\ \A v \in Nat : v < o => H[<<Var(v), o>>] = Var(v)
                       /\ \A y \in Expr : y[1] # "var" => H[<<y, o>>] = y
    BY ShiftingIs
  <1>3. Traverse(C, e, 0) \in Expr BY <1>0, ClosingInside DEF AbstrAt
  <1>h. \A y \in Expr, o \in Nat : Children(y) = {} => Traverse(H, y, o) = H[<<y, o>>] BY AtLeaf
  <1> HIDE DEF l, C, H
  <1>4. ASSUME NEW y, NEW o, LeafOf(ls, 0, y, o) PROVE Traverse(H, C[<<y, o>>], o) = C[<<y, o + d>>]
    <2>0. y \in Expr /\ o \in Nat /\ Children(y) = {} /\ o + d \in Nat BY <1>4 DEF LeafOf
    <2>1. ASSUME NEW v \in Nat, y = Var(v), v < o + 0 PROVE Traverse(H, C[<<y, o>>], o) = C[<<y, o + d>>]
      <3>1. ~IsLocal(y) BY <2>1, Vars
      <3>2. C[<<y, o>>] = y /\ C[<<y, o + d>>] = y BY <1>1, <2>0, <3>1
      <3>3. v < o BY <2>0, <2>1
      <3>4. H[<<y, o>>] = y BY <1>2, <2>0, <2>1, <3>3
      <3>5. Traverse(H, y, o) = H[<<y, o>>] BY <1>h, <2>0
      <3> QED BY <3>2, <3>4, <3>5
    <2>2. ASSUME IsLocal(y), y \in Members(ls) PROVE Traverse(H, C[<<y, o>>], o) = C[<<y, o + d>>]
      <3>1. PICK i \in 1 .. l : y = ls[i] BY <2>2 DEF Members, l
      <3>2. PICK v \in Nat : v = l - i + o BY <1>0, <2>0
      <3>3. v >= o /\ v + d = l - i + (o + d) BY <1>0, <2>0, <3>2
      <3>4. C[<<y, o>>] = Var(v) BY <1>1, <2>0, <3>1, <3>2
      <3>5. C[<<y, o + d>>] = Var(v + d)
        <4>1. C[<<y, o + d>>] = Var(l - i + (o + d)) BY <1>1, <2>0, <3>1
        <4> QED BY <3>3, <4>1
      <3>6. H[<<Var(v), o>>] = Var(v + d) BY <1>2, <2>0, <3>3
      <3>7. Traverse(H, Var(v), o) = H[<<Var(v), o>>] BY <1>h, <2>0, Vars
      <3> QED BY <3>4, <3>5, <3>6, <3>7
    <2>3. ASSUME IsPlain(y) PROVE Traverse(H, C[<<y, o>>], o) = C[<<y, o + d>>]
      <3>1. C[<<y, o>>] = y /\ C[<<y, o + d>>] = y BY <1>1, <2>0, <2>3 DEF IsPlain
      <3>2. H[<<y, o>>] = y BY <1>2, <2>0, <2>3 DEF IsPlain
      <3>3. Traverse(H, y, o) = H[<<y, o>>] BY <1>h, <2>0
      <3> QED BY <3>1, <3>2, <3>3
    <2> QED BY <1>4, <2>1, <2>2, <2>3 DEF LeafOf
  <1>5. \A y, o : LeafOf(ls, 0, y, o) /\ C[<<y, o + 0>>] \in Expr => Traverse(H, C[<<y, o + 0>>], o + 0) = C[<<y, o + d>>]
    <2>1. \A y, o : LeafOf(ls, 0, y, o) => o + 0 = o BY DEF LeafOf
    <2> QED BY <1>4, <2>1
  <1>6. Traverse(H, Traverse(C, e, 0), 0) = Traverse(C, e, d) BY <1>3, <1>5, Fusing
  <1> QED BY <1>6 DEF AbstrAt, AbstrPlain, ShiftFull, C, H

\* What was moved under one binder more than there is has not the variable of
\* that binder.
LEMMA ReplacingInShifted ==
    ASSUME NEW a, NEW l \in Nat, NEW e, Fits(<<>>, e, l), NEW d \in Nat
    PROVE  Traverse(Replacing(a), ShiftFull(d + 1, e), d) = ShiftFull(d, e)
  <1> DEFINE G == Shifting(d + 1)
             F == Shifting(d)
             H == Replacing(a)
  <1>0. e \in Expr /\ d + 1 \in Nat BY DEF Fits
  <1>1. \A o \in Nat : /\ \A v \in Nat : v >= o => F[<<Var(v), o>>] = Var(v + d)
                       /\ \A v \in Nat : v < o => F[<<Var(v), o>>] = Var(v)
                       /\ \A y \in Expr : y[1] # "var" => F[<<y, o>>] = y
    BY ShiftingIs
  <1>2. \A o \in Nat : /\ \A v \in Nat : v >= o => G[<<Var(v), o>>] = Var(v + (d + 1))
                       /\ \A v \in Nat : v < o => G[<<Var(v), o>>] = Var(v)
                       /\ \A y \in Expr : y[1] # "var" => G[<<y, o>>] = y
    BY ShiftingIs
  <1>3. /\ \A v, o \in Nat : v > o => H[<<Var(v), o>>] = Var(v - 1)
        /\ \A v, o \in Nat : v < o => H[<<Var(v), o>>] = Var(v)
        /\ \A y \in Expr, o \in Nat : y[1] # "var" => H[<<y, o>>] = y
    BY ReplacingIs
  <1>4. Traverse(G, e, 0) \in Expr BY <1>0, ShiftingInside DEF ShiftFull
  <1>h. \A y \in Expr, o \in Nat : Children(y) = {} => Traverse(H, y, o) = H[<<y, o>>] BY AtLeaf
  <1> HIDE DEF F, G, H
  <1>5. ASSUME NEW y, NEW o, LeafOf(<<>>, l, y, o) PROVE Traverse(H, G[<<y, o>>], o + d) = F[<<y, o>>]
    <2>0. y \in Expr /\ o \in Nat /\ Children(y) = {} /\ o + d \in Nat BY <1>5 DEF LeafOf
    <2>1. ASSUME NEW v \in Nat, y = Var(v) PROVE Traverse(H, G[<<y, o>>], o + d) = F[<<y, o>>]
      <3>1. CASE v < o
        <4>1. v < o + d BY <2>0, <3>1
        <4>2. H[<<y, o + d>>] = y BY <1>3, <2>0, <2>1, <4>1
        <4>3. F[<<y, o>>] = y /\ G[<<y, o>>] = y BY <1>1, <1>2, <2>0, <2>1, <3>1
        <4>4. Traverse(H, y, o + d) = H[<<y, o + d>>] BY <1>h, <2>0
        <4> QED BY <4>2, <4>3, <4>4
      <3>2. CASE v >= o
        <4>1. PICK w \in Nat : w = v + (d + 1) OBVIOUS
        <4>2. PICK p \in Nat : p = o + d BY <2>0
        <4>3. w > p /\ w - 1 = v + d BY <2>0, <3>2, <4>1, <4>2
        <4>4. F[<<y, o>>] = Var(v + d) /\ G[<<y, o>>] = Var(w) BY <1>1, <1>2, <2>0, <2>1, <3>2, <4>1
        <4>5. H[<<Var(w), p>>] = Var(w - 1) BY <1>3, <4>3
        <4>6. Traverse(H, Var(w), p) = H[<<Var(w), p>>] BY <1>h, Vars
        <4> QED BY <4>2, <4>3, <4>4, <4>5, <4>6
      <3> QED BY <2>0, <3>1, <3>2
    <2>2. ASSUME IsPlain(y) PROVE Traverse(H, G[<<y, o>>], o + d) = F[<<y, o>>]
      <3>1. F[<<y, o>>] = y /\ G[<<y, o>>] = y BY <1>1, <1>2, <2>0, <2>2 DEF IsPlain
      <3>2. H[<<y, o + d>>] = y BY <1>3, <2>0, <2>2 DEF IsPlain
      <3>3. Traverse(H, y, o + d) = H[<<y, o + d>>] BY <1>h, <2>0
      <3> QED BY <3>1, <3>2, <3>3
    <2>3. Members(<<>>) = {} BY DEF Members
    <2> QED BY <1>5, <2>1, <2>2, <2>3 DEF LeafOf
  <1>6. \A y, o : LeafOf(<<>>, l, y, o) /\ G[<<y, o + 0>>] \in Expr => Traverse(H, G[<<y, o + 0>>], o + d) = F[<<y, o + 0>>]
    <2>1. \A y, o : LeafOf(<<>>, l, y, o) => o + 0 = o BY DEF LeafOf
    <2> QED BY <1>5, <2>1
  <1>7. Traverse(H, Traverse(G, e, 0), d) = Traverse(F, e, 0) BY <1>4, <1>6, Fusing
  <1> QED BY <1>7 DEF ShiftFull, F, G, H

\* After the first k of the arguments: k binders less, an argument for each, and
\* what was open closed.
Passing(ls, args, k) ==
    [x \in Expr \X Nat |->
        IF x[1][1] = "var" /\ x[1][2] - x[2] \in 0 .. k - 1 THEN ShiftFull(x[2], args[k - (x[1][2] - x[2])])
        ELSE Closing(ls)[x]]

Passes(f, ls, args, k, o) ==
    /\ \A v \in Nat : v - o \in 0 .. k - 1 => f[<<Var(v), o>>] = ShiftFull(o, args[k - (v - o)])
    /\ \A v \in Nat : ~(v - o \in 0 .. k - 1) => f[<<Var(v), o>>] = Var(v)
    /\ \A i \in 1 .. Len(ls) : f[<<ls[i], o>>] = Var(Len(ls) - i + o)
    /\ \A y \in Expr : Children(y) = {} /\ IsPlain(y) => f[<<y, o>>] = y

\* What substituting for the first k variables one by one does with a leaf.
LEMMA PassingIs ==
    ASSUME NEW ls, Distinct(ls), NEW args, NEW k \in Nat
    PROVE  \A o \in Nat : Passes(Passing(ls, args, k), ls, args, k, o)
  <1> SUFFICES ASSUME NEW o \in Nat PROVE Passes(Passing(ls, args, k), ls, args, k, o) OBVIOUS
  <1>1. /\ \A i \in 1 .. Len(ls) : Closing(ls)[<<ls[i], o>>] = Var(Len(ls) - i + o)
        /\ \A y \in Expr : ~IsLocal(y) => Closing(ls)[<<y, o>>] = y
    BY ClosingIs
  <1>2. \A i \in 1 .. Len(ls) : ls[i] \in Expr /\ ls[i][1] # "var" BY LocalsAreLeaves DEF Distinct
  <1>3. \A y \in Expr : y[1] # "var" => Passing(ls, args, k)[<<y, o>>] = Closing(ls)[<<y, o>>] BY DEF Passing
  <1>4. ASSUME NEW v \in Nat
        PROVE  /\ v - o \in 0 .. k - 1 => Passing(ls, args, k)[<<Var(v), o>>] = ShiftFull(o, args[k - (v - o)])
               /\ ~(v - o \in 0 .. k - 1) => Passing(ls, args, k)[<<Var(v), o>>] = Var(v)
    <2>1. PICK y : y = Var(v) OBVIOUS
    <2>2. y \in Expr /\ y[1] = "var" /\ y[2] = v /\ ~IsLocal(y) BY <2>1, Vars
    <2>3. Passing(ls, args, k)[<<y, o>>] =
            IF y[1] = "var" /\ y[2] - o \in 0 .. k - 1 THEN ShiftFull(o, args[k - (y[2] - o)]) ELSE Closing(ls)[<<y, o>>]
      BY <2>2 DEF Passing
    <2>4. Closing(ls)[<<y, o>>] = y BY <1>1, <2>2
    <2> QED BY <2>1, <2>2, <2>3, <2>4
  <1> QED BY <1>1, <1>2, <1>3, <1>4 DEF IsPlain, Passes

\* At first nothing has been passed.
LEMMA NothingPassed == ASSUME NEW ls, NEW args PROVE Passing(ls, args, 0) = Closing(ls)
  <1>1. \A x \in Expr \X Nat : ~(x[1][2] - x[2] \in 0 .. 0 - 1) OBVIOUS
  <1> QED BY <1>1 DEF Passing, Closing, Expr

\* Passing one more is replacing the nearest variable.
LEMMA PassingOne ==
    ASSUME NEW ls, Distinct(ls), NEW k \in Nat, NEW args, \A i \in 1 .. k + 1 : Fits(<<>>, args[i], Len(ls)),
           NEW e, Fits(ls, e, k + 1), Traverse(Passing(ls, args, k), e, 1) \in Expr
    PROVE  Subst1Full(Traverse(Passing(ls, args, k), e, 1), args[k + 1]) = Traverse(Passing(ls, args, k + 1), e, 0)
  <1> DEFINE a == args[k + 1]
             G == Passing(ls, args, k)
             F == Passing(ls, args, k + 1)
             H == Replacing(a)
             l == Len(ls)
             m == k + 1
  <1>0. e \in Expr /\ l \in Nat /\ m \in Nat /\ m = k + 1 BY DEF Fits, Distinct
  <1>1. ASSUME NEW o \in Nat
        PROVE  /\ \A v \in Nat : v - o \in 0 .. k - 1 => G[<<Var(v), o>>] = ShiftFull(o, args[k - (v - o)])
               /\ \A v \in Nat : ~(v - o \in 0 .. k - 1) => G[<<Var(v), o>>] = Var(v)
               /\ \A i \in 1 .. l : G[<<ls[i], o>>] = Var(l - i + o)
               /\ \A y \in Expr : Children(y) = {} /\ IsPlain(y) => G[<<y, o>>] = y
    <2>1. Passes(G, ls, args, k, o) BY PassingIs
    <2> QED BY <2>1 DEF Passes
  <1>2. ASSUME NEW o \in Nat
        PROVE  /\ \A v \in Nat : v - o \in 0 .. m - 1 => F[<<Var(v), o>>] = ShiftFull(o, args[m - (v - o)])
               /\ \A v \in Nat : ~(v - o \in 0 .. m - 1) => F[<<Var(v), o>>] = Var(v)
               /\ \A i \in 1 .. l : F[<<ls[i], o>>] = Var(l - i + o)
               /\ \A y \in Expr : Children(y) = {} /\ IsPlain(y) => F[<<y, o>>] = y
    <2>1. Passes(F, ls, args, m, o) BY <1>0, PassingIs
    <2> HIDE DEF m
    <2> QED BY <2>1 DEF Passes
  <1>3. /\ \A o \in Nat : H[<<Var(o), o>>] = ShiftFull(o, a)
        /\ \A v, o \in Nat : v > o => H[<<Var(v), o>>] = Var(v - 1)
        /\ \A v, o \in Nat : v < o => H[<<Var(v), o>>] = Var(v)
        /\ \A y \in Expr, o \in Nat : y[1] # "var" => H[<<y, o>>] = y
    BY ReplacingIs
  <1>4. \A y \in Expr, o \in Nat : Children(y) = {} => Traverse(H, y, o) = H[<<y, o>>] BY AtLeaf
  <1>5. \A i \in 1 .. k, o \in Nat : Traverse(H, ShiftFull(o + 1, args[i]), o) = ShiftFull(o, args[i])
    <2> SUFFICES ASSUME NEW i \in 1 .. k, NEW o \in Nat
                 PROVE  Traverse(H, ShiftFull(o + 1, args[i]), o) = ShiftFull(o, args[i])
      OBVIOUS
    <2>1. Fits(<<>>, args[i], l) OBVIOUS
    <2> QED BY <1>0, <2>1, ReplacingInShifted
  <1>6. Fits(ls, e, m) /\ Traverse(G, e, 1) \in Expr OBVIOUS
  <1>7. \A i \in 1 .. l : ls[i] \in Expr BY DEF Distinct
  <1>g. Subst1Full(Traverse(G, e, 1), a) = Traverse(H, Traverse(G, e, 1), 0) BY DEF Subst1Full
  <1>f. F = Passing(ls, args, k + 1) /\ a = args[k + 1] /\ G = Passing(ls, args, k) OBVIOUS
  <1> HIDE DEF a, G, F, H, l, m
  <1>8. ASSUME NEW y, NEW o, LeafOf(ls, m, y, o) PROVE Traverse(H, G[<<y, o + 1>>], o) = F[<<y, o>>]
    <2>0. y \in Expr /\ o \in Nat /\ Children(y) = {} /\ o + 1 \in Nat BY <1>8 DEF LeafOf
    <2>1. ASSUME NEW v \in Nat, y = Var(v), v < o + m PROVE Traverse(H, G[<<y, o + 1>>], o) = F[<<y, o>>]
      <3>1. Traverse(H, Var(v), o) = H[<<Var(v), o>>] BY <1>4, <2>0, Vars
      <3>2. CASE v < o
        <4>1. ~(v - (o + 1) \in 0 .. k - 1) /\ ~(v - o \in 0 .. m - 1) BY <2>0, <3>2
        <4>2. G[<<Var(v), o + 1>>] = Var(v) BY <1>1, <2>0, <4>1
        <4>3. F[<<Var(v), o>>] = Var(v) BY <1>2, <2>0, <4>1
        <4>4. H[<<Var(v), o>>] = Var(v) BY <1>3, <2>0, <3>2
        <4> QED BY <2>1, <3>1, <4>2, <4>3, <4>4
      <3>3. CASE v = o
        <4>1. ~(v - (o + 1) \in 0 .. k - 1) /\ v - o \in 0 .. m - 1 /\ m - (v - o) = k + 1 BY <1>0, <2>0, <3>3
        <4>2. G[<<Var(v), o + 1>>] = Var(v) BY <1>1, <2>0, <4>1
        <4>3. F[<<Var(v), o>>] = ShiftFull(o, args[m - (v - o)]) BY <1>2, <2>0, <4>1
        <4>4. H[<<Var(v), o>>] = ShiftFull(o, a) BY <1>3, <2>0, <3>3
        <4> QED BY <1>f, <2>1, <3>1, <4>1, <4>2, <4>3, <4>4
      <3>4. CASE v > o
        <4>1. /\ v - (o + 1) \in 0 .. k - 1 /\ v - o \in 0 .. m - 1
              /\ k - (v - (o + 1)) \in 1 .. k /\ m - (v - o) = k - (v - (o + 1))
          BY <1>0, <2>0, <2>1, <3>4
        <4>2. PICK i \in 1 .. k : i = k - (v - (o + 1)) BY <4>1
        <4>3. G[<<Var(v), o + 1>>] = ShiftFull(o + 1, args[k - (v - (o + 1))]) BY <1>1, <2>0, <4>1
        <4>4. F[<<Var(v), o>>] = ShiftFull(o, args[m - (v - o)]) BY <1>2, <2>0, <4>1
        <4>5. Traverse(H, ShiftFull(o + 1, args[i]), o) = ShiftFull(o, args[i]) BY <1>5, <2>0
        <4> QED BY <2>1, <4>1, <4>2, <4>3, <4>4, <4>5
      <3> QED BY <2>0, <3>2, <3>3, <3>4
    <2>2. ASSUME NEW i \in 1 .. l, y = ls[i] PROVE Traverse(H, G[<<y, o + 1>>], o) = F[<<y, o>>]
      <3>1. G[<<y, o + 1>>] = Var(l - i + (o + 1)) /\ F[<<y, o>>] = Var(l - i + o) BY <1>1, <1>2, <2>0, <2>2
      <3>2. PICK v \in Nat : v = l - i + (o + 1) BY <1>0, <2>0
      <3>3. v > o /\ v - 1 = l - i + o BY <1>0, <2>0, <3>2
      <3>4. Traverse(H, Var(v), o) = H[<<Var(v), o>>] BY <1>4, <2>0, Vars
      <3>5. H[<<Var(v), o>>] = Var(v - 1) BY <1>3, <2>0, <3>3
      <3> QED BY <3>1, <3>2, <3>3, <3>4, <3>5
    <2>3. ASSUME IsPlain(y) PROVE Traverse(H, G[<<y, o + 1>>], o) = F[<<y, o>>]
      <3>1. G[<<y, o + 1>>] = y /\ F[<<y, o>>] = y BY <1>1, <1>2, <2>0, <2>3
      <3>2. H[<<y, o>>] = y BY <1>3, <2>0, <2>3 DEF IsPlain
      <3>3. Traverse(H, y, o) = H[<<y, o>>] BY <1>4, <2>0
      <3> QED BY <3>1, <3>2, <3>3
    <2> QED BY <1>8, <2>1, <2>2, <2>3 DEF LeafOf, Members, l
  <1>9. \A y, o : LeafOf(ls, m, y, o) /\ G[<<y, o + 1>>] \in Expr => Traverse(H, G[<<y, o + 1>>], o + 0) = F[<<y, o + 0>>]
    <2>1. \A y, o : LeafOf(ls, m, y, o) => o + 0 = o BY DEF LeafOf
    <2> QED BY <1>8, <2>1
  <1>10. Traverse(H, Traverse(G, e, 1), 0) = Traverse(F, e, 0) BY <1>0, <1>6, <1>9, Fusing
  <1> QED BY <1>10, <1>f, <1>g

\* Instantiating with all of them at once is the same.
LEMMA PassingAll ==
    ASSUME NEW ls, Distinct(ls), NEW new \in Seq(Expr), NEW args,
           \A i \in 1 .. Len(new) : Fits(ls, new[i], 0) /\ AbstrPlain(new[i], ls) = args[i],
           NEW e, Fits(ls, e, Len(new)), InstFull(e, new) \in Expr
    PROVE  /\ Fits(ls, InstFull(e, new), 0)
           /\ AbstrPlain(InstFull(e, new), ls) = Traverse(Passing(ls, args, Len(new)), e, 0)
  <1> DEFINE k == Len(new)
             l == Len(ls)
             G == Filling(new)
             F == Passing(ls, args, k)
             H == Closing(ls)
  <1>0. e \in Expr /\ k \in Nat /\ l \in Nat BY DEF Fits, Distinct
  <1>1. ASSUME NEW o \in Nat
        PROVE  /\ \A v \in Nat : v - o \in 0 .. k - 1 => F[<<Var(v), o>>] = ShiftFull(o, args[k - (v - o)])
               /\ \A v \in Nat : ~(v - o \in 0 .. k - 1) => F[<<Var(v), o>>] = Var(v)
               /\ \A i \in 1 .. l : F[<<ls[i], o>>] = Var(l - i + o)
               /\ \A y \in Expr : Children(y) = {} /\ IsPlain(y) => F[<<y, o>>] = y
    <2>1. Passes(F, ls, args, k, o) BY <1>0, PassingIs
    <2> QED BY <2>1 DEF Passes
  <1>2. ASSUME NEW o \in Nat
        PROVE  /\ \A v \in Nat : v - o \in 0 .. k - 1 => G[<<Var(v), o>>] = new[k - (v - o)]
               /\ \A v \in Nat : ~(v - o \in 0 .. k - 1) => G[<<Var(v), o>>] = Var(v)
               /\ \A y \in Expr : y[1] # "var" => G[<<y, o>>] = y
    <2>1. /\ \A v \in Nat : v - o \in 0 .. Len(new) - 1 => Filling(new)[<<Var(v), o>>] = new[Len(new) - (v - o)]
          /\ \A v \in Nat : ~(v - o \in 0 .. Len(new) - 1) => Filling(new)[<<Var(v), o>>] = Var(v)
          /\ \A y \in Expr : y[1] # "var" => Filling(new)[<<y, o>>] = y
      BY FillingIs
    <2> QED BY <2>1
  <1>3. \A o \in Nat : /\ \A i \in 1 .. l : H[<<ls[i], o>>] = Var(l - i + o)
                       /\ \A y \in Expr : ~IsLocal(y) => H[<<y, o>>] = y
    BY ClosingIs
  <1>4. \A y \in Expr, o \in Nat : Children(y) = {} => Traverse(H, y, o) = H[<<y, o>>] BY AtLeaf
  <1>5. ASSUME NEW i \in 1 .. k, NEW o \in Nat
        PROVE  Traverse(H, new[i], o) = ShiftFull(o, args[i]) /\ Fits(ls, new[i], o)
    <2>1. Fits(ls, new[i], 0) /\ AbstrPlain(new[i], ls) = args[i] OBVIOUS
    <2>2. AbstrAt(new[i], ls, o) = ShiftFull(o, AbstrPlain(new[i], ls)) BY <2>1, ClosingUnder
    <2>3. 0 <= o /\ Members(ls) \subseteq Members(ls) OBVIOUS
    <2>4. Fits(ls, new[i], o) BY <2>1, <2>3, FitsMore
    <2> QED BY <2>1, <2>2, <2>4 DEF AbstrAt
  <1>6. Fits(ls, e, k) /\ InstFull(e, new) = Traverse(G, e, 0) /\ Traverse(G, e, 0) \in Expr BY DEF InstFull
  <1>7. \A i \in 1 .. l : ls[i] \in Expr BY DEF Distinct
  <1>f. F = Passing(ls, args, Len(new)) /\ H = Closing(ls) OBVIOUS
  <1> HIDE DEF k, l, G, F, H
  <1>8. ASSUME NEW y, NEW o, LeafOf(ls, k, y, o)
        PROVE  Traverse(H, G[<<y, o>>], o) = F[<<y, o>>] /\ Fits(ls, G[<<y, o>>], o)
    <2>0. y \in Expr /\ o \in Nat /\ Children(y) = {} BY <1>8 DEF LeafOf
    <2>1. ASSUME NEW v \in Nat, y = Var(v), v < o + k
          PROVE  Traverse(H, G[<<y, o>>], o) = F[<<y, o>>] /\ Fits(ls, G[<<y, o>>], o)
      <3>1. CASE v < o
        <4>1. ~(v - o \in 0 .. k - 1) BY <2>0, <3>1
        <4>2. G[<<Var(v), o>>] = Var(v) BY <1>2, <2>0, <4>1
        <4>3. F[<<Var(v), o>>] = Var(v) BY <1>1, <2>0, <4>1
        <4>4. H[<<Var(v), o>>] = Var(v) BY <1>3, <2>0, Vars
        <4>5. Traverse(H, Var(v), o) = H[<<Var(v), o>>] BY <1>4, <2>0, Vars
        <4>6. Fits(ls, Var(v), o) BY <2>0, <3>1, FittingLeaves
        <4> QED BY <2>1, <4>2, <4>3, <4>4, <4>5, <4>6
      <3>2. CASE v >= o
        <4>1. v - o \in 0 .. k - 1 /\ k - (v - o) \in 1 .. k BY <1>0, <2>0, <2>1, <3>2
        <4>2. PICK i \in 1 .. k : i = k - (v - o) BY <4>1
        <4>3. G[<<Var(v), o>>] = new[i] BY <1>2, <2>0, <4>1, <4>2
        <4>4. F[<<Var(v), o>>] = ShiftFull(o, args[i]) BY <1>1, <2>0, <4>1, <4>2
        <4>5. Traverse(H, new[i], o) = ShiftFull(o, args[i]) /\ Fits(ls, new[i], o) BY <1>5, <2>0
        <4> QED BY <2>1, <4>3, <4>4, <4>5
      <3> QED BY <2>0, <3>1, <3>2
    <2>2. ASSUME NEW i \in 1 .. l, y = ls[i], IsLocal(y)
          PROVE  Traverse(H, G[<<y, o>>], o) = F[<<y, o>>] /\ Fits(ls, G[<<y, o>>], o)
      <3>1. G[<<y, o>>] = y BY <1>2, <2>0, <2>2, LocalsAreLeaves
      <3>2. F[<<y, o>>] = Var(l - i + o) BY <1>1, <2>0, <2>2
      <3>3. H[<<y, o>>] = Var(l - i + o) BY <1>3, <2>0, <2>2
      <3>4. Traverse(H, y, o) = H[<<y, o>>] BY <1>4, <2>0
      <3>5. y \in Members(ls) BY <2>2 DEF Members, l
      <3>6. Fits(ls, y, o) BY <2>0, <2>2, <3>5, FittingLeaves
      <3> QED BY <3>1, <3>2, <3>3, <3>4, <3>6
    <2>3. ASSUME IsPlain(y) PROVE Traverse(H, G[<<y, o>>], o) = F[<<y, o>>] /\ Fits(ls, G[<<y, o>>], o)
      <3>1. G[<<y, o>>] = y BY <1>2, <2>0, <2>3 DEF IsPlain
      <3>2. F[<<y, o>>] = y BY <1>1, <2>0, <2>3
      <3>3. H[<<y, o>>] = y BY <1>3, <2>0, <2>3 DEF IsPlain
      <3>4. Traverse(H, y, o) = H[<<y, o>>] BY <1>4, <2>0
      <3>5. Fits(ls, y, o) BY <2>0, <2>3, FittingLeaves
      <3> QED BY <3>1, <3>2, <3>3, <3>4, <3>5
    <2> QED BY <1>8, <2>1, <2>2, <2>3 DEF LeafOf, Members, l
  <1>9. \A y, o : LeafOf(ls, k, y, o) => o + 0 = o BY DEF LeafOf
  <1>10. \A y, o : LeafOf(ls, k, y, o) /\ G[<<y, o + 0>>] \in Expr => Traverse(H, G[<<y, o + 0>>], o + 0) = F[<<y, o + 0>>]
    BY <1>8, <1>9
  <1>11. \A y, o : LeafOf(ls, k, y, o) /\ G[<<y, o + 0>>] \in Expr => Fits(ls, G[<<y, o + 0>>], o + 0)
    BY <1>8, <1>9
  <1>12. Traverse(H, Traverse(G, e, 0), 0) = Traverse(F, e, 0)
    <2>1. k \in Nat /\ Fits(ls, e, k) /\ Traverse(G, e, 0) \in Expr BY <1>0, <1>6
    <2> QED BY ONLY <1>10, <2>1, 0 \in Nat, Fusing
  <1>13. Fits(ls, Traverse(G, e, 0), 0)
    <2>1. k \in Nat /\ Fits(ls, e, k) /\ Traverse(G, e, 0) \in Expr BY <1>0, <1>6
    <2> QED BY ONLY <1>11, <2>1, 0 \in Nat, Distinct(ls), FitsAfter
  <1> QED BY <1>6, <1>12, <1>13, <1>f DEF AbstrPlain, AbstrAt

-----------------------------------------------------------------------------
(* Telescopes and spines.                                                  *)

DownFrom(s) == s[1]
DownOnce(s, n, e) == e[s[2]]

Descending == INSTANCE Recursion WITH Base <- DownFrom, Step <- DownOnce

\* Going down one step at a time.
LEMMA DownIs == ASSUME NEW e, NEW i PROVE Down(e, i)[0] = e /\ \A k \in Nat : Down(e, i)[k + 1] = Down(e, i)[k][i]
  <1> DEFINE s == <<e, i>>
             G(f) == [k \in Nat |-> IF k = 0 THEN e ELSE f[k - 1][i]]
  <1>1. \E f : f = [n \in Nat |-> IF n = 0 THEN DownFrom(s) ELSE DownOnce(s, n, f[n - 1])] BY Descending!HasSolution
  <1>2. \E f : f = G(f) BY <1>1 DEF DownFrom, DownOnce
  <1>3. Down(e, i) = CHOOSE f : f = G(f) BY DEF Down
  <1>4. Down(e, i) = G(Down(e, i))
    <2> HIDE DEF G
    <2> QED BY <1>2, <1>3
  <1> DEFINE d == Down(e, i)
  <1>5. d = [k \in Nat |-> IF k = 0 THEN e ELSE d[k - 1][i]] BY <1>4
  <1> HIDE DEF d
  <1>6. d[0] = e BY <1>5
  <1>7. ASSUME NEW k \in Nat PROVE d[k + 1] = d[k][i]
    <2>1. k + 1 \in Nat /\ k + 1 # 0 /\ (k + 1) - 1 = k OBVIOUS
    <2> QED BY <1>5, <2>1
  <1> QED BY <1>6, <1>7 DEF d

\* What is gone through: binders by their bodies, applications by their functions.
IsWay(i, tag) == (i = 3 /\ tag \in {"pi", "lam"}) \/ (i = 2 /\ tag = "app")

\* How many binders k steps of that go under.
Reach(i, k) == IF i = 3 THEN k ELSE 0

IsRun(e, i, tag, n) ==
    /\ n \in 0 .. ExprDepth
    /\ \A k \in 0 .. n - 1 : Down(e, i)[k][1] = tag
    /\ Down(e, i)[n][1] # tag

\* Where a run of applications or binders can go on.
LEMMA WaysAreNodes ==
    ASSUME NEW i, NEW tag, IsWay(i, tag), NEW e, e[1] = tag
    PROVE  i \in Children(e) /\ \A o \in Nat : Below(e, i, o) = o + Reach(i, 1)
  BY DEF IsWay, Children, Below, Reach, IsBinder

\* There is an end, and one only.
LEMMA RunExists ==
    ASSUME NEW i, NEW tag, IsWay(i, tag), NEW e \in Expr
    PROVE  /\ IsRun(e, i, tag, RunLength(e, i, tag))
           /\ \A n : IsRun(e, i, tag, n) => n = RunLength(e, i, tag)
  <1> DEFINE D == Down(e, i)
             S == {k \in Nat : D[k][1] # tag}
             T == {k \in Nat : k <= ExprDepth /\ (\A j \in 0 .. k - 1 : D[j][1] = tag) => D[k] \in ExprsTo[ExprDepth - k]}
  <1>1. D[0] = e /\ \A k \in Nat : D[k + 1] = D[k][i] BY DownIs
  <1>2. Nat \subseteq T
    <2>1. 0 \in T BY <1>1, ExprDepthAssumption DEF Expr
    <2>2. ASSUME NEW k \in Nat, k \in T PROVE k + 1 \in T
      <3> SUFFICES ASSUME k + 1 <= ExprDepth, \A j \in 0 .. (k + 1) - 1 : D[j][1] = tag
                   PROVE  D[k + 1] \in ExprsTo[ExprDepth - (k + 1)]
        OBVIOUS
      <3>1. PICK m \in Nat : m = ExprDepth - (k + 1) BY ExprDepthAssumption
      <3>2. \A j \in 0 .. k - 1 : D[j][1] = tag OBVIOUS
      <3>3. D[k] \in ExprsTo[ExprDepth - k]
        <4>1. k <= ExprDepth BY ExprDepthAssumption
        <4> QED BY <2>2, <3>2, <4>1
      <3>4. ExprDepth - k = m + 1 BY <3>1, ExprDepthAssumption
      <3>5. D[k] \in ExprsOver(ExprsTo[m]) BY <3>3, <3>4, StageFacts
      <3>6. D[k][1] = tag
        <4>1. k \in 0 .. (k + 1) - 1 OBVIOUS
        <4> QED BY <4>1
      <3>7. i \in Children(D[k]) BY <3>6, WaysAreNodes
      <3>8. D[k][i] \in ExprsTo[m] BY <3>5, <3>7, NodeParts DEF Node
      <3> QED BY <1>1, <3>1, <3>8
    <2> HIDE DEF T
    <2> QED BY <2>1, <2>2, Descending!Induction
  <1>3. \E k \in S : k < ExprDepth
    <2> SUFFICES ASSUME \A k \in S : ~(k < ExprDepth) PROVE FALSE OBVIOUS
    <2>1. \A j \in 0 .. ExprDepth - 1 : D[j][1] = tag BY ExprDepthAssumption
    <2>2. ExprDepth \in T BY <1>2, ExprDepthAssumption
    <2>3. ExprDepth \in Nat /\ ExprDepth <= ExprDepth /\ ExprDepth - ExprDepth = 0 BY ExprDepthAssumption
    <2> HIDE DEF D, S
    <2>4. D[ExprDepth] \in ExprsTo[0] BY <2>1, <2>2, <2>3
    <2> QED BY <2>4, StageFacts
  <1>4. PICK n \in S : \A k \in S : n <= k
    <2>1. S # {} /\ S \subseteq Nat BY <1>3
    <2> HIDE DEF S
    <2> QED BY <2>1, Descending!Least
  <1>5. n < ExprDepth BY <1>3, <1>4, ExprDepthAssumption
  <1>6. IsRun(e, i, tag, n) BY <1>4, <1>5, ExprDepthAssumption DEF IsRun
  <1>7. ASSUME NEW k, NEW l, IsRun(e, i, tag, k), IsRun(e, i, tag, l) PROVE k = l
    <2>1. k \in Nat /\ l \in Nat BY <1>7, ExprDepthAssumption DEF IsRun
    <2>2. ~(k < l) BY <1>7, <2>1 DEF IsRun
    <2>3. ~(l < k) BY <1>7, <2>1 DEF IsRun
    <2> QED BY <2>1, <2>2, <2>3
  <1>8. RunLength(e, i, tag) = CHOOSE k \in 0 .. ExprDepth : IsRun(e, i, tag, k)
    BY DEF RunLength, IsRun
  <1>9. RunLength(e, i, tag) = n
    <2>1. n \in 0 .. ExprDepth BY <1>6 DEF IsRun
    <2> QED BY <1>6, <1>7, <1>8, <2>1
  <1> QED BY <1>6, <1>7, <1>9

\* Closing locals keeps what is not a leaf, and makes nothing else of a leaf.
LEMMA TagsKept ==
    ASSUME NEW ls, Distinct(ls), NEW e \in Expr, NEW o \in Nat
    PROVE  /\ Children(e) # {} => SameKind(AbstrAt(e, ls, o), e)
           /\ Children(e) = {} => Children(AbstrAt(e, ls, o)) = {}
  <1>1. ASSUME Children(e) # {} PROVE SameKind(AbstrAt(e, ls, o), e) BY <1>1, TraverseNode DEF AbstrAt
  <1>2. ASSUME Children(e) = {} PROVE Children(AbstrAt(e, ls, o)) = {}
    <2>1. AbstrAt(e, ls, o) = Closing(ls)[<<e, o>>] BY <1>2, AtLeaf DEF AbstrAt
    <2>2. CASE e \in Members(ls)
      <3>1. PICK i \in 1 .. Len(ls) : e = ls[i] BY <2>2 DEF Members
      <3>2. PICK v \in Nat : v = Len(ls) - i + o
        <4>1. Len(ls) \in Nat BY DEF Distinct
        <4>2. Len(ls) - i + o \in Nat BY <4>1
        <4> QED BY <4>2
      <3>3. Closing(ls)[<<e, o>>] = Var(v) BY <3>1, <3>2, ClosingIs
      <3> QED BY <2>1, <3>3, Vars
    <2>3. CASE e \notin Members(ls)
      <3>1. Closing(ls)[<<e, o>>] = e BY <2>3, ClosingIs
      <3> QED BY <1>2, <2>1, <3>1
    <2> QED BY <2>2, <2>3
  <1> QED BY <1>1, <1>2

\* What stands for something does so all the way down.
WayDown(ls, e, p, i, tag, n) ==
    /\ n \in Nat /\ n = RunLength(e, i, tag) /\ n = RunLength(p, i, tag)
    /\ \A k \in 0 .. n : /\ Fits(ls, Down(e, i)[k], Reach(i, k))
                         /\ Down(p, i)[k] = AbstrAt(Down(e, i)[k], ls, Reach(i, k))
    /\ \A k \in 0 .. n - 1 : Down(e, i)[k][1] = tag /\ Down(p, i)[k][1] = tag
    /\ Down(e, i)[n][1] # tag

\* An expression and what it stands for have the same run of applications or binders.
LEMMA StandsDown ==
    ASSUME NEW ls, Distinct(ls), NEW e, Fits(ls, e, 0), NEW i, NEW tag, IsWay(i, tag)
    PROVE  WayDown(ls, e, AbstrPlain(e, ls), i, tag, RunLength(e, i, tag))
  <1> DEFINE p == AbstrPlain(e, ls)
             n == RunLength(e, i, tag)
             D == Down(e, i)
             P == Down(p, i)
             S == {k \in Nat : k <= n => Fits(ls, D[k], Reach(i, k)) /\ P[k] = AbstrAt(D[k], ls, Reach(i, k))}
  <1>0. e \in Expr /\ p \in Expr BY MeaningFits DEF Fits
  <1>1. IsRun(e, i, tag, n) BY <1>0, RunExists
  <1>2. n \in Nat BY <1>1, ExprDepthAssumption DEF IsRun
  <1>3. /\ D[0] = e /\ \A k \in Nat : D[k + 1] = D[k][i]
        /\ P[0] = p /\ \A k \in Nat : P[k + 1] = P[k][i]
    BY DownIs
  <1>4. \A k \in Nat : Reach(i, k) \in Nat /\ Reach(i, k + 1) = Reach(i, k) + Reach(i, 1) BY DEF Reach
  <1>5. \A k \in 0 .. n - 1 : D[k][1] = tag BY <1>1 DEF IsRun
  <1>p. p = AbstrAt(e, ls, 0) BY DEF AbstrPlain
  <1>n. n = RunLength(e, i, tag) OBVIOUS
  <1> HIDE DEF p, n
  <1>6. ASSUME NEW k \in Nat, k < n, Fits(ls, D[k], Reach(i, k)), P[k] = AbstrAt(D[k], ls, Reach(i, k))
        PROVE  /\ Fits(ls, D[k + 1], Reach(i, k + 1)) /\ P[k + 1] = AbstrAt(D[k + 1], ls, Reach(i, k + 1))
               /\ P[k][1] = tag
    <2>1. D[k][1] = tag /\ D[k] \in Expr BY <1>2, <1>5, <1>6 DEF Fits
    <2>2. i \in Children(D[k]) /\ Below(D[k], i, Reach(i, k)) = Reach(i, k + 1) BY <1>4, <2>1, WaysAreNodes
    <2>3. Fits(ls, D[k][i], Reach(i, k + 1)) BY <1>4, <1>6, <2>1, <2>2, PartsFit
    <2>4. /\ SameKind(Traverse(Closing(ls), D[k], Reach(i, k)), D[k])
          /\ Traverse(Closing(ls), D[k], Reach(i, k))[i] = Traverse(Closing(ls), D[k][i], Reach(i, k + 1))
      <3>1. PICK y : y = D[k] OBVIOUS
      <3>2. PICK o \in Nat : o = Reach(i, k) BY <1>4
      <3>3. y \in Expr /\ Children(y) # {} /\ i \in Children(y) BY <2>1, <2>2, <3>1
      <3>4. /\ SameKind(Traverse(Closing(ls), y, o), y)
            /\ Traverse(Closing(ls), y, o)[i] = Traverse(Closing(ls), y[i], Below(y, i, o))
        BY <3>3, TraverseNode
      <3> QED BY <2>2, <3>1, <3>2, <3>4
    <2> QED BY <1>3, <1>6, <2>1, <2>3, <2>4 DEF AbstrAt, SameKind
  <1>7. 0 \in S
    <2>1. Reach(i, 0) = 0 BY DEF Reach
    <2> QED BY <1>3, <1>p, <2>1
  <1>8. ASSUME NEW k \in Nat, k \in S PROVE k + 1 \in S
    <2> SUFFICES ASSUME k + 1 <= n PROVE Fits(ls, D[k + 1], Reach(i, k + 1)) /\ P[k + 1] = AbstrAt(D[k + 1], ls, Reach(i, k + 1))
      OBVIOUS
    <2>1. k <= n /\ k < n BY <1>2
    <2> QED BY <1>6, <1>8, <2>1
  <1>9. Nat \subseteq S
    <2> HIDE DEF S
    <2> QED BY <1>7, <1>8, Descending!Induction
  <1>10. \A k \in 0 .. n : Fits(ls, D[k], Reach(i, k)) /\ P[k] = AbstrAt(D[k], ls, Reach(i, k)) BY <1>2, <1>9
  <1>11. \A k \in 0 .. n - 1 : P[k][1] = tag BY <1>2, <1>6, <1>10
  <1>12. P[n][1] # tag
    <2>1. D[n] \in Expr /\ P[n] = AbstrAt(D[n], ls, Reach(i, n)) BY <1>2, <1>10 DEF Fits
    <2>2. D[n][1] # tag BY <1>1 DEF IsRun
    <2>3. CASE Children(D[n]) # {}
      <3>1. SameKind(P[n], D[n]) BY <1>2, <1>4, <2>1, <2>3, TagsKept
      <3> QED BY <2>2, <3>1 DEF SameKind
    <2>4. CASE Children(D[n]) = {}
      <3>1. Children(P[n]) = {} BY <1>2, <1>4, <2>1, <2>4, TagsKept
      <3> QED BY <3>1, WaysAreNodes
    <2> QED BY <2>3, <2>4
  <1>13. IsRun(p, i, tag, n) BY <1>1, <1>11, <1>12 DEF IsRun
  <1>14. n = RunLength(p, i, tag) BY <1>0, <1>13, RunExists
  <1> QED BY <1>1, <1>2, <1>5, <1>10, <1>11, <1>14, <1>n DEF WayDown, IsRun, p

-----------------------------------------------------------------------------
(* Telescopes opened.                                                      *)

\* A list of the first k values of a function, and one more.
LEMMA OneMore ==
    ASSUME NEW f, NEW k \in Nat
    PROVE  /\ Append([i \in 1 .. k |-> f[i]], f[k + 1]) = [i \in 1 .. k + 1 |-> f[i]]
           /\ Len([i \in 1 .. k |-> f[i]]) = k
  <1> DEFINE X == {f[i] : i \in 1 .. k + 1}
             s == [i \in 1 .. k |-> f[i]]
             t == [i \in 1 .. k + 1 |-> f[i]]
             u == Append(s, f[k + 1])
  <1>1. s \in Seq(X) /\ Len(s) = k /\ t \in Seq(X) /\ Len(t) = k + 1 /\ f[k + 1] \in X OBVIOUS
  <1>2. \A i \in 1 .. k : s[i] = f[i] OBVIOUS
  <1>3. \A i \in 1 .. k + 1 : t[i] = f[i] OBVIOUS
  <1> HIDE DEF s, t, X
  <1>4. u \in Seq(X) /\ Len(u) = k + 1 /\ (\A i \in 1 .. k : u[i] = s[i]) /\ u[k + 1] = f[k + 1] BY <1>1
  <1> HIDE DEF u
  <1>5. \A i \in 1 .. k + 1 : u[i] = t[i] BY <1>2, <1>3, <1>4
  <1>6. u = t BY <1>1, <1>4, <1>5
  <1> QED BY <1>1, <1>6 DEF s, t, u

NoLocals(s) == <<>>
NextLocal(s, n, prev) == Append(prev, MkLocal(s[1], s[2] + n - 1, InstFull(s[3][n], prev)))

Telescoping == INSTANCE Recursion WITH Base <- NoLocals, Step <- NextLocal

\* The locals for the first k types.
LocalsUpTo(how, first, types) ==
    LET L[k \in Nat] ==
            IF k = 0 THEN <<>> ELSE Append(L[k - 1], MkLocal(how, first + k - 1, InstFull(types[k], L[k - 1])))
    IN L

\* The first k locals, each put over those before it.
LocalsList(how, first, types, L, k) == [i \in 1 .. k |-> MkLocal(how, first + i - 1, InstFull(types[i], L[i - 1]))]

\* The locals for a telescope, one at a time.
LEMMA LocalsForIs ==
    ASSUME NEW how, NEW first, NEW types
    PROVE  LET L == LocalsUpTo(how, first, types) IN
           /\ LocalsFor(how, first, types) = L[Len(types)]
           /\ \A k \in Nat : Len(L[k]) = k /\ L[k] = LocalsList(how, first, types, L, k)
  <1> DEFINE s == <<how, first, types>>
             G(f) == [k \in Nat |->
                        IF k = 0 THEN <<>> ELSE Append(f[k - 1], MkLocal(how, first + k - 1, InstFull(types[k], f[k - 1])))]
             L == LocalsUpTo(how, first, types)
             M == [i \in Nat |-> MkLocal(how, first + i - 1, InstFull(types[i], L[i - 1]))]
             S == {k \in Nat : L[k] = [i \in 1 .. k |-> M[i]]}
  <1>1. \E f : f = [n \in Nat |-> IF n = 0 THEN NoLocals(s) ELSE NextLocal(s, n, f[n - 1])] BY Telescoping!HasSolution
  <1>2. \E f : f = G(f) BY <1>1 DEF NoLocals, NextLocal
  <1>3. L = CHOOSE f : f = G(f) BY DEF LocalsUpTo
  <1>4. L = G(L)
    <2> HIDE DEF G, L
    <2> QED BY <1>2, <1>3
  <1>5. LocalsFor(how, first, types) = L[Len(types)] BY DEF LocalsFor, LocalsUpTo
  <1> HIDE DEF L
  <1>6. L[0] = <<>> /\ \A k \in Nat : L[k + 1] = Append(L[k], M[k + 1])
    <2>1. L[0] = <<>> BY <1>4
    <2>2. ASSUME NEW k \in Nat PROVE L[k + 1] = Append(L[k], M[k + 1])
      <3>1. k + 1 \in Nat /\ k + 1 # 0 /\ (k + 1) - 1 = k OBVIOUS
      <3>2. G(L)[k + 1] = Append(L[(k + 1) - 1], MkLocal(how, first + (k + 1) - 1, InstFull(types[k + 1], L[(k + 1) - 1])))
        BY <3>1
      <3>3. M[k + 1] = MkLocal(how, first + (k + 1) - 1, InstFull(types[k + 1], L[(k + 1) - 1])) BY <3>1
      <3> HIDE DEF G, M
      <3> QED BY <1>4, <3>1, <3>2, <3>3
    <2> QED BY <2>1, <2>2
  <1>7. Nat \subseteq S
    <2> HIDE DEF M
    <2>1. 0 \in S BY <1>6
    <2>2. ASSUME NEW k \in Nat, k \in S PROVE k + 1 \in S
      <3>1. L[k] = [i \in 1 .. k |-> M[i]] BY <2>2
      <3>2. Append([i \in 1 .. k |-> M[i]], M[k + 1]) = [i \in 1 .. k + 1 |-> M[i]] BY OneMore
      <3>3. L[k + 1] = Append(L[k], M[k + 1]) BY <1>6
      <3>4. L[k + 1] = [i \in 1 .. k + 1 |-> M[i]] BY <3>1, <3>2, <3>3
      <3> QED BY <3>4
    <2> HIDE DEF S
    <2> QED BY <2>1, <2>2, Telescoping!Induction
  <1>8. ASSUME NEW k \in Nat
        PROVE  Len(L[k]) = k /\ L[k] = LocalsList(how, first, types, L, k)
    <2>1. L[k] = [i \in 1 .. k |-> M[i]] BY <1>7
    <2>2. Len([i \in 1 .. k |-> M[i]]) = k
      <3> HIDE DEF M
      <3> QED BY OneMore
    <2>3. LocalsList(how, first, types, L, k) = [i \in 1 .. k |-> M[i]] BY DEF LocalsList
    <2> HIDE DEF M
    <2> QED BY <2>1, <2>2, <2>3
  <1>9. L = LocalsUpTo(how, first, types) BY DEF L
  <1> QED BY <1>5, <1>8, <1>9

\* The first of a list.
LEMMA Prefixes ==
    ASSUME NEW S, NEW s \in Seq(S), NEW k \in 0 .. Len(s)
    PROVE  SubSeq(s, 1, k) \in Seq(S) /\ Len(SubSeq(s, 1, k)) = k /\ \A i \in 1 .. k : SubSeq(s, 1, k)[i] = s[i]
  OBVIOUS

\* Lists are equal if their elements are.
LEMMA SameLists ==
    ASSUME NEW S, NEW s \in Seq(S), NEW T, NEW t \in Seq(T), Len(s) = Len(t), \A i \in 1 .. Len(s) : s[i] = t[i]
    PROVE  s = t
  OBVIOUS

-----------------------------------------------------------------------------
(* What the open locals and the expressions over them stand for.           *)

\* e stands for p over ls.
Stands(ls, e, p) == Fits(ls, e, 0) /\ p = AbstrPlain(e, ls)

\* Each local has a type over those before it, which stands for that of its
\* binder.
Scoped(ls, types) ==
    /\ Distinct(ls) /\ types \in Seq(Expr) /\ Len(types) = Len(ls)
    /\ \A i \in 1 .. Len(ls) : Stands(SubSeq(ls, 1, i - 1), ls[i][4], types[i])

\* No local has a number that is going to be given.
Fresh(ls, how, first) ==
    \A i \in 1 .. Len(ls) : IsLocal(ls[i]) /\ (ls[i][2] = how => ls[i][3] \in Nat /\ ls[i][3] < first)

\* Locals numbered in order, one for each binder.
InOrder(new, how, first) == \A i \in 1 .. Len(new) : new[i] = MkLocal(how, first + i - 1, new[i][4])

\* A local of either kind.
LEMMA MkLocalIs ==
    ASSUME NEW how \in {"dbj", "unique"}, NEW n, NEW t
    PROVE  MkLocal(how, n, t) = <<"local", how, n, t>>
  BY DEF MkLocal, DbjLevel, Unique

\* New locals are none of the open ones.
LEMMA FreshAreDistinct ==
    ASSUME NEW ls, Distinct(ls), NEW how \in {"dbj", "unique"}, NEW first \in Nat, Fresh(ls, how, first),
           NEW new \in Seq(Expr), InOrder(new, how, first)
    PROVE  Distinct(ls \o new)
  <1> DEFINE l == Len(ls)
             both == ls \o new
  <1>0. ls \in Seq(Expr) BY DEF Distinct
  <1>1. /\ both \in Seq(Expr) /\ Len(both) = l + Len(new) /\ l \in Nat /\ Len(new) \in Nat
        /\ \A i \in 1 .. l : both[i] = ls[i]
        /\ \A i \in 1 .. Len(new) : both[l + i] = new[i]
    BY <1>0, Joined
  <1>2. ASSUME NEW i \in 1 .. Len(new) PROVE IsLocal(new[i]) /\ new[i][2] = how /\ new[i][3] = first + i - 1
    BY MkLocalIs DEF InOrder, IsLocal
  <1>3. ASSUME NEW i \in 1 .. l, NEW j \in 1 .. Len(new) PROVE ls[i] # new[j]
    <2>1. new[j][2] = how /\ new[j][3] = first + j - 1 BY <1>2
    <2>2. ls[i][2] = how => ls[i][3] \in Nat /\ ls[i][3] < first BY DEF Fresh
    <2> QED BY <2>1, <2>2
  <1>4. ASSUME NEW i \in 1 .. Len(new), NEW j \in 1 .. Len(new), new[i] = new[j] PROVE i = j
    <2>1. new[i][3] = first + i - 1 /\ new[j][3] = first + j - 1 BY <1>2
    <2> QED BY <1>4, <2>1
  <1>5. \A i \in 1 .. l : IsLocal(ls[i]) BY DEF Distinct
  <1>6. \A i, j \in 1 .. l : ls[i] = ls[j] => i = j BY DEF Distinct
  <1> HIDE DEF both, l
  <1>7. ASSUME NEW i \in 1 .. Len(both)
        PROVE  \/ i \in 1 .. l /\ both[i] = ls[i]
               \/ \E k \in 1 .. Len(new) : i = l + k /\ both[i] = new[k]
    <2>1. CASE i <= l BY <1>1, <2>1
    <2>2. CASE ~(i <= l)
      <3>1. i - l \in 1 .. Len(new) /\ i = l + (i - l) BY <1>1, <2>2
      <3> QED BY <1>1, <3>1
    <2> QED BY <2>1, <2>2
  <1>8. \A i \in 1 .. Len(both) : IsLocal(both[i]) BY <1>2, <1>5, <1>7
  <1>9. ASSUME NEW i \in 1 .. Len(both), NEW j \in 1 .. Len(both), both[i] = both[j] PROVE i = j
    <2>1. CASE i \in 1 .. l /\ both[i] = ls[i] BY <1>3, <1>6, <1>7, <1>9, <2>1
    <2>2. CASE \E k \in 1 .. Len(new) : i = l + k /\ both[i] = new[k] BY <1>3, <1>4, <1>7, <1>9, <2>2
    <2> QED BY <1>7, <2>1, <2>2
  <1> QED BY <1>1, <1>8, <1>9 DEF Distinct, both

\* The first of two lists joined.
LEMMA JoinedPrefix ==
    ASSUME NEW ls \in Seq(Expr), NEW new \in Seq(Expr)
    PROVE  /\ \A k \in 0 .. Len(ls) : SubSeq(ls \o new, 1, k) = SubSeq(ls, 1, k)
           /\ \A k \in 0 .. Len(new) : SubSeq(ls \o new, 1, Len(ls) + k) = ls \o SubSeq(new, 1, k)
  <1>1. ASSUME NEW k \in 0 .. Len(ls) PROVE SubSeq(ls \o new, 1, k) = SubSeq(ls, 1, k) OBVIOUS
  <1>2. ASSUME NEW k \in 0 .. Len(new) PROVE SubSeq(ls \o new, 1, Len(ls) + k) = ls \o SubSeq(new, 1, k) OBVIOUS
  <1> QED BY <1>1, <1>2

\* A function on the first numbers is a list.
IsList(f, n) == f = [i \in 1 .. n |-> f[i]]

\* A function on 1 .. n is a list of length n.
LEMMA ListMade ==
    ASSUME NEW S, NEW n \in Nat, NEW f, IsList(f, n), \A i \in 1 .. n : f[i] \in S
    PROVE  f \in Seq(S) /\ Len(f) = n
  BY DEF IsList

\* Positions of two lists joined.
LEMMA JoinedCases ==
    ASSUME NEW l \in Nat, NEW n \in Nat, NEW i \in 1 .. l + n
    PROVE  i \in 1 .. l \/ \E j \in 1 .. n : i = l + j
  <1>1. CASE ~(i <= l)
    <2>1. i - l \in 1 .. n /\ i = l + (i - l) BY <1>1
    <2> QED BY <2>1
  <1> QED BY <1>1

\* The first locals of distinct locals are distinct.
LEMMA PrefixDistinct ==
    ASSUME NEW ls, Distinct(ls), NEW k \in 0 .. Len(ls)
    PROVE  Distinct(SubSeq(ls, 1, k)) /\ Members(SubSeq(ls, 1, k)) \subseteq Members(ls)
  <1>1. ls \in Seq(Expr) BY DEF Distinct
  <1>2. /\ SubSeq(ls, 1, k) \in Seq(Expr) /\ Len(SubSeq(ls, 1, k)) = k
        /\ \A i \in 1 .. k : SubSeq(ls, 1, k)[i] = ls[i]
    BY <1>1, Prefixes
  <1>3. 1 .. k \subseteq 1 .. Len(ls) BY <1>1
  <1> QED BY <1>2, <1>3 DEF Distinct, Members

\* What is below a binder, and its type.
LEMMA BinderParts ==
    ASSUME NEW ls, Distinct(ls), NEW e, NEW p, NEW k \in Nat, Fits(ls, e, k), p = AbstrAt(e, ls, k), IsBinder(e)
    PROVE  Fits(ls, e[2], k) /\ p[2] = AbstrAt(e[2], ls, k)
  <1>1. e \in Expr BY DEF Fits
  <1>2. 2 \in Children(e) /\ Below(e, 2, k) = k BY DEF Children, Below, IsBinder
  <1>3. Fits(ls, e[2], k) BY <1>1, <1>2, PartsFit
  <1>4. Traverse(Closing(ls), e, k)[2] = Traverse(Closing(ls), e[2], k) BY <1>1, <1>2, TraverseNode
  <1> QED BY <1>3, <1>4 DEF AbstrAt

\* A telescope opened: every new local has a type that stands for that of its
\* binder, and what is below the binders stands for what was.
LEMMA TelescopeOpens ==
    ASSUME NEW ls, NEW types, Scoped(ls, types),
           NEW how \in {"dbj", "unique"}, NEW first \in Nat, Fresh(ls, how, first),
           NEW e, NEW p, Stands(ls, e, p), NEW tag \in {"pi", "lam"}, e[1] = tag,
           NEW n, n = RunLength(e, 3, tag),
           NEW new, new = LocalsFor(how, first, BinderTypes(e, n)), new \in Seq(Expr)
    PROVE  /\ n \in Nat /\ n > 0 /\ n = RunLength(p, 3, tag) /\ p[1] = tag
           /\ Len(new) = n /\ InOrder(new, how, first)
           /\ Scoped(ls \o new, types \o BinderTypes(p, n))
           /\ InstFull(Down(e, 3)[n], new) \in Expr =>
                Stands(ls \o new, InstFull(Down(e, 3)[n], new), Down(p, 3)[n])
  <1> DEFINE D == Down(e, 3)
             P == Down(p, 3)
             btypes == BinderTypes(e, n)
             L == LocalsUpTo(how, first, btypes)
             pre(k) == SubSeq(new, 1, k)
  <1>1. Distinct(ls) /\ ls \in Seq(Expr) /\ types \in Seq(Expr) /\ Len(types) = Len(ls) BY DEF Scoped, Distinct
  <1>2. WayDown(ls, e, p, 3, tag, n)
    <2>1. IsWay(3, tag) BY DEF IsWay
    <2> QED BY <1>1, <2>1, StandsDown DEF Stands
  <1>3. /\ n \in Nat /\ n = RunLength(p, 3, tag)
        /\ \A k \in 0 .. n : Fits(ls, D[k], k) /\ P[k] = AbstrAt(D[k], ls, k)
        /\ \A k \in 0 .. n - 1 : D[k][1] = tag /\ P[k][1] = tag
        /\ D[n][1] # tag
    BY <1>2 DEF WayDown, Reach
  <1>4. D[0] = e /\ P[0] = p BY DownIs
  <1>5. n > 0 /\ p[1] = tag BY <1>3, <1>4
  <1>6. \A i \in 1 .. n : btypes[i] = D[i - 1][2] BY DEF BinderTypes
  <1>7. Len(btypes) = n BY <1>3 DEF BinderTypes
  <1>8. /\ new = L[n]
        /\ \A k \in Nat : Len(L[k]) = k /\ L[k] = LocalsList(how, first, btypes, L, k)
    <2>1. new = LocalsFor(how, first, btypes) OBVIOUS
    <2> HIDE DEF btypes, L
    <2>2. L = LocalsUpTo(how, first, btypes) BY DEF L
    <2> QED BY <1>7, <2>1, <2>2, LocalsForIs
  <1> HIDE DEF L, btypes
  <1>9. Len(new) = n BY <1>3, <1>8
  <1>10. ASSUME NEW k \in 0 .. n PROVE L[k] = pre(k)
    <2>1. pre(k) \in Seq(Expr) /\ Len(pre(k)) = k /\ \A i \in 1 .. k : pre(k)[i] = new[i] BY <1>9, Prefixes
    <2>2. k \in Nat /\ L[k] = [i \in 1 .. k |-> MkLocal(how, first + i - 1, InstFull(btypes[i], L[i - 1]))] BY <1>8 DEF LocalsList
    <2>3. new = [i \in 1 .. n |-> MkLocal(how, first + i - 1, InstFull(btypes[i], L[i - 1]))] BY <1>3, <1>8 DEF LocalsList
    <2>4. \A i \in 1 .. k : L[k][i] = new[i] BY <1>3, <2>2, <2>3
    <2>5. \A i \in 1 .. k : new[i] \in Expr BY <1>9
    <2>6. L[k] \in Seq(Expr) /\ Len(L[k]) = k
      <3>1. L[k] = [i \in 1 .. k |-> L[k][i]] BY <2>2
      <3>2. \A i \in 1 .. k : L[k][i] \in Expr BY <2>4, <2>5
      <3>3. k \in Nat BY <2>2
      <3> QED BY <3>1, <3>2, <3>3, ListMade DEF IsList
    <2> DEFINE a == L[k]
               b == pre(k)
    <2>7. a \in Seq(Expr) /\ b \in Seq(Expr) /\ Len(a) = k /\ Len(b) = k BY <2>1, <2>6
    <2>8. \A i \in 1 .. k : a[i] = b[i] BY <2>1, <2>4
    <2> HIDE DEF a, b
    <2>9. a = b BY <2>7, <2>8, SameLists
    <2> QED BY <2>9 DEF a, b
  <1> HIDE DEF pre
  <1>11. ASSUME NEW i \in 1 .. n PROVE new[i] = MkLocal(how, first + i - 1, InstFull(D[i - 1][2], pre(i - 1)))
    <2>1. new = [j \in 1 .. n |-> MkLocal(how, first + j - 1, InstFull(btypes[j], L[j - 1]))] BY <1>3, <1>8 DEF LocalsList
    <2>2. new[i] = MkLocal(how, first + i - 1, InstFull(btypes[i], L[i - 1])) BY <2>1
    <2>3. i - 1 \in 0 .. n /\ L[i - 1] = pre(i - 1) BY <1>3, <1>10
    <2> QED BY <1>6, <2>2, <2>3
  <1>12. ASSUME NEW i \in 1 .. n
         PROVE  /\ new[i] = MkLocal(how, first + i - 1, new[i][4]) /\ new[i][4] = InstFull(D[i - 1][2], pre(i - 1))
                /\ new[i][4] \in Expr
    <2>1. new[i] = <<"local", how, first + i - 1, InstFull(D[i - 1][2], pre(i - 1))>> BY <1>11, MkLocalIs
    <2>2. new[i] \in Expr BY <1>9
    <2>3. IsLocal(new[i]) BY <2>1 DEF IsLocal
    <2>4. new[i][4] \in Expr BY <2>2, <2>3, ExprParts DEF Node
    <2> QED BY <1>11, <2>1, <2>4
  <1>13. InOrder(new, how, first) BY <1>9, <1>12 DEF InOrder
  <1>14. Distinct(ls \o new) BY <1>1, <1>13, FreshAreDistinct
  <1>a. ASSUME NEW k \in 0 .. n PROVE SubSeq(ls \o new, 1, Len(ls) + k) = ls \o pre(k) /\ Distinct(ls \o pre(k))
    <2>1. Len(ls) + k \in 0 .. Len(ls \o new) BY <1>1, <1>9, Joined
    <2>2. SubSeq(ls \o new, 1, Len(ls) + k) = ls \o pre(k)
      <3>1. \A j \in 0 .. Len(new) : SubSeq(ls \o new, 1, Len(ls) + j) = ls \o SubSeq(new, 1, j)
        BY <1>1, JoinedPrefix, SMTT(20)
      <3> QED BY <1>9, <3>1 DEF pre
    <2> QED BY <1>14, <2>1, <2>2, PrefixDistinct
  <1>15. ASSUME NEW k \in 0 .. n, NEW y, Fits(ls, y, k), InstFull(y, pre(k)) \in Expr
         PROVE  Stands(ls \o pre(k), InstFull(y, pre(k)), AbstrAt(y, ls, k))
    <2>1. pre(k) \in Seq(Expr) /\ Len(pre(k)) = k BY <1>9, Prefixes DEF pre
    <2>2. Distinct(ls \o pre(k)) BY <1>a
    <2> QED BY <1>1, <1>15, <2>1, <2>2, Opening DEF Stands
  <1>16. ASSUME NEW i \in 1 .. n
         PROVE  Stands(ls \o pre(i - 1), new[i][4], BinderTypes(p, n)[i])
    <2>1. PICK k \in 0 .. n : k = i - 1 /\ k \in 0 .. n - 1 BY <1>3
    <2>2. Fits(ls, D[k], k) /\ P[k] = AbstrAt(D[k], ls, k) /\ IsBinder(D[k]) BY <1>3, <2>1 DEF IsBinder
    <2>3. Fits(ls, D[k][2], k) /\ P[k][2] = AbstrAt(D[k][2], ls, k)
      <3>1. PICK y, q : y = D[k] /\ q = P[k] OBVIOUS
      <3> QED BY <1>1, <2>2, <3>1, BinderParts
    <2>4. new[i][4] = InstFull(D[k][2], pre(k)) /\ new[i][4] \in Expr BY <1>12, <2>1
    <2>5. BinderTypes(p, n)[i] = P[k][2] BY <2>1 DEF BinderTypes
    <2> QED BY <1>15, <2>1, <2>3, <2>4, <2>5
  <1>17. Scoped(ls \o new, types \o BinderTypes(p, n))
    <2> DEFINE both == ls \o new
               bt == BinderTypes(p, n)
               l == Len(ls)
    <2>1. IsList(bt, n) /\ \A i \in 1 .. n : bt[i] \in Expr
      <3>1. IsList(bt, n) BY DEF BinderTypes, IsList
      <3>2. ASSUME NEW i \in 1 .. n PROVE bt[i] \in Expr
        <4>1. Stands(ls \o pre(i - 1), new[i][4], bt[i]) BY <1>16
        <4>2. PICK k \in 0 .. n : k = i - 1 BY <1>3
        <4>3. Distinct(ls \o pre(k)) BY <1>a
        <4> HIDE DEF bt
        <4> QED BY <4>1, <4>2, <4>3, MeaningFits DEF Stands
      <3> QED BY <3>1, <3>2
    <2> HIDE DEF bt
    <2>2. bt \in Seq(Expr) /\ Len(bt) = n BY <1>3, <2>1, ListMade
    <2>3. /\ types \o bt \in Seq(Expr) /\ Len(types \o bt) = l + n
          /\ \A i \in 1 .. l : (types \o bt)[i] = types[i]
          /\ \A i \in 1 .. n : (types \o bt)[l + i] = bt[i]
      <3>1. /\ types \o bt \in Seq(Expr) /\ Len(types \o bt) = Len(types) + Len(bt)
            /\ \A i \in 1 .. Len(types) : (types \o bt)[i] = types[i]
            /\ \A i \in 1 .. Len(bt) : (types \o bt)[Len(types) + i] = bt[i]
        BY <1>1, <2>2, Joined
      <3>2. Len(types) = l BY <1>1
      <3> HIDE DEF l
      <3> QED BY <2>2, <3>1, <3>2
    <2>4. /\ both \in Seq(Expr) /\ Len(both) = l + n /\ l \in Nat
          /\ \A i \in 1 .. l : both[i] = ls[i]
          /\ \A i \in 1 .. n : both[l + i] = new[i]
      <3>1. /\ both \in Seq(Expr) /\ Len(both) = l + Len(new) /\ l \in Nat
            /\ \A i \in 1 .. l : both[i] = ls[i]
            /\ \A i \in 1 .. Len(new) : both[l + i] = new[i]
        BY <1>1, Joined
      <3> HIDE DEF l, both
      <3> QED BY <1>9, <3>1
    <2>5. ASSUME NEW i \in 1 .. l PROVE Stands(SubSeq(both, 1, i - 1), both[i][4], (types \o bt)[i])
      <3>1. SubSeq(both, 1, i - 1) = SubSeq(ls, 1, i - 1)
        <4>1. i - 1 \in 0 .. Len(ls) BY <2>4
        <4> QED BY <1>1, <4>1, JoinedPrefix
      <3>2. Stands(SubSeq(ls, 1, i - 1), ls[i][4], types[i]) BY DEF Scoped
      <3> QED BY <2>3, <2>4, <3>1, <3>2
    <2>6. ASSUME NEW i \in 1 .. n PROVE Stands(SubSeq(both, 1, (l + i) - 1), both[l + i][4], (types \o bt)[l + i])
      <3>1. i - 1 \in 0 .. Len(new) /\ (l + i) - 1 = l + (i - 1) BY <1>3, <1>9, <2>4
      <3>2. SubSeq(both, 1, l + (i - 1)) = ls \o pre(i - 1)
        <4>1. \A k \in 0 .. Len(new) : SubSeq(ls \o new, 1, Len(ls) + k) = ls \o SubSeq(new, 1, k)
          BY <1>1, JoinedPrefix, SMTT(20)
        <4> QED BY <3>1, <4>1 DEF pre
      <3>3. Stands(ls \o pre(i - 1), new[i][4], bt[i]) BY <1>16 DEF bt
      <3>4. both[l + i] = new[i] /\ (types \o bt)[l + i] = bt[i] BY <2>3, <2>4
      <3> HIDE DEF both, l, bt
      <3> QED BY <3>1, <3>2, <3>3, <3>4
    <2> HIDE DEF both
    <2>7. \A i \in 1 .. Len(both) : Stands(SubSeq(both, 1, i - 1), both[i][4], (types \o bt)[i])
      <3> SUFFICES ASSUME NEW i \in 1 .. Len(both) PROVE Stands(SubSeq(both, 1, i - 1), both[i][4], (types \o bt)[i])
        OBVIOUS
      <3> HIDE DEF l
      <3>1. i \in 1 .. l \/ \E j \in 1 .. n : i = l + j BY <1>3, <2>4, JoinedCases
      <3>2. CASE i \in 1 .. l BY <2>5, <3>2
      <3>3. CASE \E j \in 1 .. n : i = l + j BY <2>6, <3>3
      <3> QED BY <3>1, <3>2, <3>3
    <2>8. Distinct(both) BY <1>14 DEF both
    <2> QED BY <2>3, <2>4, <2>7, <2>8 DEF Scoped, both, bt
  <1>18. InstFull(D[n], new) \in Expr => Stands(ls \o new, InstFull(D[n], new), P[n])
    <2>1. pre(n) = new
      <3>1. n \in 0 .. n BY <1>3
      <3>2. L[n] = pre(n) BY <1>10, <3>1
      <3> QED BY <1>8, <3>2
    <2>2. n \in 0 .. n /\ Fits(ls, D[n], n) /\ P[n] = AbstrAt(D[n], ls, n) BY <1>3
    <2> QED BY <1>15, <2>1, <2>2
  <1> QED BY <1>3, <1>5, <1>9, <1>13, <1>17, <1>18

-----------------------------------------------------------------------------
(* Telescopes closed.                                                      *)

\* A list cut in two.
Cut(ls, start, pre, new) ==
    /\ start \in 0 .. Len(ls) /\ pre \o new = ls
    /\ pre \in Seq(Expr) /\ Len(pre) = start /\ \A i \in 1 .. start : pre[i] = ls[i]
    /\ new \in Seq(Expr) /\ Len(new) = Len(ls) - start /\ \A i \in 1 .. Len(new) : new[i] = ls[start + i]

\* A list is its first part followed by the rest.
LEMMA Split ==
    ASSUME NEW ls \in Seq(Expr), NEW start \in 0 .. Len(ls)
    PROVE  Cut(ls, start, SubSeq(ls, 1, start), SubSeq(ls, start + 1, Len(ls)))
  <1> DEFINE new == SubSeq(ls, start + 1, Len(ls))
             pre == SubSeq(ls, 1, start)
  <1>1. new \in Seq(Expr) /\ Len(new) = Len(ls) - start /\ \A i \in 1 .. Len(new) : new[i] = ls[start + i]
    <2>1. Len(new) = Len(ls) - start OBVIOUS
    <2>2. ASSUME NEW i \in 1 .. Len(ls) - start PROVE new[i] = ls[start + i] OBVIOUS
    <2>3. new \in Seq(Expr) OBVIOUS
    <2> HIDE DEF new
    <2> QED BY <2>1, <2>2, <2>3
  <1>2. pre \in Seq(Expr) /\ Len(pre) = start /\ \A i \in 1 .. start : pre[i] = ls[i] BY Prefixes
  <1> HIDE DEF new, pre
  <1>3. pre \o new = ls
    <2> DEFINE t == pre \o new
    <2>0. /\ t \in Seq(Expr) /\ Len(t) = Len(pre) + Len(new)
          /\ \A i \in 1 .. Len(pre) : t[i] = pre[i]
          /\ \A i \in 1 .. Len(new) : t[Len(pre) + i] = new[i]
      BY <1>1, <1>2, Joined
    <2>1. Len(t) = Len(ls) BY <1>1, <1>2, <2>0
    <2>2. ASSUME NEW i \in 1 .. Len(t) PROVE t[i] = ls[i]
      <3>1. i \in 1 .. Len(pre) \/ \E j \in 1 .. Len(new) : i = Len(pre) + j BY <1>1, <1>2, <2>0, JoinedCases
      <3>2. CASE i \in 1 .. Len(pre) BY <1>2, <2>0, <3>2
      <3>3. ASSUME NEW j \in 1 .. Len(new), i = Len(pre) + j PROVE t[i] = ls[i]
        <4>1. t[Len(pre) + j] = new[j] BY <2>0
        <4>2. new[j] = ls[start + j] /\ Len(pre) = start BY <1>1, <1>2
        <4> QED BY <3>3, <4>1, <4>2
      <3> QED BY <3>1, <3>2, <3>3
    <2> HIDE DEF t
    <2>3. t = ls BY <2>0, <2>1, <2>2, SameLists
    <2> QED BY <2>3 DEF t
  <1> QED BY <1>1, <1>2, <1>3 DEF new, pre, Cut

\* The first of the second part.
LEMMA SplitPrefix ==
    ASSUME NEW ls \in Seq(Expr), NEW start \in Nat, NEW pre, NEW new, Cut(ls, start, pre, new), NEW k \in 0 .. Len(new)
    PROVE  /\ SubSeq(new, 1, k) \in Seq(Expr) /\ Len(SubSeq(new, 1, k)) = k
           /\ \A i \in 1 .. k : SubSeq(new, 1, k)[i] = new[i]
           /\ pre \o SubSeq(new, 1, k) = SubSeq(ls, 1, start + k)
           /\ start + k \in 0 .. Len(ls) /\ (k = Len(new) => SubSeq(new, 1, k) = new)
  <1>1. new \in Seq(Expr) /\ pre \in Seq(Expr) /\ Len(pre) = start /\ pre \o new = ls BY DEF Cut
  <1>2. /\ SubSeq(new, 1, k) \in Seq(Expr) /\ Len(SubSeq(new, 1, k)) = k
        /\ \A i \in 1 .. k : SubSeq(new, 1, k)[i] = new[i]
    BY <1>1, Prefixes
  <1>3. SubSeq(pre \o new, 1, Len(pre) + k) = pre \o SubSeq(new, 1, k) BY <1>1, JoinedPrefix
  <1>4. start + k \in 0 .. Len(ls) BY DEF Cut
  <1>5. k = Len(new) => SubSeq(new, 1, k) = new BY <1>1
  <1> QED BY <1>1, <1>2, <1>3, <1>4, <1>5

\* One element more of a list.
LEMMA LastOff ==
    ASSUME NEW ls \in Seq(Expr), NEW j \in Nat, j + 1 <= Len(ls)
    PROVE  SubSeq(ls, 1, j + 1) = SubSeq(ls, 1, j) \o <<ls[j + 1]>> /\ <<ls[j + 1]>> \in Seq(Expr)
  OBVIOUS

\* What a binder over the open locals is closed to.
LEMMA BoundStands ==
    ASSUME NEW ls, Distinct(ls), NEW tag \in {"pi", "lam"}, NEW t, NEW b, Bind(tag, t, b) \in Expr,
           NEW k \in Nat, Fits(ls, t, k), Fits(ls, b, k + 1)
    PROVE  /\ Fits(ls, Bind(tag, t, b), k)
           /\ AbstrAt(Bind(tag, t, b), ls, k) = Bind(tag, AbstrAt(t, ls, k), AbstrAt(b, ls, k + 1))
  <1> DEFINE e == Bind(tag, t, b)
  <1>1. /\ Children(e) = {2, 3} /\ e[1] = tag /\ e[2] = t /\ e[3] = b /\ DOMAIN e = 1 .. 3
        /\ Below(e, 2, k) = k /\ Below(e, 3, k) = k + 1
    BY DEF Bind, Children, Below, IsBinder
  <1> HIDE DEF e
  <1>2. Fits(ls, e, k) BY <1>1, PartsFit DEF e
  <1>3. e \in Expr /\ Children(e) # {} BY <1>1 DEF e
  <1>4. PICK c : Made(Closing(ls), e, k, c) BY <1>3, AtNode
  <1>5. c[2] = AbstrAt(t, ls, k) /\ c[3] = AbstrAt(b, ls, k + 1) BY <1>1, <1>4 DEF Made, AbstrAt
  <1>6. With(e, c) = <<tag, c[2], c[3]>> BY <1>1 DEF With
  <1>7. AbstrAt(e, ls, k) = With(e, c) BY <1>4 DEF Made, AbstrAt
  <1> QED BY <1>2, <1>5, <1>6, <1>7 DEF e, Bind

AroundFrom(s) == s[3]
AroundNext(s, n, prev) == Bind(s[1], s[2][Len(s[2]) - n + 1], prev)

Surrounding == INSTANCE Recursion WITH Base <- AroundFrom, Step <- AroundNext

Surrounds(B, tag, types, n, e) == B[0] = e /\ \A k \in Nat : B[k + 1] = Bind(tag, types[n - k], B[k])

\* Binders are put around an expression one at a time.
LEMMA AroundIs ==
    ASSUME NEW tag, NEW types, NEW e, Len(types) \in Nat
    PROVE  Surrounds(Around(tag, types, e), tag, types, Len(types), e)
  <1> DEFINE n == Len(types)
             s == <<tag, types, e>>
             G(f) == [k \in Nat |-> IF k = 0 THEN e ELSE Bind(tag, types[Len(types) - k + 1], f[k - 1])]
             B == Around(tag, types, e)
  <1>1. \E f : f = [k \in Nat |-> IF k = 0 THEN AroundFrom(s) ELSE AroundNext(s, k, f[k - 1])]
    BY Surrounding!HasSolution
  <1>2. \E f : f = G(f) BY <1>1 DEF AroundFrom, AroundNext
  <1>3. B = CHOOSE f : f = G(f) BY DEF Around
  <1>4. B = G(B)
    <2> HIDE DEF G, B
    <2> QED BY <1>2, <1>3
  <1> HIDE DEF B
  <1>5. B[0] = e BY <1>4
  <1>6. ASSUME NEW k \in Nat PROVE B[k + 1] = Bind(tag, types[n - k], B[k])
    <2>1. k + 1 \in Nat /\ k + 1 # 0 /\ (k + 1) - 1 = k /\ Len(types) - (k + 1) + 1 = n - k OBVIOUS
    <2>2. G(B)[k + 1] = Bind(tag, types[Len(types) - (k + 1) + 1], B[(k + 1) - 1]) BY <2>1
    <2> HIDE DEF G
    <2> QED BY <1>4, <2>1, <2>2
  <1> QED BY <1>5, <1>6 DEF B, Surrounds

AbstrNext(s, n, prev) ==
    LET x == s[2][Len(s[2]) - n + 1] IN Bind(s[1], x[4], AbstrPlain(prev, <<x>>))

Discharging == INSTANCE Recursion WITH Base <- AroundFrom, Step <- AbstrNext

Discharges(B, tag, locals, n, e) ==
    B[0] = e /\ \A k \in Nat : B[k + 1] = Bind(tag, locals[n - k][4], AbstrPlain(B[k], <<locals[n - k]>>))

\* Locals are abstracted one at a time.
LEMMA AroundLocalsIs ==
    ASSUME NEW tag, NEW locals, NEW e, Len(locals) \in Nat
    PROVE  Discharges(AroundLocals(tag, locals, e), tag, locals, Len(locals), e)
  <1> DEFINE n == Len(locals)
             s == <<tag, locals, e>>
             x(k) == locals[Len(locals) - k + 1]
             G(f) == [k \in Nat |-> IF k = 0 THEN e ELSE Bind(tag, x(k)[4], AbstrPlain(f[k - 1], <<x(k)>>))]
             B == AroundLocals(tag, locals, e)
  <1>1. \E f : f = [k \in Nat |-> IF k = 0 THEN AroundFrom(s) ELSE AbstrNext(s, k, f[k - 1])]
    BY Discharging!HasSolution
  <1>2. \E f : f = G(f) BY <1>1 DEF AroundFrom, AbstrNext
  <1>3. B = CHOOSE f : f = G(f) BY DEF AroundLocals
  <1>4. B = G(B)
    <2> HIDE DEF G, B
    <2> QED BY <1>2, <1>3
  <1> HIDE DEF B
  <1>5. B[0] = e BY <1>4
  <1>6. ASSUME NEW k \in Nat
        PROVE  B[k + 1] = Bind(tag, locals[n - k][4], AbstrPlain(B[k], <<locals[n - k]>>))
    <2>1. k + 1 \in Nat /\ k + 1 # 0 /\ (k + 1) - 1 = k /\ Len(locals) - (k + 1) + 1 = n - k OBVIOUS
    <2>2. G(B)[k + 1] = Bind(tag, x(k + 1)[4], AbstrPlain(B[(k + 1) - 1], <<x(k + 1)>>)) BY <2>1
    <2>3. x(k + 1) = locals[n - k] BY <2>1
    <2> HIDE DEF G, x
    <2> QED BY <1>4, <2>1, <2>2, <2>3
  <1> QED BY <1>5, <1>6 DEF B, Discharges

\* Binders put around what stands for something, with types that do.
LEMMA ClosesTypes ==
    ASSUME NEW ls, Distinct(ls), NEW tag \in {"pi", "lam"}, NEW n \in Nat,
           NEW types, Len(types) = n, NEW ptypes, Len(ptypes) = n,
           \A i \in 1 .. n : Fits(ls, types[i], i - 1) /\ ptypes[i] = AbstrAt(types[i], ls, i - 1),
           NEW b, Fits(ls, b, n), CloseTypes(tag, types, b) \in Expr
    PROVE  Stands(ls, CloseTypes(tag, types, b), CloseTypes(tag, ptypes, AbstrAt(b, ls, n)))
  <1> DEFINE q == AbstrAt(b, ls, n)
             B == Around(tag, types, b)
             Q == Around(tag, ptypes, q)
             S == {k \in Nat : k <= n /\ B[k] \in Expr => Fits(ls, B[k], n - k) /\ AbstrAt(B[k], ls, n - k) = Q[k]}
  <1>1. B[0] = b /\ \A k \in Nat : B[k + 1] = Bind(tag, types[n - k], B[k])
    <2>1. Surrounds(B, tag, types, n, b) BY AroundIs
    <2> QED BY <2>1 DEF Surrounds
  <1>2. Q[0] = q /\ \A k \in Nat : Q[k + 1] = Bind(tag, ptypes[n - k], Q[k])
    <2>1. Surrounds(Q, tag, ptypes, n, q) BY AroundIs
    <2> QED BY <2>1 DEF Surrounds
  <1>3. CloseTypes(tag, types, b) = B[n] /\ CloseTypes(tag, ptypes, q) = Q[n] BY DEF CloseTypes
  <1>q. q = AbstrAt(b, ls, n) OBVIOUS
  <1> HIDE DEF B, Q, q
  <1>4. 0 \in S
    <2>1. n - 0 = n /\ 0 <= n OBVIOUS
    <2>2. Fits(ls, B[0], n) /\ AbstrAt(B[0], ls, n) = Q[0] BY <1>1, <1>2, <1>q
    <2> QED BY <2>1, <2>2
  <1>5. ASSUME NEW k \in Nat, k \in S PROVE k + 1 \in S
    <2> SUFFICES ASSUME k + 1 <= n, B[k + 1] \in Expr
                 PROVE  Fits(ls, B[k + 1], n - (k + 1)) /\ AbstrAt(B[k + 1], ls, n - (k + 1)) = Q[k + 1]
      OBVIOUS
    <2>1. PICK m \in Nat : n - (k + 1) = m /\ n - k = m + 1 OBVIOUS
    <2>2. n - k \in 1 .. n OBVIOUS
    <2>3. B[k + 1] = Bind(tag, types[m + 1], B[k]) /\ Q[k + 1] = Bind(tag, ptypes[m + 1], Q[k])
      BY <1>1, <1>2, <2>1
    <2>4. Fits(ls, types[m + 1], m) /\ ptypes[m + 1] = AbstrAt(types[m + 1], ls, m)
      <3>1. PICK i \in 1 .. n : i = m + 1 BY <2>1, <2>2
      <3>2. Fits(ls, types[i], i - 1) /\ ptypes[i] = AbstrAt(types[i], ls, i - 1) OBVIOUS
      <3>3. i - 1 = m BY <3>1
      <3> QED BY <3>1, <3>2, <3>3
    <2>5. B[k] \in Expr
      <3>1. Node(Bind(tag, types[m + 1], B[k]), Expr) BY <2>3, ExprParts
      <3>2. Children(Bind(tag, types[m + 1], B[k])) = {2, 3} BY DEF Children, Bind
      <3>3. Bind(tag, types[m + 1], B[k])[3] = B[k] BY DEF Bind
      <3> QED BY <3>1, <3>2, <3>3 DEF Node
    <2>6. Fits(ls, B[k], m + 1) /\ AbstrAt(B[k], ls, m + 1) = Q[k]
      <3>1. k <= n OBVIOUS
      <3> QED BY <1>5, <2>1, <2>5, <3>1
    <2>7. Bind(tag, types[m + 1], B[k]) \in Expr BY <2>3
    <2> HIDE DEF S
    <2> QED BY <2>1, <2>3, <2>4, <2>6, <2>7, BoundStands
  <1>6. Nat \subseteq S
    <2> HIDE DEF S
    <2> QED BY <1>4, <1>5, Surrounding!Induction
  <1>7. n \in S /\ n - n = 0 BY <1>6
  <1>8. Fits(ls, B[n], 0) /\ AbstrAt(B[n], ls, 0) = Q[n] BY <1>3, <1>7
  <1> QED BY <1>3, <1>8 DEF Stands, AbstrPlain, q

\* Locals abstracted one after the other, each with its type for a binder.
LEMMA DischargesLocals ==
    ASSUME NEW ls, NEW types, Scoped(ls, types), NEW start \in 0 .. Len(ls), NEW tag \in {"pi", "lam"},
           NEW e, NEW p, Stands(ls, e, p),
           NEW n, n = Len(ls) - start, NEW locals, Len(locals) = n, \A i \in 1 .. n : locals[i] = ls[start + i],
           NEW ptypes, Len(ptypes) = n, \A i \in 1 .. n : ptypes[i] = types[start + i],
           \A k \in 0 .. n : AroundLocals(tag, locals, e)[k] \in Expr
    PROVE  Stands(SubSeq(ls, 1, start), AroundLocals(tag, locals, e)[n], CloseTypes(tag, ptypes, p))
  <1> DEFINE l == Len(ls)
             B == AroundLocals(tag, locals, e)
             Q == Around(tag, ptypes, p)
             pre(j) == SubSeq(ls, 1, j)
             S == {k \in Nat : k <= n => Stands(pre(l - k), B[k], Q[k])}
  <1>0. Distinct(ls) /\ ls \in Seq(Expr) /\ l \in Nat /\ n \in Nat BY DEF Scoped, Distinct
  <1>1. B[0] = e /\ \A k \in Nat : B[k + 1] = Bind(tag, locals[n - k][4], AbstrPlain(B[k], <<locals[n - k]>>))
    <2>1. Discharges(B, tag, locals, n, e) BY <1>0, AroundLocalsIs
    <2> QED BY <2>1 DEF Discharges
  <1>2. Q[0] = p /\ \A k \in Nat : Q[k + 1] = Bind(tag, ptypes[n - k], Q[k])
    <2>1. Surrounds(Q, tag, ptypes, n, p) BY <1>0, AroundIs
    <2> QED BY <2>1 DEF Surrounds
  <1>3. CloseTypes(tag, ptypes, p) = Q[n] BY DEF CloseTypes
  <1>4. \A k \in 0 .. n : B[k] \in Expr OBVIOUS
  <1> HIDE DEF B, Q
  <1>5. pre(l) = ls BY <1>0
  <1> HIDE DEF pre
  <1>6. 0 \in S
    <2>1. l - 0 = l BY <1>0
    <2> QED BY <1>1, <1>2, <1>5, <2>1
  <1>7. ASSUME NEW k \in Nat, k \in S PROVE k + 1 \in S
    <2> SUFFICES ASSUME k + 1 <= n PROVE Stands(pre(l - (k + 1)), B[k + 1], Q[k + 1]) OBVIOUS
    <2>1. PICK j \in Nat : j = l - (k + 1) /\ l - k = j + 1
      <3>1. l - (k + 1) \in Nat /\ l - k = (l - (k + 1)) + 1 BY <1>0
      <3> QED BY <3>1
    <2>2. n - k \in 1 .. n /\ start + (n - k) = j + 1 /\ k \in 0 .. n /\ k + 1 \in 0 .. n /\ j \in 0 .. l /\ j + 1 \in 1 .. l
      BY <1>0, <2>1
    <2> DEFINE x == ls[j + 1]
    <2>3. locals[n - k] = x /\ ptypes[n - k] = types[j + 1]
      <3>1. PICK i \in 1 .. n : i = n - k /\ start + i = j + 1 BY <2>2
      <3> QED BY <3>1
    <2>4. B[k + 1] = Bind(tag, x[4], AbstrPlain(B[k], <<x>>)) /\ Q[k + 1] = Bind(tag, types[j + 1], Q[k]) BY <1>1, <1>2, <2>3
    <2>5. Stands(pre(j + 1), B[k], Q[k])
      <3>1. k <= n BY <1>0
      <3> QED BY <1>7, <2>1, <3>1
    <2>6. pre(j + 1) = pre(j) \o <<x>> /\ <<x>> \in Seq(Expr) BY <1>0, <2>2, LastOff DEF pre
    <2>7. Distinct(pre(j)) /\ pre(j) \in Seq(Expr) /\ Distinct(pre(j) \o <<x>>)
      <3>1. Distinct(pre(j)) BY <1>0, <2>2, PrefixDistinct DEF pre
      <3>2. Distinct(pre(j + 1)) BY <1>0, <2>2, PrefixDistinct DEF pre
      <3> QED BY <2>6, <3>1, <3>2 DEF Distinct
    <2>8. Stands(pre(j), x[4], types[j + 1])
      <3>1. \A i \in 1 .. Len(ls) : Stands(SubSeq(ls, 1, i - 1), ls[i][4], types[i]) BY DEF Scoped
      <3>2. PICK i \in 1 .. Len(ls) : i = j + 1 /\ i - 1 = j BY <2>2
      <3> QED BY <3>1, <3>2 DEF pre
    <2> DEFINE b == AbstrPlain(B[k], <<x>>)
    <2>9. Fits(pre(j), b, 1) /\ AbstrAt(b, pre(j), 1) = Q[k]
      <3>1. Len(<<x>>) = 1 OBVIOUS
      <3>2. Fits(pre(j) \o <<x>>, B[k], 0) /\ Q[k] = AbstrPlain(B[k], pre(j) \o <<x>>) BY <2>5, <2>6 DEF Stands
      <3> HIDE DEF x
      <3> QED BY <2>6, <2>7, <3>1, <3>2, ClosingUp
    <2>10. Bind(tag, x[4], b) \in Expr BY <1>4, <2>2, <2>4
    <2>11. Fits(pre(j), x[4], 0) /\ types[j + 1] = AbstrAt(x[4], pre(j), 0) BY <2>8 DEF Stands, AbstrPlain
    <2> HIDE DEF b, x
    <2>12. 0 \in Nat /\ 0 + 1 = 1 OBVIOUS
    <2>13. Fits(pre(j), Bind(tag, x[4], b), 0) /\ AbstrAt(Bind(tag, x[4], b), pre(j), 0) = Bind(tag, types[j + 1], Q[k])
      BY <2>7, <2>9, <2>10, <2>11, <2>12, BoundStands
    <2> QED BY <2>1, <2>4, <2>13 DEF Stands, AbstrPlain, b
  <1>8. Nat \subseteq S
    <2> HIDE DEF S
    <2> QED BY <1>6, <1>7, Surrounding!Induction
  <1>9. n \in S /\ l - n = start BY <1>0, <1>8
  <1> QED BY <1>0, <1>3, <1>9 DEF pre, B

\* The type of the body of a lambda, generalized: the locals are abstracted by
\* their numbers.
LevelsFrom(locals, first) == \A i \in 1 .. Len(locals) : locals[i][2] = "dbj" /\ locals[i][3] = first + i - 1

LevelsBelow(pre, first) == \A i \in 1 .. Len(pre) : pre[i][2] = "dbj" => pre[i][3] \in Nat /\ pre[i][3] < first

ByLevels(ctypes, locals, first) ==
    /\ Len(ctypes) = Len(locals)
    /\ \A i \in 1 .. Len(locals) : ctypes[i] = AbstrLevelsFull(locals[i][4], first, first + i - 1)

\* Over the first of the locals opened, closing by number is closing.
LEMMA ClosesByLevel ==
    ASSUME NEW ls, Distinct(ls), NEW start \in Nat, NEW pre, NEW locals, Cut(ls, start, pre, locals),
           NEW first \in Nat, LevelsFrom(locals, first), LevelsBelow(pre, first),
           NEW k \in 0 .. Len(locals), NEW y, Fits(SubSeq(ls, 1, start + k), y, 0)
    PROVE  LET c == AbstrLevelsFull(y, first, first + k) IN
           Fits(pre, c, k) /\ AbstrAt(c, pre, k) = AbstrPlain(y, SubSeq(ls, 1, start + k))
  <1> DEFINE part == SubSeq(locals, 1, k)
  <1>0. ls \in Seq(Expr) /\ pre \in Seq(Expr) /\ Len(locals) \in Nat BY DEF Cut, Distinct
  <1>1. /\ part \in Seq(Expr) /\ Len(part) = k /\ \A i \in 1 .. k : part[i] = locals[i]
        /\ pre \o part = SubSeq(ls, 1, start + k) /\ start + k \in 0 .. Len(ls)
    <2>1. k \in 0 .. Len(locals) OBVIOUS
    <2>2. /\ SubSeq(locals, 1, k) \in Seq(Expr) /\ Len(SubSeq(locals, 1, k)) = k
          /\ \A i \in 1 .. k : SubSeq(locals, 1, k)[i] = locals[i]
          /\ pre \o SubSeq(locals, 1, k) = SubSeq(ls, 1, start + k)
          /\ start + k \in 0 .. Len(ls)
      BY <1>0, <2>1, SplitPrefix
    <2> QED BY <2>2
  <1> HIDE DEF part
  <1>2. Distinct(pre \o part) /\ Fits(pre \o part, y, 0) BY <1>1, PrefixDistinct
  <1>3. ASSUME NEW i \in 1 .. Len(part) PROVE part[i][2] = "dbj" /\ part[i][3] = first + i - 1
    <2>1. i \in 1 .. Len(locals) /\ part[i] = locals[i] BY <1>0, <1>1
    <2>2. locals[i][2] = "dbj" /\ locals[i][3] = first + i - 1 BY <2>1 DEF LevelsFrom
    <2> QED BY <2>1, <2>2
  <1>4. AbstrLevelsFull(y, first, first + Len(part)) = AbstrPlain(y, part)
    BY <1>0, <1>1, <1>2, <1>3, ClosingByLevel DEF LevelsBelow
  <1>5. Fits(pre, AbstrPlain(y, part), Len(part)) /\ AbstrAt(AbstrPlain(y, part), pre, Len(part)) = AbstrPlain(y, pre \o part)
    BY <1>0, <1>1, <1>2, ClosingUp
  <1> QED BY <1>1, <1>4, <1>5

\* Abstracting by level turns the body of a lambda and the types of its locals into
\* what the function type of the textbook's body stands for.
LEMMA GeneralizesLocals ==
    ASSUME NEW ls, NEW types, Scoped(ls, types), NEW start \in Nat, NEW pre, NEW locals, Cut(ls, start, pre, locals),
           NEW first \in Nat, LevelsFrom(locals, first), LevelsBelow(pre, first),
           NEW e, NEW p, Stands(ls, e, p),
           NEW ctypes, ByLevels(ctypes, locals, first),
           NEW ptypes, Len(ptypes) = Len(locals), \A i \in 1 .. Len(locals) : ptypes[i] = types[start + i],
           NEW b, b = AbstrLevelsFull(e, first, first + Len(locals)), CloseTypes("pi", ctypes, b) \in Expr
    PROVE  Stands(pre, CloseTypes("pi", ctypes, b), CloseTypes("pi", ptypes, p))
  <1> DEFINE n == Len(locals)
  <1>0. /\ Distinct(ls) /\ ls \in Seq(Expr) /\ n \in Nat /\ start \in 0 .. Len(ls) /\ n = Len(ls) - start
        /\ \A i \in 1 .. n : locals[i] = ls[start + i]
    <2>1. Distinct(ls) BY DEF Scoped
    <2>2. ls \in Seq(Expr) BY <2>1 DEF Distinct
    <2>3. start \in 0 .. Len(ls) /\ n = Len(ls) - start /\ \A i \in 1 .. n : locals[i] = ls[start + i] BY DEF Cut
    <2> QED BY <2>1, <2>2, <2>3
  <1>1. Distinct(pre)
    <2>1. Distinct(SubSeq(ls, 1, start)) BY <1>0, PrefixDistinct
    <2>2. SubSeq(ls, 1, start) = pre
      <3>1. pre \in Seq(Expr) /\ Len(pre) = start /\ \A i \in 1 .. start : pre[i] = ls[i] BY DEF Cut
      <3>2. /\ SubSeq(ls, 1, start) \in Seq(Expr) /\ Len(SubSeq(ls, 1, start)) = start
            /\ \A i \in 1 .. start : SubSeq(ls, 1, start)[i] = ls[i]
        BY <1>0, Prefixes
      <3> QED BY <3>1, <3>2, SameLists
    <2> QED BY <2>1, <2>2
  <1>2. \A i \in 1 .. n : ctypes[i] = AbstrLevelsFull(locals[i][4], first, first + i - 1) BY DEF ByLevels
  <1>3. Len(ctypes) = n BY DEF ByLevels
  <1>5. Fits(pre, b, n) /\ AbstrAt(b, pre, n) = p
    <2>1. n \in 0 .. n /\ start + n = Len(ls) /\ SubSeq(ls, 1, start + n) = ls BY <1>0
    <2>2. Fits(SubSeq(ls, 1, start + n), e, 0) /\ p = AbstrPlain(e, SubSeq(ls, 1, start + n)) BY <2>1 DEF Stands
    <2>3. PICK k \in 0 .. Len(locals) : k = n BY <2>1
    <2>4. /\ Fits(pre, AbstrLevelsFull(e, first, first + k), k)
          /\ AbstrAt(AbstrLevelsFull(e, first, first + k), pre, k) = AbstrPlain(e, SubSeq(ls, 1, start + k))
      <3>1. PICK y : y = e OBVIOUS
      <3>2. Fits(SubSeq(ls, 1, start + k), y, 0) BY <2>2, <2>3, <3>1
      <3>3. /\ Fits(pre, AbstrLevelsFull(y, first, first + k), k)
            /\ AbstrAt(AbstrLevelsFull(y, first, first + k), pre, k) = AbstrPlain(y, SubSeq(ls, 1, start + k))
        BY <1>0, <3>2, ClosesByLevel
      <3> QED BY <3>1, <3>3
    <2> QED BY <2>2, <2>3, <2>4
  <1>6. ASSUME NEW i \in 1 .. n PROVE Fits(pre, ctypes[i], i - 1) /\ ptypes[i] = AbstrAt(ctypes[i], pre, i - 1)
    <2>1. PICK k \in 0 .. n : k = i - 1 /\ first + i - 1 = first + k
      <3>1. i - 1 \in 0 .. n /\ first + i - 1 = first + (i - 1) BY <1>0
      <3> QED BY <3>1
    <2>2. Stands(SubSeq(ls, 1, start + k), locals[i][4], types[start + i])
      <3>1. PICK j \in 1 .. Len(ls) : j = start + i BY <1>0
      <3>2. j - 1 = start + k BY <1>0, <2>1, <3>1
      <3>3. Stands(SubSeq(ls, 1, j - 1), ls[j][4], types[j]) BY DEF Scoped
      <3> QED BY <1>0, <3>1, <3>2, <3>3
    <2>3. Fits(SubSeq(ls, 1, start + k), locals[i][4], 0) BY <2>2 DEF Stands
    <2>4. types[start + i] = AbstrPlain(locals[i][4], SubSeq(ls, 1, start + k)) BY <2>2 DEF Stands
    <2>5. ctypes[i] = AbstrLevelsFull(locals[i][4], first, first + k) /\ ptypes[i] = types[start + i] BY <1>2, <2>1
    <2>6. /\ Fits(pre, AbstrLevelsFull(locals[i][4], first, first + k), k)
          /\ AbstrAt(AbstrLevelsFull(locals[i][4], first, first + k), pre, k)
               = AbstrPlain(locals[i][4], SubSeq(ls, 1, start + k))
      <3>1. PICK y : y = locals[i][4] OBVIOUS
      <3>2. Fits(SubSeq(ls, 1, start + k), y, 0) BY <2>3, <3>1
      <3>3. /\ Fits(pre, AbstrLevelsFull(y, first, first + k), k)
            /\ AbstrAt(AbstrLevelsFull(y, first, first + k), pre, k) = AbstrPlain(y, SubSeq(ls, 1, start + k))
        BY <1>0, <3>2, ClosesByLevel
      <3> QED BY <3>1, <3>3
    <2> QED BY <2>1, <2>4, <2>5, <2>6
  <1>7. Stands(pre, CloseTypes("pi", ctypes, b), CloseTypes("pi", ptypes, AbstrAt(b, pre, n)))
    <2> DEFINE tag == "pi"
    <2>1. tag \in {"pi", "lam"} /\ CloseTypes(tag, ctypes, b) \in Expr OBVIOUS
    <2> HIDE DEF tag, n
    <2>2. Stands(pre, CloseTypes(tag, ctypes, b), CloseTypes(tag, ptypes, AbstrAt(b, pre, n)))
      <3>1. Len(ptypes) = n BY DEF n
      <3> QED BY <1>0, <1>1, <1>3, <1>5, <1>6, <2>1, <3>1, ClosesTypes
    <2> QED BY <2>2 DEF tag
  <1> QED BY <1>5, <1>7

-----------------------------------------------------------------------------
(* Applications.                                                           *)

\* An application stands for that of what its parts stand for.
LEMMA AppStands ==
    ASSUME NEW ls, Distinct(ls), NEW f, NEW a, App(f, a) \in Expr, NEW q, NEW b, Stands(ls, f, q), Stands(ls, a, b)
    PROVE  Stands(ls, App(f, a), App(q, b))
  <1> DEFINE e == App(f, a)
  <1>1. /\ Children(e) = {2, 3} /\ e[1] = "app" /\ e[2] = f /\ e[3] = a /\ DOMAIN e = 1 .. 3
        /\ Below(e, 2, 0) = 0 /\ Below(e, 3, 0) = 0
    BY DEF App, Children, Below, IsBinder
  <1> HIDE DEF e
  <1>2. e \in Expr /\ Children(e) # {} BY <1>1 DEF e
  <1>3. Fits(ls, e, 0) BY <1>1, <1>2, PartsFit DEF Stands
  <1>4. PICK c : Made(Closing(ls), e, 0, c) BY <1>2, AtNode
  <1>5. c[2] = q /\ c[3] = b BY <1>1, <1>4 DEF Made, Stands, AbstrAt, AbstrPlain
  <1>6. With(e, c) = <<"app", c[2], c[3]>> BY <1>1 DEF With
  <1>7. AbstrPlain(e, ls) = With(e, c) BY <1>4 DEF Made, AbstrAt, AbstrPlain
  <1> QED BY <1>3, <1>5, <1>6, <1>7 DEF e, App, Stands

ApplyFrom(s) == s[1]
ApplyNext(s, n, prev) == App(prev, s[2][n])

Applying == INSTANCE Recursion WITH Base <- ApplyFrom, Step <- ApplyNext

Applies(A, f, args) == A[0] = f /\ \A k \in Nat : A[k + 1] = App(A[k], args[k + 1])

\* Arguments are applied one at a time.
LEMMA AppliedIs == ASSUME NEW f, NEW args PROVE \E A : Applied(f, args) = A[Len(args)] /\ Applies(A, f, args)
  <1> DEFINE s == <<f, args>>
             G(h) == [k \in Nat |-> IF k = 0 THEN f ELSE App(h[k - 1], args[k])]
             A == CHOOSE h : h = G(h)
  <1>1. \E h : h = [k \in Nat |-> IF k = 0 THEN ApplyFrom(s) ELSE ApplyNext(s, k, h[k - 1])]
    BY Applying!HasSolution
  <1>2. \E h : h = G(h) BY <1>1 DEF ApplyFrom, ApplyNext
  <1>3. A = G(A)
    <2> HIDE DEF G
    <2> QED BY <1>2
  <1>4. Applied(f, args) = A[Len(args)] BY DEF Applied
  <1> HIDE DEF A
  <1>5. A[0] = f BY <1>3
  <1>6. ASSUME NEW k \in Nat PROVE A[k + 1] = App(A[k], args[k + 1])
    <2>1. k + 1 \in Nat /\ k + 1 # 0 /\ (k + 1) - 1 = k OBVIOUS
    <2>2. G(A)[k + 1] = App(A[(k + 1) - 1], args[k + 1]) BY <2>1
    <2> HIDE DEF G
    <2> QED BY <1>3, <2>1, <2>2
  <1> QED BY <1>4, <1>5, <1>6 DEF Applies

\* Arguments put back behind what stands for something.
LEMMA AppliedStands ==
    ASSUME NEW ls, Distinct(ls), NEW args, NEW pargs, NEW n \in Nat, Len(args) = n, Len(pargs) = n,
           \A i \in 1 .. n : Stands(ls, args[i], pargs[i]),
           NEW f, NEW q, f \in Expr => Stands(ls, f, q), Applied(f, args) \in Expr
    PROVE  Stands(ls, Applied(f, args), Applied(q, pargs))
  <1>1. PICK A : Applied(f, args) = A[n] /\ Applies(A, f, args) BY AppliedIs
  <1>2. PICK Q : Applied(q, pargs) = Q[n] /\ Applies(Q, q, pargs) BY AppliedIs
  <1> DEFINE S == {k \in Nat : k <= n /\ A[k] \in Expr => Stands(ls, A[k], Q[k])}
  <1>3. 0 \in S BY <1>1, <1>2 DEF Applies
  <1>4. ASSUME NEW k \in Nat, k \in S PROVE k + 1 \in S
    <2> SUFFICES ASSUME k + 1 <= n, A[k + 1] \in Expr PROVE Stands(ls, A[k + 1], Q[k + 1]) OBVIOUS
    <2>1. A[k + 1] = App(A[k], args[k + 1]) /\ Q[k + 1] = App(Q[k], pargs[k + 1]) BY <1>1, <1>2 DEF Applies
    <2>2. Stands(ls, args[k + 1], pargs[k + 1])
      <3>1. k + 1 \in 1 .. n OBVIOUS
      <3> QED BY <3>1
    <2>3. A[k] \in Expr
      <3>1. Node(App(A[k], args[k + 1]), Expr) BY <2>1, ExprParts
      <3>2. Children(App(A[k], args[k + 1])) = {2, 3} BY DEF Children, App
      <3>3. App(A[k], args[k + 1])[2] = A[k] BY DEF App
      <3> QED BY <3>1, <3>2, <3>3 DEF Node
    <2>4. Stands(ls, A[k], Q[k])
      <3>1. k <= n OBVIOUS
      <3> QED BY <1>4, <2>3, <3>1
    <2> HIDE DEF S
    <2> QED BY <2>1, <2>2, <2>4, AppStands
  <1>5. Nat \subseteq S
    <2> HIDE DEF S
    <2> QED BY <1>3, <1>4, Applying!Induction
  <1>6. n \in S BY <1>5
  <1> QED BY <1>1, <1>2, <1>6

\* A part that is under no binder.
LEMMA PartStands ==
    ASSUME NEW ls, Distinct(ls), NEW e, NEW p, Stands(ls, e, p), NEW i \in Children(e), Below(e, i, 0) = 0
    PROVE  Stands(ls, e[i], p[i])
  <1>1. e \in Expr /\ Fits(ls, e, 0) /\ Children(e) # {} BY DEF Stands, Fits
  <1>2. Fits(ls, e[i], 0) BY <1>1, PartsFit
  <1>3. Traverse(Closing(ls), e, 0)[i] = Traverse(Closing(ls), e[i], Below(e, i, 0)) BY <1>1, TraverseNode
  <1> QED BY <1>2, <1>3 DEF Stands, AbstrPlain, AbstrAt

\* The arguments an expression is applied to, and what is applied.
LEMMA ArgsStand ==
    ASSUME NEW ls, Distinct(ls), NEW e, NEW p, Stands(ls, e, p), NEW m, m = RunLength(e, 2, "app")
    PROVE  /\ m \in Nat /\ m = RunLength(p, 2, "app") /\ Stands(ls, Down(e, 2)[m], Down(p, 2)[m])
           /\ Args(e, m) \in Seq(Expr) /\ Len(Args(e, m)) = m /\ Len(Args(p, m)) = m
           /\ \A i \in 1 .. m : Stands(ls, Args(e, m)[i], Args(p, m)[i])
  <1>1. WayDown(ls, e, p, 2, "app", m)
    <2>1. IsWay(2, "app") BY DEF IsWay
    <2> QED BY <2>1, StandsDown DEF Stands
  <1>2. /\ m \in Nat /\ m = RunLength(p, 2, "app")
        /\ \A k \in 0 .. m : Stands(ls, Down(e, 2)[k], Down(p, 2)[k])
        /\ \A k \in 0 .. m - 1 : Down(e, 2)[k][1] = "app"
    BY <1>1 DEF WayDown, Reach, Stands, AbstrPlain
  <1>3. ASSUME NEW i \in 1 .. m PROVE Stands(ls, Args(e, m)[i], Args(p, m)[i]) /\ Args(e, m)[i] \in Expr
    <2>1. m - i \in 0 .. m - 1 /\ m - i \in 0 .. m BY <1>2
    <2>2. PICK y, q : y = Down(e, 2)[m - i] /\ q = Down(p, 2)[m - i] OBVIOUS
    <2>3. Stands(ls, y, q) /\ y[1] = "app" BY <1>2, <2>1, <2>2
    <2>4. 3 \in Children(y) /\ Below(y, 3, 0) = 0 BY <2>3 DEF Children, Below, IsBinder
    <2>5. Stands(ls, y[3], q[3]) BY <2>3, <2>4, PartStands
    <2>6. Args(e, m)[i] = y[3] /\ Args(p, m)[i] = q[3] BY <2>2 DEF Args
    <2> QED BY <2>5, <2>6 DEF Stands, Fits
  <1>4. Args(e, m) \in Seq(Expr) /\ Len(Args(e, m)) = m
    <2>1. IsList(Args(e, m), m) BY DEF Args, IsList
    <2> QED BY <1>2, <1>3, <2>1, ListMade
  <1>5. Len(Args(p, m)) = m BY <1>2 DEF Args
  <1>6. m \in 0 .. m BY <1>2
  <1> QED BY <1>2, <1>3, <1>4, <1>5, <1>6

ReduceNext(s, n, prev) == Subst1Full(prev[3], s[2][n])

Reducing == INSTANCE Recursion WITH Base <- ApplyFrom, Step <- ReduceNext

Reduces(R, f, args) == R[0] = f /\ \A k \in Nat : R[k + 1] = Subst1Full(R[k][3], args[k + 1])

\* Arguments are substituted one at a time.
LEMMA ReducedIs == ASSUME NEW f, NEW args PROVE Reduces(Reduced(f, args), f, args)
  <1> DEFINE s == <<f, args>>
             G(h) == [k \in Nat |-> IF k = 0 THEN f ELSE Subst1Full(h[k - 1][3], args[k])]
             R == Reduced(f, args)
  <1>1. \E h : h = [k \in Nat |-> IF k = 0 THEN ApplyFrom(s) ELSE ReduceNext(s, k, h[k - 1])]
    BY Reducing!HasSolution
  <1>2. \E h : h = G(h) BY <1>1 DEF ApplyFrom, ReduceNext
  <1>3. R = CHOOSE h : h = G(h) BY DEF Reduced
  <1>4. R = G(R)
    <2> HIDE DEF G, R
    <2> QED BY <1>2, <1>3
  <1> HIDE DEF R
  <1>5. R[0] = f BY <1>4
  <1>6. ASSUME NEW k \in Nat PROVE R[k + 1] = Subst1Full(R[k][3], args[k + 1])
    <2>1. k + 1 \in Nat /\ k + 1 # 0 /\ (k + 1) - 1 = k OBVIOUS
    <2>2. G(R)[k + 1] = Subst1Full(R[(k + 1) - 1][3], args[k + 1]) BY <2>1
    <2> HIDE DEF G
    <2> QED BY <1>4, <2>1, <2>2
  <1> QED BY <1>5, <1>6 DEF Reduces, R

\* Arguments instantiated all at once stand for arguments substituted one by one.
LEMMA Contracts ==
    ASSUME NEW ls, Distinct(ls), NEW f, NEW q, Stands(ls, f, q),
           NEW n \in Nat, n <= RunLength(f, 3, "lam"),
           NEW new \in Seq(Expr), Len(new) = n, NEW pargs, \A i \in 1 .. n : Stands(ls, new[i], pargs[i]),
           \A k \in 0 .. n : Reduced(q, pargs)[k] \in Expr, InstFull(Down(f, 3)[n], new) \in Expr
    PROVE  Stands(ls, InstFull(Down(f, 3)[n], new), Reduced(q, pargs)[n])
  <1> DEFINE R == Reduced(q, pargs)
             D == Down(f, 3)
             S == {k \in Nat : k <= n => R[k] = Traverse(Passing(ls, pargs, k), D[k], 0)}
  <1>1. \E l \in Nat : n <= l /\ WayDown(ls, f, q, 3, "lam", l)
    <2>1. IsWay(3, "lam") BY DEF IsWay
    <2>2. WayDown(ls, f, q, 3, "lam", RunLength(f, 3, "lam")) BY <2>1, StandsDown DEF Stands
    <2>3. RunLength(f, 3, "lam") \in Nat BY <2>2 DEF WayDown
    <2> QED BY <2>2, <2>3
  <1>2. /\ \A k \in 0 .. n : Fits(ls, D[k], k)
        /\ \A k \in 0 .. n - 1 : D[k][1] = "lam"
    BY <1>1 DEF WayDown, Reach
  <1>3. D[0] = f /\ \A k \in Nat : D[k + 1] = D[k][3] BY DownIs
  <1>4. R[0] = q /\ \A k \in Nat : R[k + 1] = Subst1Full(R[k][3], pargs[k + 1])
    <2>1. Reduces(R, q, pargs) BY ReducedIs
    <2> HIDE DEF R
    <2> QED BY <2>1 DEF Reduces
  <1>5. \A k \in 0 .. n : R[k] \in Expr OBVIOUS
  <1> HIDE DEF R, D
  <1>6. \A i \in 1 .. n : Fits(<<>>, pargs[i], Len(ls)) BY MeaningFits DEF Stands
  <1>7. 0 \in S
    <2>1. R[0] = Traverse(Closing(ls), D[0], 0) BY <1>3, <1>4 DEF Stands, AbstrPlain, AbstrAt
    <2> QED BY <2>1, NothingPassed
  <1>8. ASSUME NEW k \in Nat, k \in S PROVE k + 1 \in S
    <2> SUFFICES ASSUME k + 1 <= n PROVE R[k + 1] = Traverse(Passing(ls, pargs, k + 1), D[k + 1], 0) OBVIOUS
    <2>1. k \in 0 .. n /\ k \in 0 .. n - 1 /\ k + 1 \in 0 .. n /\ k <= n OBVIOUS
    <2>2. D[k] \in Expr /\ D[k][1] = "lam" /\ Fits(ls, D[k + 1], k + 1) BY <1>2, <2>1 DEF Fits
    <2>3. 3 \in Children(D[k]) /\ Below(D[k], 3, 0) = 1 BY <2>2 DEF Children, Below, IsBinder
    <2>4. R[k] = Traverse(Passing(ls, pargs, k), D[k], 0) BY <1>8, <2>1
    <2>5. SameKind(R[k], D[k]) /\ R[k][3] = Traverse(Passing(ls, pargs, k), D[k][3], 1)
      <3>1. PICK y : y = D[k] OBVIOUS
      <3>2. y \in Expr /\ Children(y) # {} /\ 3 \in Children(y) /\ Below(y, 3, 0) = 1 BY <2>2, <2>3, <3>1
      <3>3. /\ SameKind(Traverse(Passing(ls, pargs, k), y, 0), y)
            /\ Traverse(Passing(ls, pargs, k), y, 0)[3] = Traverse(Passing(ls, pargs, k), y[3], Below(y, 3, 0))
        BY <3>2, TraverseNode
      <3> QED BY <2>4, <3>1, <3>2, <3>3
    <2>6. R[k][3] \in Expr
      <3>1. R[k] \in Expr /\ 3 \in Children(R[k]) BY <1>5, <2>1, <2>3, <2>5 DEF SameKind
      <3> QED BY <3>1, ExprParts DEF Node
    <2>7. Traverse(Passing(ls, pargs, k), D[k + 1], 1) \in Expr BY <1>3, <2>5, <2>6
    <2>8. \A i \in 1 .. k + 1 : Fits(<<>>, pargs[i], Len(ls))
      <3>1. 1 .. k + 1 \subseteq 1 .. n OBVIOUS
      <3> QED BY <1>6, <3>1
    <2>9. Subst1Full(Traverse(Passing(ls, pargs, k), D[k + 1], 1), pargs[k + 1])
            = Traverse(Passing(ls, pargs, k + 1), D[k + 1], 0)
      <3>1. PICK y : y = D[k + 1] OBVIOUS
      <3>2. Fits(ls, y, k + 1) /\ Traverse(Passing(ls, pargs, k), y, 1) \in Expr BY <2>2, <2>7, <3>1
      <3>3. Subst1Full(Traverse(Passing(ls, pargs, k), y, 1), pargs[k + 1]) = Traverse(Passing(ls, pargs, k + 1), y, 0)
        BY <2>8, <3>2, PassingOne
      <3> QED BY <3>1, <3>3
    <2> QED BY <1>3, <1>4, <2>5, <2>9
  <1>9. Nat \subseteq S
    <2> HIDE DEF S
    <2> QED BY <1>7, <1>8, Reducing!Induction
  <1>10. R[n] = Traverse(Passing(ls, pargs, n), D[n], 0)
    <2>1. n \in S BY <1>9
    <2> QED BY <2>1
  <1>11. Fits(ls, D[n], Len(new)) /\ InstFull(D[n], new) \in Expr
    <2>1. n \in 0 .. n OBVIOUS
    <2> QED BY <1>2, <2>1 DEF D
  <1>12. /\ Fits(ls, InstFull(D[n], new), 0)
         /\ AbstrPlain(InstFull(D[n], new), ls) = Traverse(Passing(ls, pargs, Len(new)), D[n], 0)
    <2>1. \A i \in 1 .. Len(new) : Fits(ls, new[i], 0) /\ AbstrPlain(new[i], ls) = pargs[i] BY DEF Stands
    <2>2. PICK y : y = D[n] OBVIOUS
    <2>3. Fits(ls, y, Len(new)) /\ InstFull(y, new) \in Expr BY <1>11, <2>2
    <2>4. Fits(ls, InstFull(y, new), 0) /\ AbstrPlain(InstFull(y, new), ls) = Traverse(Passing(ls, pargs, Len(new)), y, 0)
      BY <2>1, <2>3, PassingAll
    <2> QED BY <2>2, <2>4
  <1> QED BY <1>10, <1>12 DEF Stands, R, D

\* A let that is reduced stands for the reduced let.
LEMMA LetContracts ==
    ASSUME NEW ls, Distinct(ls), NEW f, NEW q, Stands(ls, f, q), f[1] = "let", InstFull(f[4], <<f[3]>>) \in Expr
    PROVE  q[1] = "let" /\ Stands(ls, InstFull(f[4], <<f[3]>>), Subst1Full(q[4], q[3]))
  <1> DEFINE args == <<q[3]>>
             new == <<f[3]>>
  <1>1. 3 \in Children(f) /\ 4 \in Children(f) /\ Below(f, 3, 0) = 0 /\ Below(f, 4, 0) = 1
    BY DEF Children, Below, IsBinder
  <1>2. f \in Expr /\ Fits(ls, f, 0) /\ q = Traverse(Closing(ls), f, 0) BY DEF Stands, Fits, AbstrPlain, AbstrAt
  <1>3. Stands(ls, f[3], q[3]) BY <1>1, PartStands
  <1>4. SameKind(q, f) /\ q[4] = Traverse(Closing(ls), f[4], 1)
    <2>1. Children(f) # {} BY <1>1
    <2>2. /\ SameKind(Traverse(Closing(ls), f, 0), f)
          /\ Traverse(Closing(ls), f, 0)[4] = Traverse(Closing(ls), f[4], Below(f, 4, 0))
      BY <1>1, <1>2, <2>1, TraverseNode
    <2> QED BY <1>1, <1>2, <2>2
  <1>5. Fits(ls, f[4], 1)
    <2>1. Children(f) # {} BY <1>1
    <2> QED BY <1>1, <1>2, <2>1, PartsFit
  <1>6. q[4] \in Expr
    <2>1. q \in Expr BY MeaningFits DEF Stands
    <2>2. 4 \in Children(q) BY <1>1, <1>4 DEF SameKind
    <2> QED BY <2>1, <2>2, ExprParts DEF Node
  <1>7. Subst1Full(q[4], q[3]) = Traverse(Passing(ls, args, 1), f[4], 0)
    <2>0. PICK k \in Nat : k = 0 OBVIOUS
    <2>1. PICK y : y = f[4] /\ k = 0 BY <2>0
    <2>2. Traverse(Passing(ls, args, k), y, 1) = q[4] BY <1>4, <2>1, NothingPassed
    <2>3. Fits(ls, y, k + 1) BY <1>5, <2>1
    <2>4. \A i \in 1 .. k + 1 : Fits(<<>>, args[i], Len(ls))
      <3>1. Fits(<<>>, q[3], Len(ls)) BY <1>3, MeaningFits DEF Stands
      <3>2. \A i \in 1 .. k + 1 : args[i] = q[3] BY <2>1
      <3> QED BY <3>1, <3>2
    <2>5. args[k + 1] = q[3] BY <2>1
    <2> HIDE DEF args
    <2>6. Subst1Full(Traverse(Passing(ls, args, k), y, 1), args[k + 1]) = Traverse(Passing(ls, args, k + 1), y, 0)
      BY <1>6, <2>2, <2>3, <2>4, PassingOne
    <2>7. k + 1 = 1 BY <2>1
    <2> QED BY <2>1, <2>2, <2>5, <2>6, <2>7
  <1>8. /\ Fits(ls, InstFull(f[4], new), 0)
        /\ AbstrPlain(InstFull(f[4], new), ls) = Traverse(Passing(ls, args, 1), f[4], 0)
    <2>1. new \in Seq(Expr) /\ Len(new) = 1 /\ \A i \in 1 .. Len(new) : Fits(ls, new[i], 0) /\ AbstrPlain(new[i], ls) = args[i]
      BY <1>3 DEF Stands, Fits
    <2>2. PICK y : y = f[4] OBVIOUS
    <2>3. InstFull(y, new) \in Expr /\ Fits(ls, y, Len(new)) BY <1>5, <2>1, <2>2
    <2> HIDE DEF args, new
    <2>4. Fits(ls, InstFull(y, new), 0) /\ AbstrPlain(InstFull(y, new), ls) = Traverse(Passing(ls, args, Len(new)), y, 0)
      BY <2>1, <2>3, PassingAll
    <2> QED BY <2>1, <2>2, <2>4
  <1>9. q[1] = "let" BY <1>4 DEF SameKind
  <1> QED BY <1>7, <1>8, <1>9 DEF Stands

-----------------------------------------------------------------------------
(* What is closed.                                                         *)

\* An expression without loose variables and locals stands for itself.
LEMMA ClosedStands == ASSUME NEW ls, Distinct(ls), NEW v, Fits(<<>>, v, 0) PROVE Stands(ls, v, v)
  <1>1. v \in Expr BY DEF Fits
  <1>2. Fits(ls, v, 0)
    <2>1. Members(<<>>) \subseteq Members(ls) BY DEF Members
    <2>2. PICK none, c : none = <<>> /\ c = 0 OBVIOUS
    <2>3. c \in Nat /\ c <= c /\ Fits(none, v, c) /\ Members(none) \subseteq Members(ls) BY <2>1, <2>2
    <2>4. Fits(ls, v, c) BY <2>3, FitsMore
    <2> QED BY <2>2, <2>4
  <1>3. ASSUME NEW x \in LeavesAt(v, 0) PROVE Closing(ls)[x] = x[1]
    <2>1. x = <<x[1], x[2]>> /\ LeafOf(<<>>, 0, x[1], x[2]) BY LeavesThatFit
    <2>2. x[1] \notin Members(<<>>) BY DEF Members
    <2>3. ~IsLocal(x[1])
      <3>1. CASE \E i \in Nat : x[1] = Var(i) BY <3>1, Vars
      <3>2. CASE IsPlain(x[1]) BY <3>2 DEF IsPlain
      <3> QED BY <2>1, <2>2, <3>1, <3>2 DEF LeafOf
    <2>4. x[1] \in Expr /\ x[2] \in Nat BY <2>1 DEF LeafOf
    <2>5. Closing(ls)[<<x[1], x[2]>>] = x[1] BY <2>3, <2>4, ClosingIs
    <2> QED BY <2>1, <2>5
  <1>4. Traverse(Closing(ls), v, 0) = v BY <1>1, <1>3, Identity
  <1> QED BY <1>2, <1>4 DEF Stands, AbstrPlain, AbstrAt

\* What is closed has neither loose variables nor locals.
LEMMA InputsFit == ASSUME NEW e, IsClosed(e) PROVE Fits(<<>>, e, 0)
  BY DEF IsClosed, Fits, NoLoose, Expr

\* Levels put for parameters leave it closed.
LEMMA PluggedFits ==
    ASSUME NEW v, Fits(<<>>, v, 0), NEW s, PlugLevels(v, s) \in Expr
    PROVE  Fits(<<>>, PlugLevels(v, s), 0)
  <1> DEFINE g == PluggingLevels(s)
             none == <<>>
  <1>1. ASSUME NEW y, NEW o, LeafOf(none, 0, y, o), g[<<y, o + 0>>] \in Expr PROVE Fits(none, g[<<y, o + 0>>], o + 0)
    <2>0. PICK k \in Nat : k = o /\ o + 0 = k BY <1>1 DEF LeafOf
    <2>1. y \in Expr /\ Children(y) = {} BY <1>1 DEF LeafOf
    <2>2. g[<<y, k>>] = CASE y[1] = "sort"  -> Sort(SubstLevel(y[2], s))
                          [] y[1] = "const" -> Const(y[2], SubstLevelList(y[3], s))
                          [] OTHER -> y
      BY <2>1 DEF PluggingLevels, Expr
    <2>3. CASE \E i \in Nat : y = Var(i) /\ i < k
      <3>1. PICK i \in Nat : y = Var(i) /\ i < k BY <2>3
      <3>2. g[<<y, k>>] = y BY <2>2, <3>1, Vars
      <3> HIDE DEF g
      <3>3. Fits(none, y, k) BY <3>1, FittingLeaves
      <3> QED BY <2>0, <3>2, <3>3
    <2>4. CASE IsPlain(y)
      <3> DEFINE r == g[<<y, k>>]
      <3>1. Children(r) = {} /\ IsPlain(r)
        <4>1. CASE y[1] = "sort" BY <2>2, <4>1 DEF Sort, Children, IsPlain, IsLocal
        <4>2. CASE y[1] = "const" BY <2>2, <4>2 DEF Const, Children, IsPlain, IsLocal
        <4>3. CASE y[1] \notin {"sort", "const"} BY <2>1, <2>2, <2>4, <4>3
        <4> QED BY <4>1, <4>2, <4>3
      <3>2. r \in Expr BY <1>1, <2>0
      <3> HIDE DEF r
      <3>3. Fits(none, r, k) BY <3>1, <3>2, FittingLeaves
      <3> QED BY <2>0, <3>3 DEF r
    <2>5. y \notin Members(none) BY DEF Members
    <2> QED BY <1>1, <2>0, <2>3, <2>4, <2>5 DEF LeafOf
  <1>2. Traverse(g, v, 0) \in Expr /\ Fits(none, v, 0) BY DEF PlugLevels
  <1> HIDE DEF g, none
  <1>3. PICK c \in Nat : c = 0 OBVIOUS
  <1>4. \A y, o : LeafOf(none, c, y, o) /\ g[<<y, o + c>>] \in Expr => Fits(none, g[<<y, o + c>>], o + c) BY <1>1, <1>3
  <1>5. Fits(none, v, c) /\ Traverse(g, v, c) \in Expr BY <1>2, <1>3
  <1>6. Fits(none, Traverse(g, v, c), c) BY <1>4, <1>5, FitsAfter
  <1> QED BY <1>3, <1>6 DEF PlugLevels, g, none

\* A constant stands for itself.
LEMMA ConstStands == ASSUME NEW ls, Distinct(ls), NEW f, NEW q, Stands(ls, f, q), f[1] = "const" PROVE q = f
  <1>1. f \in Expr /\ Children(f) = {} /\ ~IsLocal(f) BY DEF Stands, Fits, Children, IsLocal
  <1>2. Traverse(Closing(ls), f, 0) = Closing(ls)[<<f, 0>>] BY <1>1, AtLeaf
  <1>3. Closing(ls)[<<f, 0>>] = f BY <1>1, ClosingIs
  <1> QED BY <1>2, <1>3 DEF Stands, AbstrPlain, AbstrAt

-----------------------------------------------------------------------------
(* The locals in an expression, and in the types of those.                 *)

\* The leaves of an expression are of its stage.
LEMMA LeavesInStage == \A n \in 0 .. ExprDepth : \A e \in ExprsTo[n], o \in Nat : \A x \in LeavesAt(e, o) : x[1] \in ExprsTo[n]
  <1> DEFINE T(n) == \A e \in ExprsTo[n], o \in Nat : \A x \in LeavesAt(e, o) : x[1] \in ExprsTo[n]
             S == {n \in Nat : n <= ExprDepth => T(n)}
  <1>1. 0 \in S BY StageFacts
  <1>2. ASSUME NEW n \in Nat, n \in S PROVE n + 1 \in S
    <2> SUFFICES ASSUME n + 1 <= ExprDepth, NEW e \in ExprsTo[n + 1], NEW o \in Nat, NEW x \in LeavesAt(e, o)
                 PROVE  x[1] \in ExprsTo[n + 1]
      OBVIOUS
    <2>1. T(n)
      <3>1. n <= ExprDepth BY ExprDepthAssumption
      <3> QED BY <1>2, <3>1
    <2>2. e \in Expr
      <3>1. n + 1 \in 0 .. ExprDepth BY ExprDepthAssumption
      <3> QED BY <3>1, StagesAreExprs
    <2>3. CASE Children(e) = {}
      <3>1. x = <<e, o>> BY <2>2, <2>3, LeavesAtLeaf
      <3> QED BY <3>1
    <2>4. CASE Children(e) # {}
      <3>1. PICK i \in Children(e) : x \in LeavesAt(e[i], Below(e, i, o)) /\ Below(e, i, o) \in Nat
        BY <2>2, <2>4, LeavesAtNode
      <3>2. Node(e, ExprsTo[n]) BY StageFacts, NodeParts
      <3>3. e[i] \in ExprsTo[n] BY <3>2 DEF Node
      <3>4. x[1] \in ExprsTo[n] BY <2>1, <3>1, <3>3
      <3> QED BY <3>4, StagesGrow
    <2> QED BY <2>3, <2>4
  <1>3. Nat \subseteq S
    <2> HIDE DEF S
    <2> QED BY <1>1, <1>2, Stages!Induction
  <1>4. ASSUME NEW n \in 0 .. ExprDepth PROVE T(n) BY <1>3, ExprDepthAssumption
  <1> QED BY <1>4

\* The locals of an expression are expressions and among its leaves.
LEMMA LocalsAre ==
    ASSUME NEW e \in Expr, NEW x \in LocalsOf(e)
    PROVE  IsLocal(x) /\ x \in Expr /\ \E o \in Nat : <<x, o>> \in LeavesAt(e, 0)
  <1>1. PICK y \in LeavesAt(e, 0) : IsLocal(y[1]) /\ x = y[1] BY DEF LocalsOf
  <1>2. y = <<y[1], y[2]>> /\ y[1] \in Expr /\ y[2] \in Nat BY LeavesAreLeaves
  <1> QED BY <1>1, <1>2

\* Stages, up to the bound.
Capped == [n \in Nat |-> ExprsTo[IF n <= ExprDepth THEN n ELSE ExprDepth]]

OfLocals(s, x, f) == LocalsInArm(x, f)

Scoping == INSTANCE StructuralRecursion WITH Arm <- OfLocals

\* The type of a local in an expression is of the stage before.
LEMMA TypesInStage ==
    ASSUME NEW n \in Nat, NEW e \in Capped[n + 1], NEW x \in LocalsOf(e)
    PROVE  x[4] \in Capped[n]
  <1>1. CASE n + 1 <= ExprDepth
    <2>1. Capped[n + 1] = ExprsTo[n + 1] /\ Capped[n] = ExprsTo[n] /\ n + 1 \in 0 .. ExprDepth
      BY <1>1, ExprDepthAssumption DEF Capped
    <2>2. e \in Expr BY <2>1, StagesAreExprs
    <2>3. PICK o \in Nat : <<x, o>> \in LeavesAt(e, 0) /\ IsLocal(x) BY <2>2, LocalsAre
    <2>4. x \in ExprsTo[n + 1]
      <3>1. PICK m \in 0 .. ExprDepth : m = n + 1 BY <2>1
      <3>2. \A y \in LeavesAt(e, 0) : y[1] \in ExprsTo[m] BY <2>1, <3>1, LeavesInStage
      <3> QED BY <2>3, <3>1, <3>2
    <2>5. Node(x, ExprsTo[n]) BY <2>4, StageFacts, NodeParts
    <2> QED BY <2>1, <2>3, <2>5 DEF Node
  <1>2. CASE ~(n + 1 <= ExprDepth)
    <2>1. Capped[n + 1] = Expr /\ Capped[n] = Expr BY <1>2, ExprDepthAssumption DEF Capped, Expr
    <2>2. IsLocal(x) /\ x \in Expr BY <2>1, LocalsAre
    <2> QED BY <2>1, <2>2, ExprParts DEF Node
  <1> QED BY <1>1, <1>2

\* The locals in an expression are its own and those in their types.
LEMMA LocalsInIs ==
    ASSUME NEW e \in Expr
    PROVE  \A y : y \in LocalsIn(e) <=> y \in LocalsOf(e) \/ \E x \in LocalsOf(e) : y \in LocalsIn(x[4])
  <1> DEFINE F(f) == [x \in Expr |-> LocalsInArm(x, f)]
             I == CHOOSE f : f = F(f)
  <1>1. Scoping!Local(0, Capped)
    <2> SUFFICES ASSUME NEW n \in Nat, NEW f, NEW g, \A y \in Capped[n] : f[y] = g[y], NEW x \in Capped[n + 1]
                 PROVE  LocalsInArm(x, f) = LocalsInArm(x, g)
      BY DEF Scoping!Local, OfLocals
    <2>1. \A y \in LocalsOf(x) : f[y[4]] = g[y[4]] BY TypesInStage
    <2>2. {f[y[4]] : y \in LocalsOf(x)} = {g[y[4]] : y \in LocalsOf(x)} BY <2>1
    <2> QED BY <2>2 DEF LocalsInArm
  <1>2. Scoping!Grows(Capped)
    <2>1. Capped[0] = {} BY StageFacts, ExprDepthAssumption DEF Capped
    <2>2. ASSUME NEW n \in Nat PROVE Capped[n] \subseteq Capped[n + 1]
      <3>1. CASE n + 1 <= ExprDepth
        <4>1. Capped[n + 1] = ExprsTo[n + 1] /\ Capped[n] = ExprsTo[n] BY <3>1, ExprDepthAssumption DEF Capped
        <4> QED BY <4>1, StagesGrow
      <3>2. CASE ~(n + 1 <= ExprDepth)
        <4>1. Capped[n + 1] = Expr /\ Capped[n] = Expr BY <3>2, ExprDepthAssumption DEF Capped, Expr
        <4> QED BY <4>1
      <3> QED BY <3>1, <3>2
    <2> QED BY <2>1, <2>2 DEF Scoping!Grows
  <1>3. Scoping!Solvable(0, Expr)
    <2>1. Capped[ExprDepth] = Expr /\ ExprDepth \in Nat BY ExprDepthAssumption DEF Capped, Expr
    <2>2. Scoping!Solvable(0, Capped[ExprDepth]) BY <1>1, <1>2, <2>1, Scoping!HasFold
    <2> QED BY <2>1, <2>2
  <1>4. I = F(I) BY <1>3 DEF Scoping!Solvable, OfLocals
  <1>5. \A x : LocalsIn(x) = I[x] BY DEF LocalsIn, Expr
  <1> HIDE DEF I
  <1>6. I[e] = LocalsInArm(e, I) BY <1>4
  <1> QED BY <1>5, <1>6 DEF LocalsInArm

\* What is over the open locals mentions no others, their types included.
LEMMA LocalsInScope ==
    ASSUME NEW ls, NEW types, Scoped(ls, types), NEW e, Fits(ls, e, 0)
    PROVE  LocalsIn(e) \subseteq Members(ls)
  <1> DEFINE pre(k) == SubSeq(ls, 1, k)
             T(j) == j <= Len(ls) => \A y : Fits(pre(j), y, 0) => LocalsIn(y) \subseteq Members(pre(j))
             S == {k \in Nat : \A j \in 0 .. k : T(j)}
  <1>0. Distinct(ls) /\ ls \in Seq(Expr) BY DEF Scoped, Distinct
  <1>1. ASSUME NEW j \in Nat, \A i \in 0 .. j - 1 : T(i) PROVE T(j)
    <2> SUFFICES ASSUME j <= Len(ls), NEW y, Fits(pre(j), y, 0), NEW z \in LocalsIn(y) PROVE z \in Members(pre(j))
      OBVIOUS
    <2>1. Len(pre(j)) = j /\ \A i \in 1 .. j : pre(j)[i] = ls[i] BY <1>0, Prefixes
    <2>2. y \in Expr /\ LocalsOf(y) \subseteq Members(pre(j)) BY DEF Fits
    <2>3. CASE z \in LocalsOf(y) BY <2>2, <2>3
    <2>4. CASE \E x \in LocalsOf(y) : z \in LocalsIn(x[4])
      <3>1. PICK x \in LocalsOf(y) : z \in LocalsIn(x[4]) BY <2>4
      <3>2. PICK i \in 1 .. j : x = ls[i] BY <2>1, <2>2 DEF Members
      <3>3. PICK k \in 0 .. j - 1 : k = i - 1 OBVIOUS
      <3>4. Fits(pre(k), ls[i][4], 0)
        <4>1. i \in 1 .. Len(ls) BY <1>0
        <4>2. Stands(pre(i - 1), ls[i][4], types[i]) BY <4>1 DEF Scoped
        <4> QED BY <3>3, <4>2 DEF Stands
      <3>5. T(k) /\ k <= Len(ls) BY <1>0, <1>1
      <3>6. z \in Members(pre(k)) BY <3>1, <3>2, <3>4, <3>5
      <3>7. Len(pre(k)) = k /\ \A n \in 1 .. k : pre(k)[n] = ls[n] BY <1>0, <3>5, Prefixes
      <3> HIDE DEF pre
      <3>8. PICK n \in 1 .. k : z = ls[n] BY <3>6, <3>7 DEF Members
      <3>9. n \in 1 .. j OBVIOUS
      <3> QED BY <2>1, <3>8, <3>9 DEF Members
    <2> QED BY <2>2, <2>3, <2>4, LocalsInIs
  <1> HIDE DEF T
  <1>2. 0 \in S
    <2>1. \A i \in 0 .. 0 - 1 : T(i) OBVIOUS
    <2> QED BY <1>1, <2>1
  <1>3. ASSUME NEW k \in Nat, k \in S PROVE k + 1 \in S
    <2>1. \A i \in 0 .. (k + 1) - 1 : T(i) BY <1>3
    <2>2. T(k + 1) BY <1>1, <2>1
    <2> QED BY <2>1, <2>2
  <1>4. Nat \subseteq S
    <2> HIDE DEF S
    <2> QED BY <1>2, <1>3, Stages!Induction
  <1>5. Len(ls) \in Nat /\ pre(Len(ls)) = ls BY <1>0
  <1>6. T(Len(ls)) BY <1>4, <1>5
  <1> HIDE DEF pre
  <1> QED BY <1>5, <1>6 DEF T

-----------------------------------------------------------------------------
(* The numbers of the open locals.                                         *)

\* The first m locals are unique, the others those of the type checker.
Numbered(ls, m, levels, uniques) ==
    /\ ls \in Seq(Expr) /\ m \in Nat /\ levels \in Nat /\ uniques \in Nat /\ Len(ls) = m + levels
    /\ \A i \in 1 .. m : ls[i] = Unique(ls[i][3], ls[i][4]) /\ ls[i][3] \in Nat /\ ls[i][3] < uniques
    /\ \A i, j \in 1 .. m : i < j => ls[i][3] < ls[j][3]
    /\ \A i \in m + 1 .. Len(ls) : ls[i] = DbjLevel(i - m - 1, ls[i][4])

\* The two kinds of locals differ in their second component.
LEMMA KindsAre ==
    /\ \A x : x = Unique(x[3], x[4]) => IsLocal(x) /\ x[2] = "unique"
    /\ \A x, n : x = DbjLevel(n, x[4]) => IsLocal(x) /\ x[2] = "dbj" /\ x[3] = n
  BY DEF Unique, DbjLevel, IsLocal

\* What an open local is, by its place.
LEMMA NumberedCases ==
    ASSUME NEW ls, NEW m, NEW levels, NEW uniques, Numbered(ls, m, levels, uniques), NEW i \in 1 .. Len(ls)
    PROVE  /\ i \in 1 .. m \/ i \in m + 1 .. Len(ls)
           /\ i \in 1 .. m => IsLocal(ls[i]) /\ ls[i][2] = "unique" /\ ls[i][3] \in Nat /\ ls[i][3] < uniques
           /\ i \in m + 1 .. Len(ls) => IsLocal(ls[i]) /\ ls[i][2] = "dbj" /\ ls[i][3] = i - m - 1
  <1>1. i \in 1 .. m \/ i \in m + 1 .. Len(ls) BY DEF Numbered
  <1>2. ASSUME i \in 1 .. m PROVE IsLocal(ls[i]) /\ ls[i][2] = "unique" /\ ls[i][3] \in Nat /\ ls[i][3] < uniques
    <2>1. ls[i] = Unique(ls[i][3], ls[i][4]) /\ ls[i][3] \in Nat /\ ls[i][3] < uniques BY <1>2 DEF Numbered
    <2> QED BY <2>1, KindsAre
  <1>3. ASSUME i \in m + 1 .. Len(ls) PROVE IsLocal(ls[i]) /\ ls[i][2] = "dbj" /\ ls[i][3] = i - m - 1
    <2>1. ls[i] = DbjLevel(i - m - 1, ls[i][4]) BY <1>3 DEF Numbered
    <2> QED BY <2>1, KindsAre
  <1> QED BY <1>1, <1>2, <1>3

\* What the counters stand at has not been given to an open local.
LEMMA NextIsFresh ==
    ASSUME NEW ls, NEW m, NEW levels, NEW uniques, Numbered(ls, m, levels, uniques)
    PROVE  Fresh(ls, "dbj", levels) /\ Fresh(ls, "unique", uniques)
  <1> SUFFICES ASSUME NEW i \in 1 .. Len(ls)
               PROVE  /\ IsLocal(ls[i])
                      /\ ls[i][2] = "dbj" => ls[i][3] \in Nat /\ ls[i][3] < levels
                      /\ ls[i][2] = "unique" => ls[i][3] \in Nat /\ ls[i][3] < uniques
    BY DEF Fresh
  <1>1. CASE i \in 1 .. m BY <1>1, NumberedCases
  <1>2. CASE i \in m + 1 .. Len(ls)
    <2>1. IsLocal(ls[i]) /\ ls[i][2] = "dbj" /\ ls[i][3] = i - m - 1 BY <1>2, NumberedCases
    <2>2. m \in Nat /\ levels \in Nat /\ Len(ls) = m + levels BY DEF Numbered
    <2>3. i - m - 1 \in Nat /\ i - m - 1 < levels BY <1>2, <2>2
    <2> QED BY <2>1, <2>3
  <1> QED BY <1>1, <1>2, NumberedCases

\* More locals of the type checker.
LEMMA MoreLevels ==
    ASSUME NEW ls, NEW m, NEW levels, NEW uniques, Numbered(ls, m, levels, uniques),
           NEW new \in Seq(Expr), InOrder(new, "dbj", levels)
    PROVE  Numbered(ls \o new, m, levels + Len(new), uniques)
  <1> DEFINE both == ls \o new
             n == Len(new)
             l == Len(ls)
  <1>0. ls \in Seq(Expr) /\ m \in Nat /\ levels \in Nat /\ uniques \in Nat /\ l = m + levels /\ n \in Nat /\ l \in Nat
    BY DEF Numbered
  <1>1. /\ both \in Seq(Expr) /\ Len(both) = l + n
        /\ \A i \in 1 .. l : both[i] = ls[i]
        /\ \A i \in 1 .. n : both[l + i] = new[i]
    BY <1>0, Joined
  <1>2. \A i \in 1 .. m : both[i] = ls[i] BY <1>0, <1>1
  <1>3. ASSUME NEW i \in m + 1 .. Len(both) PROVE both[i] = DbjLevel(i - m - 1, both[i][4])
    <2>1. CASE i \in 1 .. l
      <3>1. i \in m + 1 .. l BY <1>0, <2>1
      <3> QED BY <1>1, <2>1, <3>1 DEF Numbered
    <2>2. CASE \E j \in 1 .. n : i = l + j
      <3>1. PICK j \in 1 .. n : i = l + j BY <2>2
      <3>2. new[j] = DbjLevel(levels + j - 1, new[j][4]) BY DEF InOrder, MkLocal
      <3>3. levels + j - 1 = i - m - 1 BY <1>0, <3>1
      <3>4. both[i] = new[j] BY <1>1, <3>1
      <3> QED BY <3>2, <3>3, <3>4
    <2>3. i \in 1 .. l + n BY <1>0, <1>1
    <2> QED BY <1>0, <2>1, <2>2, <2>3, JoinedCases
  <1>4. Len(both) = m + (levels + n) /\ levels + n \in Nat BY <1>0, <1>1
  <1> HIDE DEF both, n, l
  <1>5. /\ \A i \in 1 .. m : both[i] = Unique(both[i][3], both[i][4]) /\ both[i][3] \in Nat /\ both[i][3] < uniques
        /\ \A i, j \in 1 .. m : i < j => both[i][3] < both[j][3]
    BY <1>2 DEF Numbered
  <1> QED BY <1>0, <1>1, <1>3, <1>4, <1>5 DEF Numbered, both, n

\* More unique ones, where there is none of the type checker.
LEMMA MoreUniques ==
    ASSUME NEW ls, NEW m, NEW uniques, Numbered(ls, m, 0, uniques),
           NEW new \in Seq(Expr), InOrder(new, "unique", uniques)
    PROVE  Numbered(ls \o new, m + Len(new), 0, uniques + Len(new))
  <1> DEFINE both == ls \o new
             n == Len(new)
  <1>0. ls \in Seq(Expr) /\ m \in Nat /\ uniques \in Nat /\ Len(ls) = m /\ n \in Nat
    BY DEF Numbered
  <1>1. /\ both \in Seq(Expr) /\ Len(both) = m + n
        /\ \A i \in 1 .. m : both[i] = ls[i]
        /\ \A i \in 1 .. n : both[m + i] = new[i]
    <2>1. /\ both \in Seq(Expr) /\ Len(both) = Len(ls) + n
          /\ \A i \in 1 .. Len(ls) : both[i] = ls[i]
          /\ \A i \in 1 .. n : both[Len(ls) + i] = new[i]
      BY <1>0, Joined
    <2> HIDE DEF both, n
    <2> QED BY <1>0, <2>1
  <1> DEFINE Old(i) == i \in 1 .. m /\ both[i] = ls[i]
             New(i) == \E j \in 1 .. n : i = m + j /\ both[i][3] = uniques + j - 1
                                         /\ both[i] = Unique(both[i][3], both[i][4])
  <1>2. ASSUME NEW i \in 1 .. m + n PROVE Old(i) \/ New(i)
    <2>1. CASE i \in 1 .. m BY <1>1, <2>1
    <2>2. CASE \E j \in 1 .. n : i = m + j
      <3>1. PICK j \in 1 .. n : i = m + j BY <2>2
      <3>2. new[j] = Unique(uniques + j - 1, new[j][4]) BY DEF InOrder, MkLocal
      <3>3. both[i] = new[j] BY <1>1, <3>1
      <3>4. both[i][3] = uniques + j - 1 /\ both[i] = Unique(both[i][3], both[i][4]) BY <3>2, <3>3 DEF Unique
      <3> QED BY <3>1, <3>4
    <2> QED BY <1>0, <2>1, <2>2, JoinedCases
  <1> HIDE DEF both, n
  <1>3. ASSUME NEW i \in 1 .. m
        PROVE  ls[i] = Unique(ls[i][3], ls[i][4]) /\ ls[i][3] \in Nat /\ ls[i][3] < uniques
    BY DEF Numbered
  <1>4. ASSUME NEW i \in 1 .. m + n
        PROVE  both[i] = Unique(both[i][3], both[i][4]) /\ both[i][3] \in Nat /\ both[i][3] < uniques + n
    <2>1. CASE Old(i)
      <3>1. ls[i] = Unique(ls[i][3], ls[i][4]) /\ ls[i][3] \in Nat /\ ls[i][3] < uniques BY <1>3, <2>1
      <3> QED BY <1>0, <2>1, <3>1
    <2>2. CASE New(i) BY <1>0, <2>2
    <2> QED BY <1>2, <2>1, <2>2
  <1>5. ASSUME NEW i \in 1 .. m + n, NEW j \in 1 .. m + n, i < j PROVE both[i][3] < both[j][3]
    <2>1. CASE Old(i) /\ Old(j)
      <3>1. ls[i][3] < ls[j][3] BY <1>5, <2>1 DEF Numbered
      <3> QED BY <2>1, <3>1
    <2>2. CASE Old(i) /\ New(j)
      <3>1. ls[i][3] \in Nat /\ ls[i][3] < uniques BY <1>3, <2>2
      <3> QED BY <1>0, <2>2, <3>1
    <2>3. CASE New(i) /\ Old(j) BY <1>0, <1>5, <2>3
    <2>4. CASE New(i) /\ New(j) BY <1>0, <1>5, <2>4
    <2> QED BY <1>2, <2>1, <2>2, <2>3, <2>4
  <1>6. /\ m + n \in Nat /\ uniques + n \in Nat /\ Len(both) = (m + n) + 0 /\ 0 \in Nat
        /\ \A i \in (m + n) + 1 .. Len(both) : both[i] = DbjLevel(i - (m + n) - 1, both[i][4])
    BY <1>0, <1>1
  <1> QED BY <1>1, <1>4, <1>5, <1>6 DEF Numbered, both, n

\* Fewer.
LEMMA FewerLocals ==
    ASSUME NEW ls, NEW m, NEW levels, NEW uniques, Numbered(ls, m, levels, uniques), NEW k \in 0 .. Len(ls)
    PROVE  /\ m <= k => Numbered(SubSeq(ls, 1, k), m, k - m, uniques)
           /\ k <= m => Numbered(SubSeq(ls, 1, k), k, 0, uniques)
  <1> DEFINE pre == SubSeq(ls, 1, k)
  <1>0. ls \in Seq(Expr) /\ m \in Nat /\ levels \in Nat /\ uniques \in Nat /\ Len(ls) = m + levels /\ k \in Nat BY DEF Numbered
  <1>1. pre \in Seq(Expr) /\ Len(pre) = k /\ \A i \in 1 .. k : pre[i] = ls[i] BY <1>0, Prefixes
  <1> HIDE DEF pre
  <1>2. ASSUME m <= k PROVE Numbered(pre, m, k - m, uniques)
    <2>1. k - m \in Nat /\ k = m + (k - m) BY <1>0, <1>2
    <2>2. \A i \in 1 .. m : pre[i] = ls[i] BY <1>0, <1>1, <1>2
    <2>3. \A i \in m + 1 .. k : pre[i] = ls[i] /\ i \in m + 1 .. Len(ls) BY <1>0, <1>1, <1>2
    <2>4. /\ \A i \in 1 .. m : pre[i] = Unique(pre[i][3], pre[i][4]) /\ pre[i][3] \in Nat /\ pre[i][3] < uniques
          /\ \A i, j \in 1 .. m : i < j => pre[i][3] < pre[j][3]
      BY <2>2 DEF Numbered
    <2>5. \A i \in m + 1 .. k : pre[i] = DbjLevel(i - m - 1, pre[i][4]) BY <2>3 DEF Numbered
    <2> QED BY <1>0, <1>1, <2>1, <2>4, <2>5 DEF Numbered
  <1>3. ASSUME k <= m PROVE Numbered(pre, k, 0, uniques)
    <2>1. \A i \in 1 .. k : pre[i] = ls[i] /\ i \in 1 .. m BY <1>0, <1>1, <1>3
    <2>2. /\ \A i \in 1 .. k : pre[i] = Unique(pre[i][3], pre[i][4]) /\ pre[i][3] \in Nat /\ pre[i][3] < uniques
          /\ \A i, j \in 1 .. k : i < j => pre[i][3] < pre[j][3]
      BY <2>1 DEF Numbered
    <2> QED BY <1>0, <1>1, <2>2 DEF Numbered
  <1> QED BY <1>2, <1>3 DEF pre

-----------------------------------------------------------------------------
(* The open telescopes.                                                    *)

Frame == [tag : {"pi", "lam"}, how : {"dbj", "unique"}, start : Nat, caller : Expr, meaning : Expr]

\* A telescope, opened by the locals after start up to next.
FrameOK(f, next, ls, types, m) ==
    /\ f \in Frame /\ next \in Nat /\ f.start < next /\ next <= Len(ls)
    /\ Stands(SubSeq(ls, 1, f.start), f.caller, f.meaning) /\ f.caller[1] = f.tag
    /\ RunLength(f.caller, 3, f.tag) = next - f.start
    /\ \A i \in 1 .. next - f.start : types[f.start + i] = BinderTypes(f.meaning, next - f.start)[i]
    /\ f.how = "unique" => next <= m
    /\ f.how = "dbj" => m <= f.start

NextStart(fs, i, len) == IF i = Len(fs) THEN len ELSE fs[i + 1].start

\* Each within those before it.
FramesOK(fs, ls, types, m) ==
    /\ fs \in Seq(Frame)
    /\ \A i \in 1 .. Len(fs) : FrameOK(fs[i], NextStart(fs, i, Len(ls)), ls, types, m)
    /\ \A i, j \in 1 .. Len(fs) : i < j => NextStart(fs, i, Len(ls)) <= fs[j].start

\* A telescope stays one while nothing it was opened over changes.
LEMMA FrameMoves ==
    ASSUME NEW f, NEW next, NEW ls \in Seq(Expr), NEW types, NEW m \in Nat, FrameOK(f, next, ls, types, m),
           NEW ls2 \in Seq(Expr), next <= Len(ls2), \A i \in 1 .. f.start : ls2[i] = ls[i],
           NEW types2, \A i \in 1 .. next : types2[i] = types[i],
           NEW m2 \in Nat, m2 = m \/ (m = Len(ls) /\ next <= m2)
    PROVE  FrameOK(f, next, ls2, types2, m2)
  <1>1. f \in Frame /\ f.start \in Nat /\ next \in Nat /\ f.start < next /\ next <= Len(ls) BY DEF FrameOK, Frame
  <1>2. SubSeq(ls2, 1, f.start) = SubSeq(ls, 1, f.start)
    <2>1. f.start \in 0 .. Len(ls) /\ f.start \in 0 .. Len(ls2) BY <1>1
    <2>2. SubSeq(ls, 1, f.start) \in Seq(Expr) /\ Len(SubSeq(ls, 1, f.start)) = f.start
          /\ \A i \in 1 .. f.start : SubSeq(ls, 1, f.start)[i] = ls[i]
      BY <2>1, Prefixes
    <2>3. SubSeq(ls2, 1, f.start) \in Seq(Expr) /\ Len(SubSeq(ls2, 1, f.start)) = f.start
          /\ \A i \in 1 .. f.start : SubSeq(ls2, 1, f.start)[i] = ls2[i]
      BY <2>1, Prefixes
    <2> QED BY <2>2, <2>3, SameLists
  <1>3. \A i \in 1 .. next - f.start : types2[f.start + i] = types[f.start + i] BY <1>1
  <1>4. (f.how = "unique" => next <= m2) /\ (f.how = "dbj" => m2 <= f.start)
    <2>1. (f.how = "unique" => next <= m) /\ (f.how = "dbj" => m <= f.start) BY DEF FrameOK
    <2> QED BY <1>1, <2>1
  <1> QED BY <1>1, <1>2, <1>3, <1>4 DEF FrameOK

\* One more.
LEMMA FramesPush ==
    ASSUME NEW fs, NEW ls \in Seq(Expr), NEW types, NEW m \in Nat, FramesOK(fs, ls, types, m),
           NEW ls2 \in Seq(Expr), Len(ls) <= Len(ls2), \A i \in 1 .. Len(ls) : ls2[i] = ls[i],
           NEW types2, \A i \in 1 .. Len(ls) : types2[i] = types[i],
           NEW m2 \in Nat, m2 = m \/ (m = Len(ls) /\ Len(ls) <= m2),
           NEW f, f.start = Len(ls), FrameOK(f, Len(ls2), ls2, types2, m2)
    PROVE  FramesOK(Append(fs, f), ls2, types2, m2)
  <1> DEFINE gs == Append(fs, f)
             N(i) == NextStart(gs, i, Len(ls2))
  <1>1. fs \in Seq(Frame) /\ f \in Frame BY DEF FramesOK, FrameOK
  <1>2. /\ gs \in Seq(Frame) /\ Len(gs) = Len(fs) + 1 /\ gs[Len(fs) + 1] = f
        /\ \A i \in 1 .. Len(fs) : gs[i] = fs[i]
    BY <1>1
  <1>3. Len(fs) \in Nat BY <1>1
  <1> HIDE DEF gs
  <1>4. ASSUME NEW i \in 1 .. Len(fs)
        PROVE N(i) = NextStart(fs, i, Len(ls)) /\ FrameOK(gs[i], N(i), ls2, types2, m2) /\ N(i) <= Len(ls)
    <2>1. i # Len(gs) /\ i + 1 \in 1 .. Len(gs) BY <1>2, <1>3
    <2>2. N(i) = NextStart(fs, i, Len(ls))
      <3>1. CASE i = Len(fs) BY <1>2, <2>1, <3>1 DEF NextStart
      <3>2. CASE i # Len(fs)
        <4>1. i + 1 \in 1 .. Len(fs) BY <1>3, <3>2
        <4> QED BY <1>2, <2>1, <3>2, <4>1 DEF NextStart
      <3> QED BY <3>1, <3>2
    <2>3. FrameOK(fs[i], N(i), ls, types, m) BY <2>2 DEF FramesOK
    <2>4. N(i) \in Nat /\ N(i) <= Len(ls) /\ fs[i].start \in Nat /\ fs[i].start < N(i) BY <2>3 DEF FrameOK, Frame
    <2> DEFINE next == N(i)
               g == fs[i]
    <2>5. FrameOK(g, next, ls, types, m) /\ next \in Nat /\ next <= Len(ls) /\ g.start \in Nat /\ g.start < next
      BY <2>3, <2>4
    <2> HIDE DEF next, g, N
    <2>6. /\ next <= Len(ls2) /\ (\A k \in 1 .. g.start : ls2[k] = ls[k]) /\ (\A k \in 1 .. next : types2[k] = types[k])
          /\ m2 = m \/ (m = Len(ls) /\ next <= m2)
      BY <2>5
    <2>7. FrameOK(g, next, ls2, types2, m2) BY <2>5, <2>6, FrameMoves
    <2> QED BY <1>2, <2>2, <2>4, <2>7 DEF next, g
  <1>5. N(Len(fs) + 1) = Len(ls2) BY <1>2 DEF NextStart
  <1>6. ASSUME NEW i \in 1 .. Len(gs) PROVE FrameOK(gs[i], N(i), ls2, types2, m2)
    <2>1. i \in 1 .. Len(fs) \/ i = Len(fs) + 1 BY <1>2, <1>3
    <2> QED BY <1>2, <1>4, <1>5, <2>1
  <1>7. ASSUME NEW i \in 1 .. Len(gs), NEW j \in 1 .. Len(gs), i < j PROVE N(i) <= gs[j].start
    <2>1. i \in 1 .. Len(fs) BY <1>2, <1>3, <1>7
    <2>2. CASE j \in 1 .. Len(fs)
      <3>1. NextStart(fs, i, Len(ls)) <= fs[j].start BY <1>7, <2>1, <2>2 DEF FramesOK
      <3> QED BY <1>2, <1>4, <2>1, <2>2, <3>1
    <2>3. CASE j = Len(fs) + 1 BY <1>2, <1>4, <2>1, <2>3
    <2> QED BY <1>2, <1>3, <2>2, <2>3
  <1> QED BY <1>2, <1>6, <1>7 DEF FramesOK, gs

\* What is known of the last.
LEMMA LastFrame ==
    ASSUME NEW fs, NEW ls \in Seq(Expr), NEW types, NEW m \in Nat, FramesOK(fs, ls, types, m), fs # <<>>
    PROVE  Len(fs) \in Nat /\ Len(fs) > 0 /\ FrameOK(fs[Len(fs)], Len(ls), ls, types, m)
  <1>1. fs \in Seq(Frame) BY DEF FramesOK
  <1>2. Len(fs) \in Nat /\ Len(fs) > 0 /\ Len(fs) \in 1 .. Len(fs) BY <1>1
  <1> QED BY <1>2 DEF FramesOK, NextStart

\* One less.
LEMMA FramesPop ==
    ASSUME NEW fs, NEW ls \in Seq(Expr), NEW types \in Seq(Expr), Len(types) = Len(ls), NEW m \in Nat,
           FramesOK(fs, ls, types, m), fs # <<>>,
           NEW k, k = fs[Len(fs)].start,
           NEW m2 \in Nat, m2 = m \/ (m = Len(ls) /\ m2 = k)
    PROVE  FramesOK(SubSeq(fs, 1, Len(fs) - 1), SubSeq(ls, 1, k), SubSeq(types, 1, k), m2)
  <1> DEFINE gs == SubSeq(fs, 1, Len(fs) - 1)
             pre == SubSeq(ls, 1, k)
             tps == SubSeq(types, 1, k)
             N(i) == NextStart(gs, i, Len(pre))
  <1>1. fs \in Seq(Frame) /\ Len(fs) \in Nat /\ Len(fs) > 0 /\ k \in 0 .. Len(ls)
    <2>1. Len(fs) \in Nat /\ Len(fs) > 0 /\ FrameOK(fs[Len(fs)], Len(ls), ls, types, m) BY LastFrame
    <2>2. k \in Nat /\ k < Len(ls) BY <2>1 DEF FrameOK, Frame
    <2> QED BY <2>1, <2>2 DEF FramesOK
  <1>2. /\ gs \in Seq(Frame) /\ Len(gs) = Len(fs) - 1
        /\ \A i \in 1 .. Len(fs) - 1 : gs[i] = fs[i]
    <2>1. Len(fs) - 1 \in 0 .. Len(fs) BY <1>1
    <2> QED BY <1>1, <2>1, Prefixes
  <1>3. pre \in Seq(Expr) /\ Len(pre) = k /\ \A i \in 1 .. k : pre[i] = ls[i] BY <1>1, Prefixes
  <1>4. tps \in Seq(Expr) /\ Len(tps) = k /\ \A i \in 1 .. k : tps[i] = types[i] BY <1>1, Prefixes
  <1> HIDE DEF gs, pre, tps
  <1>5. ASSUME NEW i \in 1 .. Len(gs)
        PROVE N(i) = NextStart(fs, i, Len(ls)) /\ FrameOK(gs[i], N(i), pre, tps, m2)
    <2>1. i \in 1 .. Len(fs) /\ i # Len(fs) /\ i < Len(fs) /\ Len(fs) \in 1 .. Len(fs) BY <1>1, <1>2
    <2>2. N(i) = NextStart(fs, i, Len(ls))
      <3>1. CASE i = Len(gs)
        <4>1. i + 1 = Len(fs) BY <1>1, <1>2, <3>1
        <4> QED BY <1>3, <2>1, <3>1, <4>1 DEF NextStart
      <3>2. CASE i # Len(gs)
        <4>1. i + 1 \in 1 .. Len(fs) - 1 BY <1>1, <1>2, <3>2
        <4> QED BY <1>2, <2>1, <3>2, <4>1 DEF NextStart
      <3> QED BY <3>1, <3>2
    <2> DEFINE next == N(i)
               g == fs[i]
    <2>3. FrameOK(g, next, ls, types, m) BY <2>1, <2>2 DEF FramesOK
    <2>4. next <= k BY <2>1, <2>2 DEF FramesOK
    <2>5. next \in Nat /\ g.start \in Nat /\ g.start < next BY <2>3 DEF FrameOK, Frame
    <2> HIDE DEF next, g, N
    <2>6. /\ next <= Len(pre) /\ (\A j \in 1 .. g.start : pre[j] = ls[j]) /\ (\A j \in 1 .. next : tps[j] = types[j])
          /\ m2 = m \/ (m = Len(ls) /\ next <= m2)
      <3>1. next <= Len(pre) BY <1>3, <2>4
      <3>2. ASSUME NEW j \in 1 .. g.start PROVE pre[j] = ls[j]
        <4>1. j \in 1 .. k BY <1>1, <2>4, <2>5
        <4> QED BY <1>3, <4>1
      <3>3. ASSUME NEW j \in 1 .. next PROVE tps[j] = types[j]
        <4>1. j \in 1 .. k BY <1>1, <2>4, <2>5
        <4> QED BY <1>4, <4>1
      <3>4. m2 = m \/ (m = Len(ls) /\ next <= m2) BY <2>4
      <3> QED BY <3>1, <3>2, <3>3, <3>4
    <2>7. FrameOK(g, next, pre, tps, m2) BY <1>3, <2>3, <2>6, FrameMoves
    <2> QED BY <1>2, <2>2, <2>7 DEF next, g
  <1>6. ASSUME NEW i \in 1 .. Len(gs), NEW j \in 1 .. Len(gs), i < j PROVE N(i) <= gs[j].start
    <2>1. i \in 1 .. Len(fs) /\ j \in 1 .. Len(fs) /\ gs[j] = fs[j]
      <3>1. Len(gs) = Len(fs) - 1 /\ Len(fs) \in Nat BY <1>1, <1>2
      <3>2. i \in 1 .. Len(fs) /\ j \in 1 .. Len(fs) /\ j \in 1 .. Len(fs) - 1 BY <3>1
      <3> QED BY <1>2, <3>2
    <2>2. NextStart(fs, i, Len(ls)) <= fs[j].start BY <1>6, <2>1 DEF FramesOK
    <2> QED BY <1>5, <2>1, <2>2
  <1> QED BY <1>2, <1>5, <1>6 DEF FramesOK, gs, pre, tps

\* The locals of the last replaced by others.
LEMMA FramesReplaced ==
    ASSUME NEW fs, NEW ls \in Seq(Expr), NEW types, NEW m \in Nat, FramesOK(fs, ls, types, m), fs # <<>>,
           NEW ls2 \in Seq(Expr), Len(ls2) = Len(ls), \A i \in 1 .. fs[Len(fs)].start : ls2[i] = ls[i]
    PROVE  FramesOK(fs, ls2, types, m)
  <1>1. fs \in Seq(Frame) /\ Len(fs) \in Nat /\ Len(fs) > 0 BY LastFrame DEF FramesOK
  <1>2. ASSUME NEW i \in 1 .. Len(fs) PROVE FrameOK(fs[i], NextStart(fs, i, Len(ls)), ls2, types, m)
    <2> DEFINE next == NextStart(fs, i, Len(ls))
               g == fs[i]
               k == fs[Len(fs)].start
    <2>1. FrameOK(g, next, ls, types, m) BY DEF FramesOK
    <2>2. next \in Nat /\ g.start \in Nat /\ g.start < next /\ next <= Len(ls) BY <2>1 DEF FrameOK, Frame
    <2>3. k \in Nat /\ g.start <= k
      <3>1. FrameOK(fs[Len(fs)], Len(ls), ls, types, m) BY LastFrame
      <3>2. k \in Nat BY <3>1 DEF FrameOK, Frame
      <3>3. CASE i = Len(fs) BY <3>2, <3>3
      <3>4. CASE i # Len(fs)
        <4>1. i < Len(fs) /\ Len(fs) \in 1 .. Len(fs) BY <1>1, <3>4
        <4>2. next <= k BY <4>1 DEF FramesOK
        <4> QED BY <2>2, <3>2, <4>2
      <3> QED BY <3>3, <3>4
    <2>4. \A j \in 1 .. k : ls2[j] = ls[j] OBVIOUS
    <2> HIDE DEF next, g, k
    <2>5. /\ next <= Len(ls2) /\ (\A j \in 1 .. g.start : ls2[j] = ls[j]) /\ (\A j \in 1 .. next : types[j] = types[j])
          /\ m = m \/ (m = Len(ls) /\ next <= m)
      BY <2>2, <2>3, <2>4
    <2> QED BY <2>1, <2>5, FrameMoves DEF next, g
  <1> QED BY <1>2 DEF FramesOK

-----------------------------------------------------------------------------
(* The inductive invariant.                                                *)

Inv(ls, types, fs, e, p, levels, uniques) ==
    /\ Scoped(ls, types)
    /\ Numbered(ls, Len(ls) - levels, levels, uniques)
    /\ Stands(ls, e, p)
    /\ FramesOK(fs, ls, types, Len(ls) - levels)

\* What stands for what is said of the open locals, and every open telescope is
\* one that was entered with what stood for its meaning.
IInv == Inv(opened, context, frames, at, plain, dbjLevelCounter, uniqueCounter)

\* Types of the parts of the invariant.
LEMMA InvParts ==
    ASSUME NEW ls, NEW types, NEW fs, NEW e, NEW p, NEW levels, NEW uniques, Inv(ls, types, fs, e, p, levels, uniques)
    PROVE  /\ Distinct(ls) /\ ls \in Seq(Expr) /\ types \in Seq(Expr) /\ Len(types) = Len(ls)
           /\ Len(ls) \in Nat /\ levels \in Nat /\ uniques \in Nat /\ Len(ls) - levels \in Nat
  <1>1. Scoped(ls, types) /\ Numbered(ls, Len(ls) - levels, levels, uniques) BY DEF Inv
  <1> QED BY <1>1 DEF Scoped, Numbered

\* The beginning: nothing is open.
LEMMA InitInv == Init => IInv
  <1> SUFFICES ASSUME Init PROVE Inv(<<>>, <<>>, <<>>, at, at, 0, 0) BY DEF Init, IInv
  <1>1. at \in Start BY DEF Init
  <1>2. Fits(<<>>, at, 0) BY <1>1, InputsAssumption, InputsFit
  <1>3. Distinct(<<>>) BY DEF Distinct
  <1>4. Stands(<<>>, at, at) BY <1>2, <1>3, ClosedStands
  <1>5. Scoped(<<>>, <<>>) BY <1>3 DEF Scoped
  <1>6. Numbered(<<>>, 0, 0, 0) BY DEF Numbered
  <1>7. FramesOK(<<>>, <<>>, <<>>, 0) BY DEF FramesOK
  <1>8. Len(<<>>) - 0 = 0 OBVIOUS
  <1> QED BY <1>4, <1>5, <1>6, <1>7, <1>8 DEF Inv

\* The end of a list of expressions is one.
LEMMA ListsAtTheEnd ==
    ASSUME NEW ls \in Seq(Expr), NEW n \in Nat, NEW f, IsList(f, n), ls \o f \in Seq(Expr)
    PROVE  f \in Seq(Expr) /\ Len(f) = n
  <1> DEFINE T == Expr \cup {f[i] : i \in 1 .. n}
  <1>1. \A i \in 1 .. n : f[i] \in T OBVIOUS
  <1>2. Expr \subseteq T OBVIOUS
  <1> HIDE DEF T
  <1>3. f \in Seq(T) /\ Len(f) = n BY <1>1, ListMade
  <1>4. ls \in Seq(T) BY <1>2
  <1>5. Len(ls \o f) = Len(ls) + n /\ \A i \in 1 .. n : (ls \o f)[Len(ls) + i] = f[i] BY <1>3, <1>4
  <1>6. ASSUME NEW i \in 1 .. n PROVE f[i] \in Expr
    <2>1. Len(ls) + i \in 1 .. Len(ls \o f) BY <1>5
    <2> QED BY <1>5, <2>1
  <1> QED BY <1>6, ListMade

\* Locals are as many as there are binders.
LEMMA LocalsForList == ASSUME NEW how, NEW first, NEW types, Len(types) \in Nat
                       PROVE IsList(LocalsFor(how, first, types), Len(types))
  <1> DEFINE L == LocalsUpTo(how, first, types)
             n == Len(types)
  <1>1. LocalsFor(how, first, types) = L[n] /\ L[n] = LocalsList(how, first, types, L, n) BY LocalsForIs
  <1> HIDE DEF L, n
  <1> DEFINE f == LocalsFor(how, first, types)
  <1>2. f = [i \in 1 .. n |-> MkLocal(how, first + i - 1, InstFull(types[i], L[i - 1]))] BY <1>1 DEF LocalsList
  <1> HIDE DEF f
  <1>3. f = [i \in 1 .. n |-> f[i]] BY <1>2
  <1> QED BY <1>3 DEF IsList, f, n

\* A list of types has as many as were asked for.
LEMMA BinderTypesLen == ASSUME NEW e, NEW n \in Nat PROVE Len(BinderTypes(e, n)) = n
  BY DEF BinderTypes

\* A telescope opened is one more.
LEMMA EnteredFrame ==
    ASSUME NEW ls, NEW types, Scoped(ls, types), NEW e, NEW p, Stands(ls, e, p), NEW tag \in {"pi", "lam"}, e[1] = tag,
           NEW how \in {"dbj", "unique"}, NEW n \in Nat, n > 0, n = RunLength(e, 3, tag),
           NEW new \in Seq(Expr), Len(new) = n, NEW m2 \in Nat,
           how = "unique" => Len(ls) + n <= m2, how = "dbj" => m2 <= Len(ls)
    PROVE  FrameOK([tag |-> tag, how |-> how, start |-> Len(ls), caller |-> e, meaning |-> p],
                   Len(ls \o new), ls \o new, types \o BinderTypes(p, n), m2)
  <1> DEFINE f == [tag |-> tag, how |-> how, start |-> Len(ls), caller |-> e, meaning |-> p]
             bs == BinderTypes(p, n)
             l == Len(ls)
  <1>1. Distinct(ls) /\ ls \in Seq(Expr) /\ types \in Seq(Expr) /\ Len(types) = l /\ l \in Nat BY DEF Scoped, Distinct
  <1>2. Fits(ls, e, 0) /\ e \in Expr /\ p \in Expr BY <1>1, MeaningFits DEF Stands, Fits
  <1>3. f \in Frame BY <1>1, <1>2 DEF Frame
  <1>4. Len(ls \o new) = l + n
    <2>1. Len(ls \o new) = Len(ls) + Len(new) BY <1>1
    <2> QED BY <2>1
  <1>5. SubSeq(ls \o new, 1, l) = ls
    <2>1. l \in 0 .. l /\ SubSeq(ls, 1, l) = ls BY <1>1
    <2> QED BY <1>1, <2>1, JoinedPrefix
  <1>6. \A i \in 1 .. n : (types \o bs)[l + i] = bs[i] BY <1>1 DEF BinderTypes
  <1>7. l + n - l = n /\ l + n \in Nat /\ l < l + n /\ l \in Nat BY <1>1
  <1> HIDE DEF bs, l
  <1>8. /\ f.start = l /\ f.caller = e /\ f.meaning = p /\ f.tag = tag /\ f.how = how BY DEF l
  <1>9. l + n <= Len(ls \o new) BY <1>4, <1>7
  <1>10. /\ how = "unique" => l + n <= m2
         /\ how = "dbj" => m2 <= l
    BY DEF l
  <1> HIDE DEF f
  <1>11. FrameOK(f, l + n, ls \o new, types \o bs, m2)
    <2>1. (l + n) - f.start = n /\ f.start < l + n /\ l + n \in Nat BY <1>7, <1>8
    <2>2. \A i \in 1 .. (l + n) - f.start : (types \o bs)[f.start + i] = BinderTypes(f.meaning, (l + n) - f.start)[i]
      BY <1>6, <1>8, <2>1 DEF bs
    <2>3. Stands(SubSeq(ls \o new, 1, f.start), f.caller, f.meaning) /\ f.caller[1] = f.tag BY <1>5, <1>8
    <2>4. RunLength(f.caller, 3, f.tag) = (l + n) - f.start BY <1>8, <2>1
    <2>5. (f.how = "unique" => l + n <= m2) /\ (f.how = "dbj" => m2 <= f.start) BY <1>8, <1>10
    <2> QED BY <1>3, <1>9, <2>1, <2>2, <2>3, <2>4, <2>5 DEF FrameOK
  <1>12. FrameOK(f, Len(ls \o new), ls \o new, types \o bs, m2) BY <1>4, <1>11
  <1> QED BY <1>12 DEF bs, l, f

\* Opening a telescope keeps the invariant.
LEMMA EnterKeeps == ASSUME IInv, NEW how \in {"dbj", "unique"}, Enter(how) PROVE IInv'
  <1> DEFINE n == RunLength(at, 3, at[1])
             first == IF how = "dbj" THEN dbjLevelCounter ELSE uniqueCounter
             new == LocalsFor(how, first, BinderTypes(at, n))
             m == Len(opened) - dbjLevelCounter
             m2 == IF how = "dbj" THEN m ELSE m + n
             bs == BinderTypes(plain, n)
             f == [tag |-> at[1], how |-> how, start |-> Len(opened), caller |-> at, meaning |-> plain]
  <1>1. /\ Scoped(opened, context) /\ Numbered(opened, m, dbjLevelCounter, uniqueCounter)
        /\ Stands(opened, at, plain) /\ FramesOK(frames, opened, context, m)
    BY DEF IInv, Inv
  <1>2. /\ Distinct(opened) /\ opened \in Seq(Expr) /\ context \in Seq(Expr) /\ Len(context) = Len(opened)
        /\ Len(opened) \in Nat /\ dbjLevelCounter \in Nat /\ uniqueCounter \in Nat /\ m \in Nat
    BY InvParts DEF IInv
  <1>3. at[1] \in {"pi", "lam"} /\ (how = "unique" => dbjLevelCounter = 0) BY DEF Enter, IsBinder
  <1>4. frames' = Append(frames, f) /\ opened' = opened \o new /\ at' = InstFull(Down(at, 3)[n], new)
    BY DEF Enter
  <1>5. /\ how = "dbj" => dbjLevelCounter' = first + n /\ uniqueCounter' = uniqueCounter
        /\ how = "unique" => uniqueCounter' = first + n /\ dbjLevelCounter' = dbjLevelCounter
    BY DEF Enter
  <1>6. at' \in Expr /\ opened' \in Seq(Expr) BY DEF Enter, Expr
  <1>7. /\ plain' = Down(plain, 3)[RunLength(plain, 3, plain[1])]
        /\ context' = context \o BinderTypes(plain, RunLength(plain, 3, plain[1]))
    BY DEF Enter
  <1>8. Fresh(opened, how, first) /\ first \in Nat
    <2> HIDE DEF m
    <2> QED BY <1>1, <1>2, NextIsFresh
  <1>9. n \in Nat
    <2>1. IsWay(3, at[1]) BY <1>3 DEF IsWay
    <2>2. at \in Expr BY <1>1 DEF Stands, Fits
    <2> QED BY <2>1, <2>2, RunExists DEF IsRun
  <1> HIDE DEF n, first, m, bs, f
  <1>10. new \in Seq(Expr) /\ Len(new) = n
    <2>1. Len(BinderTypes(at, n)) = n BY <1>9, BinderTypesLen
    <2>2. IsList(new, n) BY <1>9, <2>1, LocalsForList
    <2> HIDE DEF new
    <2> QED BY <1>2, <1>4, <1>6, <1>9, <2>2, ListsAtTheEnd
  <1>11. n = RunLength(at, 3, at[1]) BY DEF n
  <1>12. new = LocalsFor(how, first, BinderTypes(at, n)) OBVIOUS
  <1> HIDE DEF new
  <1>13. /\ n > 0 /\ n = RunLength(plain, 3, at[1]) /\ plain[1] = at[1]
         /\ InOrder(new, how, first)
         /\ Scoped(opened \o new, context \o BinderTypes(plain, n))
         /\ InstFull(Down(at, 3)[n], new) \in Expr => Stands(opened \o new, InstFull(Down(at, 3)[n], new), Down(plain, 3)[n])
    BY <1>1, <1>3, <1>8, <1>10, <1>11, <1>12, TelescopeOpens
  <1>14. plain' = Down(plain, 3)[n] /\ context' = context \o bs BY <1>7, <1>13 DEF bs
  <1>15. Len(opened') = Len(opened) + n BY <1>2, <1>4, <1>10, Joined
  <1>16. /\ m2 \in Nat /\ m2 = Len(opened') - dbjLevelCounter'
         /\ m2 = m \/ (m = Len(opened) /\ Len(opened) <= m2)
         /\ how = "unique" => Len(opened) + n <= m2
         /\ how = "dbj" => m2 <= Len(opened)
    BY <1>2, <1>3, <1>5, <1>9, <1>15 DEF m, first
  <1>17. Numbered(opened', m2, dbjLevelCounter', uniqueCounter')
    <2>1. CASE how = "dbj"
      <3>1. Numbered(opened \o new, m, dbjLevelCounter + Len(new), uniqueCounter)
        BY <1>1, <1>10, <1>13, <2>1, MoreLevels DEF first
      <3> QED BY <1>4, <1>5, <1>10, <2>1, <3>1 DEF first
    <2>2. CASE how = "unique"
      <3>1. Numbered(opened, m, 0, uniqueCounter) BY <1>1, <1>3, <2>2
      <3>2. InOrder(new, "unique", uniqueCounter) BY <1>13, <2>2 DEF first
      <3>3. Numbered(opened \o new, m + Len(new), 0, uniqueCounter + Len(new)) BY <1>10, <3>1, <3>2, MoreUniques
      <3> QED BY <1>3, <1>4, <1>5, <1>10, <2>2, <3>3 DEF first
    <2> QED BY <2>1, <2>2
  <1>18. FrameOK(f, Len(opened'), opened', context', m2)
    <2> HIDE DEF m2
    <2> QED BY <1>1, <1>3, <1>4, <1>9, <1>10, <1>11, <1>13, <1>14, <1>16, EnteredFrame DEF f, bs
  <1>19. FramesOK(frames', opened', context', m2)
    <2> HIDE DEF m2
    <2>1. Len(opened) <= Len(opened') /\ \A i \in 1 .. Len(opened) : opened'[i] = opened[i]
      BY <1>2, <1>4, <1>9, <1>10, <1>15, Joined
    <2>2. \A i \in 1 .. Len(opened) : context'[i] = context[i] BY <1>2, <1>14, <1>9 DEF bs, BinderTypes
    <2>3. f.start = Len(opened) BY DEF f
    <2> QED BY <1>1, <1>2, <1>4, <1>6, <1>16, <1>18, <2>1, <2>2, <2>3, FramesPush
  <1>20. Scoped(opened', context') /\ Stands(opened', at', plain') BY <1>4, <1>6, <1>13, <1>14 DEF bs
  <1> QED BY <1>16, <1>17, <1>19, <1>20 DEF IInv, Inv

-----------------------------------------------------------------------------
(* A telescope is left.                                                    *)

\* The first elements of the first elements.
LEMMA PrefixOfPrefix ==
    ASSUME NEW ls \in Seq(Expr), NEW k \in 0 .. Len(ls), NEW i \in 0 .. k
    PROVE  SubSeq(SubSeq(ls, 1, k), 1, i) = SubSeq(ls, 1, i)
  <1> DEFINE pre == SubSeq(ls, 1, k)
  <1>1. pre \in Seq(Expr) /\ Len(pre) = k /\ \A j \in 1 .. k : pre[j] = ls[j] BY Prefixes
  <1> HIDE DEF pre
  <1>2. i \in 0 .. Len(pre) /\ i \in 0 .. Len(ls) BY <1>1
  <1>3. SubSeq(pre, 1, i) \in Seq(Expr) /\ Len(SubSeq(pre, 1, i)) = i /\ \A j \in 1 .. i : SubSeq(pre, 1, i)[j] = pre[j]
    BY <1>1, <1>2, Prefixes
  <1>4. SubSeq(ls, 1, i) \in Seq(Expr) /\ Len(SubSeq(ls, 1, i)) = i /\ \A j \in 1 .. i : SubSeq(ls, 1, i)[j] = ls[j]
    BY <1>2, Prefixes
  <1>5. \A j \in 1 .. i : pre[j] = ls[j] BY <1>1
  <1>6. SubSeq(pre, 1, i) = SubSeq(ls, 1, i) BY <1>3, <1>4, <1>5, SameLists
  <1> QED BY <1>6 DEF pre

\* The outer ones of the open locals.
LEMMA ScopedPrefix ==
    ASSUME NEW ls, NEW types, Scoped(ls, types), NEW k \in 0 .. Len(ls)
    PROVE  Scoped(SubSeq(ls, 1, k), SubSeq(types, 1, k))
  <1> DEFINE pre == SubSeq(ls, 1, k)
             tps == SubSeq(types, 1, k)
  <1>1. Distinct(ls) /\ ls \in Seq(Expr) /\ types \in Seq(Expr) /\ Len(types) = Len(ls) BY DEF Scoped, Distinct
  <1>2. pre \in Seq(Expr) /\ Len(pre) = k /\ \A i \in 1 .. k : pre[i] = ls[i] BY <1>1, Prefixes
  <1>3. tps \in Seq(Expr) /\ Len(tps) = k /\ \A i \in 1 .. k : tps[i] = types[i] BY <1>1, Prefixes
  <1>4. Distinct(pre) BY <1>1, PrefixDistinct
  <1>5. ASSUME NEW i \in 1 .. k PROVE Stands(SubSeq(pre, 1, i - 1), pre[i][4], tps[i])
    <2>1. i - 1 \in 0 .. k /\ i \in 1 .. Len(ls) BY <1>1
    <2>2. SubSeq(pre, 1, i - 1) = SubSeq(ls, 1, i - 1) BY <1>1, <2>1, PrefixOfPrefix
    <2>3. Stands(SubSeq(ls, 1, i - 1), ls[i][4], types[i]) BY <2>1 DEF Scoped
    <2> HIDE DEF pre, tps
    <2> QED BY <1>2, <1>3, <2>2, <2>3
  <1> HIDE DEF pre, tps
  <1>6. Scoped(pre, tps) BY <1>2, <1>3, <1>4, <1>5 DEF Scoped
  <1> QED BY <1>6 DEF pre, tps

\* How many locals of the type checker are left open.
LevelsLeft(ls, f, levels) == IF f.how = "dbj" THEN f.start - (Len(ls) - levels) ELSE levels

\* Taking the innermost telescope off keeps the invariant, whatever is at hand then, if
\* it stands for what plain is.
LEMMA PopKeeps ==
    ASSUME NEW ls, NEW types, NEW fs, NEW e, NEW p, NEW levels, NEW uniques, Inv(ls, types, fs, e, p, levels, uniques),
           fs # <<>>, NEW f, f = fs[Len(fs)], NEW e2, NEW p2, Stands(SubSeq(ls, 1, f.start), e2, p2)
    PROVE  Inv(SubSeq(ls, 1, f.start), SubSeq(types, 1, f.start), SubSeq(fs, 1, Len(fs) - 1), e2, p2,
               LevelsLeft(ls, f, levels), uniques)
  <1> DEFINE k == f.start
             m == Len(ls) - levels
             pre == SubSeq(ls, 1, k)
             left == LevelsLeft(ls, f, levels)
  <1>1. /\ ls \in Seq(Expr) /\ types \in Seq(Expr) /\ Len(types) = Len(ls)
        /\ Len(ls) \in Nat /\ levels \in Nat /\ uniques \in Nat /\ m \in Nat
    BY InvParts
  <1>2. Scoped(ls, types) /\ Numbered(ls, m, levels, uniques) /\ FramesOK(fs, ls, types, m) BY DEF Inv
  <1>3. FrameOK(f, Len(ls), ls, types, m)
    <2> HIDE DEF m
    <2> QED BY <1>1, <1>2, LastFrame
  <1>4. /\ f.how \in {"dbj", "unique"} /\ k \in Nat /\ k < Len(ls)
        /\ (f.how = "unique" => Len(ls) <= m) /\ (f.how = "dbj" => m <= k)
    BY <1>3 DEF FrameOK, Frame
  <1>5. k \in 0 .. Len(ls) BY <1>1, <1>4
  <1>6. Scoped(pre, SubSeq(types, 1, k)) BY <1>2, <1>5, ScopedPrefix
  <1>7. Len(pre) = k BY <1>1, <1>5, Prefixes
  <1>8. left \in Nat /\ (Len(pre) - left = m \/ (m = Len(ls) /\ Len(pre) - left = k)) /\ Len(pre) - left \in Nat
        /\ (m <= k => left = k - m /\ Len(pre) - left = m) /\ (k < m => left = 0 /\ Len(pre) - left = k)
    <2> HIDE DEF pre
    <2>1. CASE f.how = "dbj"
      <3>1. left = k - m BY <2>1 DEF LevelsLeft
      <3> QED BY <1>1, <1>4, <1>7, <2>1, <3>1
    <2>2. CASE f.how = "unique"
      <3>1. left = levels BY <2>2 DEF LevelsLeft
      <3> QED BY <1>1, <1>4, <1>7, <2>2, <3>1
    <2> QED BY <1>4, <2>1, <2>2
  <1> HIDE DEF left
  <1>9. Numbered(pre, Len(pre) - left, left, uniques)
    <2> HIDE DEF m, k
    <2>1. (m <= k => Numbered(pre, m, k - m, uniques)) /\ (k <= m => Numbered(pre, k, 0, uniques))
      BY <1>2, <1>5, FewerLocals
    <2>2. m <= k \/ k < m BY <1>1, <1>5 DEF m, k
    <2>3. k < m => k <= m BY <1>1, <1>4 DEF m, k
    <2> HIDE DEF pre
    <2> QED BY <1>8, <2>1, <2>2, <2>3
  <1>10. FramesOK(SubSeq(fs, 1, Len(fs) - 1), pre, SubSeq(types, 1, k), Len(pre) - left)
    <2> DEFINE m2 == Len(pre) - left
    <2>1. m2 \in Nat /\ (m2 = m \/ (m = Len(ls) /\ m2 = k)) BY <1>8
    <2>2. k = fs[Len(fs)].start OBVIOUS
    <2> HIDE DEF m2, m, k
    <2> QED BY <1>1, <1>2, <2>1, <2>2, FramesPop DEF m2
  <1> QED BY <1>6, <1>9, <1>10 DEF Inv, left

\* The innermost telescope, its locals and their types.
LEMMA TopIs ==
    ASSUME IInv, frames # <<>>
    PROVE  /\ FrameOK(Top, Len(opened), opened, context, Len(opened) - dbjLevelCounter)
           /\ Top.start \in Nat /\ Top.start < Len(opened) /\ Top.start \in 0 .. Len(opened)
           /\ Cut(opened, Top.start, SubSeq(opened, 1, Top.start), TopLocals) /\ Len(TopLocals) = Len(opened) - Top.start
           /\ Len(TopTypes) = Len(TopLocals) /\ \A i \in 1 .. Len(TopLocals) : TopTypes[i] = context[Top.start + i]
           /\ Top.how = "dbj" => StartPos = LevelsLeft(opened, Top, dbjLevelCounter) /\ StartPos \in Nat
                                 /\ dbjLevelCounter = StartPos + Len(TopLocals)
                                 /\ StartPos = Top.start - (Len(opened) - dbjLevelCounter)
  <1> DEFINE k == Top.start
             m == Len(opened) - dbjLevelCounter
  <1>1. /\ opened \in Seq(Expr) /\ context \in Seq(Expr) /\ Len(context) = Len(opened)
        /\ Len(opened) \in Nat /\ dbjLevelCounter \in Nat /\ m \in Nat
    BY InvParts DEF IInv
  <1>2. FramesOK(frames, opened, context, m) BY DEF IInv, Inv
  <1>3. FrameOK(Top, Len(opened), opened, context, m)
    <2> HIDE DEF m
    <2> QED BY <1>1, <1>2, LastFrame DEF Top
  <1>4. k \in Nat /\ k < Len(opened) /\ (Top.how = "dbj" => m <= k) BY <1>3 DEF FrameOK, Frame
  <1>5. k \in 0 .. Len(opened) BY <1>1, <1>4
  <1>6. Cut(opened, k, SubSeq(opened, 1, k), TopLocals) BY <1>1, <1>5, Split DEF TopLocals
  <1>7. Len(TopLocals) = Len(opened) - k BY <1>6 DEF Cut
  <1>8. Len(TopTypes) = Len(opened) - k /\ \A i \in 1 .. Len(opened) - k : TopTypes[i] = context[k + i]
    <2>1. k \in 0 .. Len(context) BY <1>1, <1>5
    <2>2. Cut(context, k, SubSeq(context, 1, k), TopTypes) BY <1>1, <2>1, Split DEF TopTypes
    <2> QED BY <1>1, <2>2 DEF Cut
  <1>9. Top.how = "dbj" => StartPos = LevelsLeft(opened, Top, dbjLevelCounter) /\ StartPos \in Nat
                           /\ dbjLevelCounter = StartPos + Len(TopLocals) /\ StartPos = k - m
    <2> SUFFICES ASSUME Top.how = "dbj"
                 PROVE  /\ StartPos = LevelsLeft(opened, Top, dbjLevelCounter) /\ StartPos \in Nat
                        /\ dbjLevelCounter = StartPos + Len(TopLocals) /\ StartPos = k - m
      OBVIOUS
    <2>1. StartPos = dbjLevelCounter - (Len(opened) - k) BY <1>7 DEF StartPos
    <2>2. StartPos = LevelsLeft(opened, Top, dbjLevelCounter) BY <1>1, <1>4, <2>1 DEF LevelsLeft
    <2>3. StartPos = k - m BY <1>1, <1>4, <2>1
    <2> HIDE DEF k, m
    <2> QED BY <1>1, <1>4, <1>7, <2>1, <2>2, <2>3
  <1> QED BY <1>3, <1>4, <1>5, <1>6, <1>7, <1>8, <1>9

\* Left without a word.
LEMMA GoBackKeeps == ASSUME IInv, GoBack PROVE IInv'
  <1>1. frames # <<>> /\ Top.how = "dbj" /\ Pop /\ dbjLevelCounter' = StartPos /\ uniqueCounter' = uniqueCounter
        /\ at' = Top.caller /\ plain' = Top.meaning
    BY DEF GoBack
  <1>2. Stands(SubSeq(opened, 1, Top.start), Top.caller, Top.meaning) BY <1>1, TopIs DEF FrameOK
  <1>3. Inv(SubSeq(opened, 1, Top.start), SubSeq(context, 1, Top.start), SubSeq(frames, 1, Len(frames) - 1),
            Top.caller, Top.meaning, LevelsLeft(opened, Top, dbjLevelCounter), uniqueCounter)
    BY <1>1, <1>2, PopKeeps DEF IInv, Top
  <1>4. dbjLevelCounter' = LevelsLeft(opened, Top, dbjLevelCounter) BY <1>1, TopIs
  <1> QED BY <1>1, <1>3, <1>4 DEF IInv, Pop

\* Closed by the numbers of its locals.
LEMMA GeneralizeKeeps == ASSUME IInv, Generalize PROVE IInv'
  <1> DEFINE k == Top.start
             m == Len(opened) - dbjLevelCounter
             pre == SubSeq(opened, 1, k)
             n == Len(TopLocals)
             ctypes == [i \in 1 .. n |-> AbstrLevelsFull(TopLocals[i][4], StartPos, StartPos + i - 1)]
             b == AbstrLevelsFull(at, StartPos, dbjLevelCounter)
  <1>1. /\ frames # <<>> /\ Top.how = "dbj" /\ Pop /\ dbjLevelCounter' = StartPos /\ uniqueCounter' = uniqueCounter
        /\ at' = CloseTypes("pi", ctypes, b) /\ plain' = CloseTypes("pi", TopTypes, plain) /\ at' \in Expr
    BY DEF Generalize, Expr
  <1>2. /\ k \in Nat /\ k < Len(opened) /\ Cut(opened, k, pre, TopLocals) /\ n = Len(opened) - k
        /\ Len(TopTypes) = n /\ \A i \in 1 .. n : TopTypes[i] = context[k + i]
    BY <1>1, TopIs
  <1>3. /\ StartPos = LevelsLeft(opened, Top, dbjLevelCounter) /\ StartPos \in Nat
        /\ dbjLevelCounter = StartPos + n /\ StartPos = k - m
    BY <1>1, TopIs
  <1>4. opened \in Seq(Expr) /\ Len(opened) \in Nat /\ dbjLevelCounter \in Nat /\ m \in Nat BY InvParts DEF IInv
  <1>5. Numbered(opened, m, dbjLevelCounter, uniqueCounter) /\ Scoped(opened, context) /\ Stands(opened, at, plain)
    BY DEF IInv, Inv
  <1>6. m <= k BY <1>2, <1>3, <1>4
  <1>7. LevelsFrom(TopLocals, StartPos)
    <2> SUFFICES ASSUME NEW i \in 1 .. n PROVE TopLocals[i][2] = "dbj" /\ TopLocals[i][3] = StartPos + i - 1 BY DEF LevelsFrom
    <2>1. TopLocals[i] = opened[k + i] BY <1>2 DEF Cut
    <2> HIDE DEF n, k, m
    <2> DEFINE j == k + i
    <2>2. j \in m + 1 .. Len(opened) /\ j \in 1 .. Len(opened) /\ j - m - 1 = StartPos + i - 1 BY <1>2, <1>3, <1>4, <1>6
    <2> HIDE DEF j
    <2>3. opened[j][2] = "dbj" /\ opened[j][3] = j - m - 1 BY <1>5, <2>2, NumberedCases
    <2> QED BY <2>1, <2>2, <2>3 DEF j
  <1>8. LevelsBelow(pre, StartPos)
    <2>1. Len(pre) = k /\ \A i \in 1 .. k : pre[i] = opened[i] BY <1>2 DEF Cut
    <2> HIDE DEF pre
    <2> SUFFICES ASSUME NEW i \in 1 .. k, opened[i][2] = "dbj" PROVE opened[i][3] \in Nat /\ opened[i][3] < StartPos
      BY <2>1 DEF LevelsBelow
    <2> HIDE DEF n, k, m
    <2>2. i \in 1 .. Len(opened) BY <1>2, <1>4
    <2>3. i \in m + 1 .. Len(opened) BY <1>5, <2>2, NumberedCases
    <2>4. opened[i][3] = i - m - 1 BY <1>5, <2>2, <2>3, NumberedCases
    <2> QED BY <1>2, <1>3, <1>4, <2>3, <2>4
  <1>9. ByLevels(ctypes, TopLocals, StartPos)
    <2>1. n \in Nat BY <1>2, <1>4
    <2> QED BY <2>1 DEF ByLevels
  <1>10. Stands(pre, at', plain')
    <2>1. b = AbstrLevelsFull(at, StartPos, StartPos + n) BY <1>3
    <2>3. k \in Nat /\ Cut(opened, k, pre, TopLocals) BY <1>2
    <2>4. Len(TopTypes) = Len(TopLocals) BY <1>2
    <2>5. \A i \in 1 .. Len(TopLocals) : TopTypes[i] = context[k + i] BY <1>2
    <2>6. CloseTypes("pi", ctypes, b) \in Expr BY <1>1
    <2>7. b = AbstrLevelsFull(at, StartPos, StartPos + Len(TopLocals)) BY <2>1
    <2>8. StartPos \in Nat BY <1>3
    <2> HIDE DEF pre, k, ctypes, b
    <2>2. Stands(pre, CloseTypes("pi", ctypes, b), CloseTypes("pi", TopTypes, plain))
      BY <1>5, <1>7, <1>8, <1>9, <2>3, <2>4, <2>5, <2>6, <2>7, <2>8, GeneralizesLocals
    <2> QED BY <1>1, <2>2
  <1>11. Inv(pre, SubSeq(context, 1, k), SubSeq(frames, 1, Len(frames) - 1),
             at', plain', LevelsLeft(opened, Top, dbjLevelCounter), uniqueCounter)
    BY <1>1, <1>10, PopKeeps DEF IInv, Top
  <1> QED BY <1>1, <1>3, <1>11 DEF IInv, Pop

\* Closed by its locals.
LEMMA DischargeKeeps == ASSUME IInv, NEW tag \in {"pi", "lam"}, Discharge(tag) PROVE IInv'
  <1> DEFINE k == Top.start
             n == Len(TopLocals)
             B == AroundLocals(tag, TopLocals, at)
  <1>1. /\ frames # <<>> /\ Top.how = "unique" /\ Pop /\ dbjLevelCounter' = dbjLevelCounter /\ uniqueCounter' = uniqueCounter
        /\ at' = B[n] /\ (\A i \in 0 .. n : B[i] \in Expr) /\ plain' = CloseTypes(tag, TopTypes, plain)
    BY DEF Discharge, Expr
  <1>2. /\ k \in 0 .. Len(opened) /\ Cut(opened, k, SubSeq(opened, 1, k), TopLocals) /\ n = Len(opened) - k
        /\ Len(TopTypes) = n /\ \A i \in 1 .. n : TopTypes[i] = context[k + i]
    BY <1>1, TopIs
  <1>3. \A i \in 1 .. n : TopLocals[i] = opened[k + i] BY <1>2 DEF Cut
  <1>4. Scoped(opened, context) /\ Stands(opened, at, plain) BY DEF IInv, Inv
  <1>5. Stands(SubSeq(opened, 1, k), at', plain')
    <2> HIDE DEF k
    <2> DEFINE c == n
    <2>1. c = Len(opened) - k /\ Len(TopLocals) = c /\ Len(TopTypes) = c BY <1>2
    <2>2. \A i \in 1 .. c : TopLocals[i] = opened[k + i] BY <1>3
    <2>3. \A i \in 1 .. c : TopTypes[i] = context[k + i] BY <1>2
    <2>4. \A i \in 0 .. c : AroundLocals(tag, TopLocals, at)[i] \in Expr BY <1>1
    <2> HIDE DEF c
    <2>5. Stands(SubSeq(opened, 1, k), AroundLocals(tag, TopLocals, at)[c], CloseTypes(tag, TopTypes, plain))
      BY <1>2, <1>4, <2>1, <2>2, <2>3, <2>4, DischargesLocals
    <2> QED BY <1>1, <2>5 DEF c
  <1>6. Inv(SubSeq(opened, 1, k), SubSeq(context, 1, k), SubSeq(frames, 1, Len(frames) - 1),
            at', plain', LevelsLeft(opened, Top, dbjLevelCounter), uniqueCounter)
    BY <1>1, <1>5, PopKeeps DEF IInv, Top
  <1>7. LevelsLeft(opened, Top, dbjLevelCounter) = dbjLevelCounter BY <1>1 DEF LevelsLeft
  <1> QED BY <1>1, <1>6, <1>7 DEF IInv, Pop

\* The locals of one opening, and what mentions them, replaced by those of
\* another.
LEMMA RenameKeeps == ASSUME IInv, Rename PROVE IInv'
  <1> DEFINE k == Top.start
             n == RunLength(Top.caller, 3, Top.tag)
             m == Len(opened) - dbjLevelCounter
             pre == SubSeq(opened, 1, k)
             cpre == SubSeq(context, 1, k)
             new == LocalsFor("unique", uniqueCounter, BinderTypes(Top.caller, n))
             bs == BinderTypes(Top.meaning, n)
             mid == AbstrPlain(at, TopLocals)
  <1>1. /\ frames # <<>> /\ Top.how = "unique" /\ frames' = frames /\ dbjLevelCounter' = dbjLevelCounter
        /\ plain' = plain /\ context' = context /\ uniqueCounter' = uniqueCounter + n
        /\ opened' = pre \o new /\ at' = InstFull(mid, new) /\ at' \in Expr /\ opened' \in Seq(Expr)
    BY DEF Rename, Expr
  <1>2. /\ Distinct(opened) /\ opened \in Seq(Expr) /\ context \in Seq(Expr) /\ Len(context) = Len(opened)
        /\ Len(opened) \in Nat /\ dbjLevelCounter \in Nat /\ uniqueCounter \in Nat /\ m \in Nat
    BY InvParts DEF IInv
  <1>3. /\ Scoped(opened, context) /\ Numbered(opened, m, dbjLevelCounter, uniqueCounter)
        /\ Stands(opened, at, plain) /\ FramesOK(frames, opened, context, m)
    BY DEF IInv, Inv
  <1>4. /\ FrameOK(Top, Len(opened), opened, context, m) /\ k \in Nat /\ k < Len(opened) /\ k \in 0 .. Len(opened)
        /\ Cut(opened, k, pre, TopLocals) /\ Len(TopLocals) = Len(opened) - k
    BY <1>1, TopIs
  <1>5. /\ n = Len(opened) - k /\ m = Len(opened) /\ dbjLevelCounter = 0
        /\ Stands(pre, Top.caller, Top.meaning) /\ Top.tag \in {"pi", "lam"} /\ Top.caller[1] = Top.tag
        /\ \A i \in 1 .. n : context[k + i] = bs[i]
    <2>1. /\ Top \in Frame /\ n = Len(opened) - k /\ Len(opened) <= m
          /\ Stands(pre, Top.caller, Top.meaning) /\ Top.caller[1] = Top.tag
          /\ \A i \in 1 .. Len(opened) - k : context[k + i] = BinderTypes(Top.meaning, Len(opened) - k)[i]
      BY <1>1, <1>4 DEF FrameOK
    <2>2. m = Len(opened) /\ dbjLevelCounter = 0 BY <1>2, <2>1
    <2>3. Top.tag \in {"pi", "lam"} BY <2>1 DEF Frame
    <2>4. \A i \in 1 .. n : context[k + i] = bs[i] BY <2>1
    <2> QED BY <2>1, <2>2, <2>3, <2>4
  <1>6. n = RunLength(Top.caller, 3, Top.tag) /\ n \in Nat BY <1>2, <1>4, <1>5
  <1>7. /\ pre \in Seq(Expr) /\ Len(pre) = k /\ (\A i \in 1 .. k : pre[i] = opened[i])
        /\ pre \o TopLocals = opened /\ TopLocals \in Seq(Expr) /\ Len(TopLocals) = n
    BY <1>4, <1>5 DEF Cut
  <1>8. Scoped(pre, cpre) BY <1>3, <1>4, ScopedPrefix
  <1>9. Numbered(pre, k, 0, uniqueCounter)
    <2>1. k <= m BY <1>4, <1>5
    <2> HIDE DEF m, k
    <2> QED BY <1>3, <1>4, <2>1, FewerLocals
  <1>10. cpre \in Seq(Expr) /\ Len(cpre) = k /\ \A i \in 1 .. k : cpre[i] = context[i] BY <1>2, <1>4, Prefixes
  <1> HIDE DEF k, n, m, pre, cpre, bs, mid
  <1>11. Fresh(pre, "unique", uniqueCounter) BY <1>9, NextIsFresh
  <1>12. new \in Seq(Expr) /\ Len(new) = n
    <2>1. Len(BinderTypes(Top.caller, n)) = n BY <1>6, BinderTypesLen
    <2>2. IsList(new, n) BY <1>6, <2>1, LocalsForList
    <2> HIDE DEF new
    <2> QED BY <1>1, <1>6, <1>7, <2>2, ListsAtTheEnd
  <1>13. new = LocalsFor("unique", uniqueCounter, BinderTypes(Top.caller, n)) OBVIOUS
  <1> HIDE DEF new
  <1>14. /\ InOrder(new, "unique", uniqueCounter)
         /\ Scoped(pre \o new, cpre \o BinderTypes(Top.meaning, n))
    <2> DEFINE how == "unique"
    <2>1. how \in {"dbj", "unique"} /\ Fresh(pre, how, uniqueCounter)
          /\ new = LocalsFor(how, uniqueCounter, BinderTypes(Top.caller, n))
      BY <1>11, <1>13
    <2> HIDE DEF how
    <2>2. /\ InOrder(new, how, uniqueCounter)
          /\ Scoped(pre \o new, cpre \o BinderTypes(Top.meaning, n))
      BY <1>2, <1>5, <1>6, <1>8, <1>12, <2>1, TelescopeOpens
    <2> QED BY <2>2 DEF how
  <1>15. cpre \o bs = context
    <2>1. Len(bs) = n /\ bs = [i \in 1 .. n |-> bs[i]] BY <1>6, BinderTypesLen DEF bs, BinderTypes
    <2>2. k \in Nat /\ Len(context) = k + n /\ k \in 0 .. Len(context) BY <1>2, <1>4, <1>5, <1>6
    <2>3. ASSUME NEW i \in 1 .. n PROVE bs[i] \in Expr
      <3>1. k + i \in 1 .. Len(context) BY <2>2, <1>6
      <3>2. context[k + i] \in Expr BY <1>2, <3>1
      <3> QED BY <1>5, <3>2
    <2>4. bs \in Seq(Expr) BY <1>6, <2>1, <2>3, ListMade DEF IsList
    <2>5. /\ cpre \o bs \in Seq(Expr) /\ Len(cpre \o bs) = k + n
          /\ \A i \in 1 .. k : (cpre \o bs)[i] = cpre[i]
          /\ \A i \in 1 .. n : (cpre \o bs)[k + i] = bs[i]
      <3>1. /\ cpre \o bs \in Seq(Expr) /\ Len(cpre \o bs) = Len(cpre) + Len(bs)
            /\ \A i \in 1 .. Len(cpre) : (cpre \o bs)[i] = cpre[i]
            /\ \A i \in 1 .. Len(bs) : (cpre \o bs)[Len(cpre) + i] = bs[i]
        BY <1>10, <2>4, Joined
      <3> QED BY <1>10, <2>1, <3>1
    <2>6. ASSUME NEW i \in 1 .. k + n PROVE (cpre \o bs)[i] = context[i]
      <3>1. CASE i \in 1 .. k BY <1>10, <2>5, <3>1
      <3>2. CASE \E j \in 1 .. n : i = k + j BY <1>5, <2>5, <3>2
      <3> QED BY <1>6, <2>2, <3>1, <3>2, JoinedCases
    <2> QED BY <1>2, <2>2, <2>5, <2>6, SameLists
  <1>16. Scoped(opened', context') BY <1>1, <1>14, <1>15 DEF bs
  <1>17. Len(opened') = Len(opened) /\ Len(opened') = k + n
    <2>1. Len(pre \o new) = Len(pre) + Len(new) BY <1>7, <1>12, Joined
    <2> QED BY <1>1, <1>2, <1>4, <1>5, <1>6, <1>7, <1>12, <2>1
  <1>18. Numbered(opened', Len(opened') - dbjLevelCounter', dbjLevelCounter', uniqueCounter')
    <2>1. Numbered(pre \o new, k + Len(new), 0, uniqueCounter + Len(new)) BY <1>9, <1>12, <1>14, MoreUniques
    <2>2. k + Len(new) = Len(opened') - 0 BY <1>4, <1>6, <1>12, <1>17
    <2>3. dbjLevelCounter' = 0 /\ uniqueCounter' = uniqueCounter + Len(new) /\ opened' = pre \o new BY <1>1, <1>5, <1>12
    <2> QED BY <2>1, <2>2, <2>3
  <1>19. FramesOK(frames', opened', context', Len(opened') - dbjLevelCounter')
    <2>1. \A i \in 1 .. k : opened'[i] = opened[i] BY <1>1, <1>7, <1>12, Joined
    <2>2. k = frames[Len(frames)].start BY DEF k, Top
    <2>3. FramesOK(frames, opened', context, m) BY <1>1, <1>2, <1>3, <1>17, <2>1, <2>2, FramesReplaced
    <2>4. Len(opened') - dbjLevelCounter' = m BY <1>1, <1>17 DEF m
    <2> QED BY <1>1, <2>3, <2>4
  <1>20. Stands(opened', at', plain')
    <2>1. Fits(pre, mid, n) /\ AbstrAt(mid, pre, n) = plain
      <3>1. Distinct(pre \o TopLocals) /\ Fits(pre \o TopLocals, at, 0) /\ plain = AbstrPlain(at, pre \o TopLocals)
        BY <1>2, <1>3, <1>7 DEF Stands
      <3>2. /\ Fits(pre, AbstrPlain(at, TopLocals), Len(TopLocals))
            /\ AbstrAt(AbstrPlain(at, TopLocals), pre, Len(TopLocals)) = AbstrPlain(at, pre \o TopLocals)
        BY <1>7, <3>1, ClosingUp
      <3> QED BY <1>7, <3>1, <3>2 DEF mid
    <2>2. Distinct(pre \o new) BY <1>14 DEF Scoped
    <2>3. /\ Fits(pre \o new, InstFull(mid, new), 0)
          /\ AbstrPlain(InstFull(mid, new), pre \o new) = AbstrAt(mid, pre, Len(new))
      <3>1. Fits(pre, mid, Len(new)) /\ InstFull(mid, new) \in Expr BY <1>1, <1>12, <2>1
      <3> QED BY <1>7, <1>12, <2>2, <3>1, Opening
    <2> QED BY <1>1, <1>12, <2>1, <2>3 DEF Stands
  <1> QED BY <1>16, <1>18, <1>19, <1>20 DEF IInv, Inv

-----------------------------------------------------------------------------
(* Under the binders that are open.                                        *)

\* A step that leaves the scope alone has only to keep what at stands for.
LEMMA SameScope ==
    ASSUME IInv, UNCHANGED scope, Stands(opened, at', plain')
    PROVE  IInv'
  BY DEF IInv, Inv, scope

\* Going on with a part keeps the invariant.
LEMMA NarrowKeeps == ASSUME IInv, Narrow PROVE IInv'
  <1>1. UNCHANGED scope BY DEF Narrow
  <1>2. PICK i \in Parts(at) : at' = at[i] /\ plain' = plain[i] BY DEF Narrow
  <1>3. i \in Children(at) /\ Below(at, i, 0) = 0 BY <1>2 DEF Parts, Children, Below, IsBinder
  <1>4. Distinct(opened) /\ Stands(opened, at, plain) BY InvParts DEF IInv, Inv
  <1>5. Stands(opened, at[i], plain[i]) BY <1>3, <1>4, PartStands
  <1> QED BY <1>1, <1>2, <1>5, SameScope

\* What is after the first n arguments.
LEMMA RestStands ==
    ASSUME NEW ls, Distinct(ls), NEW m \in Nat, NEW args, IsList(args, m), NEW pargs, IsList(pargs, m),
           \A i \in 1 .. m : Stands(ls, args[i], pargs[i]), NEW n \in 0 .. m
    PROVE  /\ Len(SubSeq(args, n + 1, m)) = m - n /\ Len(SubSeq(pargs, n + 1, m)) = m - n
           /\ \A i \in 1 .. m - n : Stands(ls, SubSeq(args, n + 1, m)[i], SubSeq(pargs, n + 1, m)[i])
  <1>1. ASSUME NEW i \in 1 .. m PROVE args[i] \in Expr /\ pargs[i] \in Expr
    <2>1. Stands(ls, args[i], pargs[i]) OBVIOUS
    <2> QED BY <2>1, MeaningFits DEF Stands, Fits
  <1>2. args \in Seq(Expr) /\ Len(args) = m /\ pargs \in Seq(Expr) /\ Len(pargs) = m BY <1>1, ListMade
  <1>3. Cut(args, n, SubSeq(args, 1, n), SubSeq(args, n + 1, m)) BY <1>2, Split
  <1>4. Cut(pargs, n, SubSeq(pargs, 1, n), SubSeq(pargs, n + 1, m)) BY <1>2, Split
  <1> DEFINE a == SubSeq(args, n + 1, m)
             b == SubSeq(pargs, n + 1, m)
  <1>5. Len(a) = m - n /\ \A i \in 1 .. m - n : a[i] = args[n + i] BY <1>2, <1>3 DEF Cut
  <1>6. Len(b) = m - n /\ \A i \in 1 .. m - n : b[i] = pargs[n + i] BY <1>2, <1>4 DEF Cut
  <1> HIDE DEF a, b
  <1>7. ASSUME NEW i \in 1 .. m - n PROVE Stands(ls, a[i], b[i])
    <2>1. n + i \in 1 .. m OBVIOUS
    <2>2. Stands(ls, args[n + i], pargs[n + i]) BY <2>1
    <2> QED BY <1>5, <1>6, <2>2
  <1> QED BY <1>5, <1>6, <1>7 DEF a, b

\* The arguments of an application are a list.
LEMMA ArgsAreLists == ASSUME NEW e, NEW m \in Nat PROVE IsList(Args(e, m), m)
  BY DEF Args, IsList

\* Reducing a redex keeps the invariant.
LEMMA ContractKeeps == ASSUME IInv, Contract PROVE IInv'
  <1> DEFINE m == RunLength(at, 2, "app")
             fun == Down(at, 2)[m]
             meaning == Down(plain, 2)[m]
             lambdas == RunLength(fun, 3, "lam")
             n == IF m <= lambdas THEN m ELSE lambdas
             args == Args(at, m)
             pargs == Args(plain, m)
             inner == InstFull(Down(fun, 3)[n], SubSeq(args, 1, n))
             reduced == Reduced(meaning, pargs)
  <1>1. /\ UNCHANGED scope /\ n > 0
        /\ at' = Applied(inner, SubSeq(args, n + 1, m)) /\ plain' = Applied(reduced[n], SubSeq(pargs, n + 1, m))
        /\ at' \in Expr /\ \A k \in 0 .. n : reduced[k] \in Expr
    BY DEF Contract, Expr
  <1>2. Distinct(opened) /\ Stands(opened, at, plain) BY InvParts DEF IInv, Inv
  <1>3. m = RunLength(at, 2, "app") OBVIOUS
  <1> HIDE DEF m
  <1>4. /\ m \in Nat /\ Stands(opened, fun, meaning)
        /\ args \in Seq(Expr) /\ Len(args) = m
        /\ \A i \in 1 .. m : Stands(opened, args[i], pargs[i])
    BY <1>2, <1>3, ArgsStand
  <1>5. IsList(args, m) /\ IsList(pargs, m) BY <1>4, ArgsAreLists
  <1> HIDE DEF fun, meaning, args, pargs
  <1>6. lambdas \in Nat
    <2>1. IsWay(3, "lam") BY DEF IsWay
    <2>2. fun \in Expr BY <1>4 DEF Stands, Fits
    <2> QED BY <2>1, <2>2, RunExists DEF IsRun
  <1>7. n \in Nat /\ n <= m /\ n <= RunLength(fun, 3, "lam") /\ n \in 0 .. m BY <1>4, <1>6
  <1> HIDE DEF n, lambdas
  <1>8. inner \in Expr => Stands(opened, inner, reduced[n])
    <2> DEFINE new == SubSeq(args, 1, n)
    <2>1. new \in Seq(Expr) /\ Len(new) = n /\ \A i \in 1 .. n : new[i] = args[i] BY <1>4, <1>7, Prefixes
    <2>2. \A i \in 1 .. n : Stands(opened, new[i], pargs[i]) BY <1>4, <1>7, <2>1
    <2>3. \A k \in 0 .. n : Reduced(meaning, pargs)[k] \in Expr BY <1>1
    <2> HIDE DEF new
    <2>4. InstFull(Down(fun, 3)[n], new) \in Expr => Stands(opened, InstFull(Down(fun, 3)[n], new), Reduced(meaning, pargs)[n])
      BY <1>2, <1>4, <1>7, <2>1, <2>2, <2>3, Contracts
    <2> QED BY <2>4 DEF new
  <1> HIDE DEF inner, reduced
  <1>9. Stands(opened, at', plain')
    <2> DEFINE a == SubSeq(args, n + 1, m)
               b == SubSeq(pargs, n + 1, m)
               rest == m - n
    <2>1. Len(a) = rest /\ Len(b) = rest /\ \A i \in 1 .. rest : Stands(opened, a[i], b[i])
      BY <1>2, <1>4, <1>5, <1>7, RestStands
    <2>2. rest \in Nat BY <1>4, <1>7
    <2>3. Applied(inner, a) \in Expr BY <1>1
    <2> HIDE DEF a, b, rest
    <2>4. Stands(opened, Applied(inner, a), Applied(reduced[n], b)) BY <1>2, <1>8, <2>1, <2>2, <2>3, AppliedStands
    <2> QED BY <1>1, <2>4 DEF a, b
  <1> QED BY <1>1, <1>9, SameScope

\* What is applied replaced by something else that stands.
LEMMA HeadReplaced ==
    ASSUME IInv, UNCHANGED scope, NEW m, m = RunLength(at, 2, "app"), NEW f, NEW q, f \in Expr => Stands(opened, f, q),
           at' = Applied(f, Args(at, m)), plain' = Applied(q, Args(plain, m)), at' \in Expr
    PROVE  IInv'
  <1>1. Distinct(opened) /\ Stands(opened, at, plain) BY InvParts DEF IInv, Inv
  <1>2. /\ m \in Nat /\ Len(Args(at, m)) = m /\ Len(Args(plain, m)) = m
        /\ \A i \in 1 .. m : Stands(opened, Args(at, m)[i], Args(plain, m)[i])
    <2>1. m = RunLength(at, 2, "app") OBVIOUS
    <2> QED BY ONLY <1>1, <2>1, ArgsStand
  <1>3. Applied(f, Args(at, m)) \in Expr OBVIOUS
  <1>4. Stands(opened, Applied(f, Args(at, m)), Applied(q, Args(plain, m))) BY <1>1, <1>2, <1>3, AppliedStands
  <1> QED BY <1>4, SameScope

\* Reducing a let keeps the invariant.
LEMMA ContractLetKeeps == ASSUME IInv, ContractLet PROVE IInv'
  <1> DEFINE m == RunLength(at, 2, "app")
             fun == Down(at, 2)[m]
             meaning == Down(plain, 2)[m]
             f == InstFull(fun[4], <<fun[3]>>)
             q == Subst1Full(meaning[4], meaning[3])
  <1>1. /\ fun[1] = "let" /\ UNCHANGED scope
        /\ at' = Applied(f, Args(at, m)) /\ plain' = Applied(q, Args(plain, m)) /\ at' \in Expr
    BY DEF ContractLet, Expr
  <1>2. Distinct(opened) /\ Stands(opened, at, plain) BY InvParts DEF IInv, Inv
  <1>3. m = RunLength(at, 2, "app") OBVIOUS
  <1> HIDE DEF m
  <1>4. Stands(opened, fun, meaning) BY <1>2, <1>3, ArgsStand
  <1> HIDE DEF fun, meaning
  <1>5. f \in Expr => Stands(opened, f, q) BY <1>1, <1>2, <1>4, LetContracts
  <1> HIDE DEF f, q
  <1> QED BY <1>1, <1>3, <1>5, HeadReplaced

\* Unfolding a constant keeps the invariant.
LEMMA UnfoldConstKeeps == ASSUME IInv, UnfoldConst PROVE IInv'
  <1> DEFINE m == RunLength(at, 2, "app")
             fun == Down(at, 2)[m]
             meaning == Down(plain, 2)[m]
             s == [ks |-> Uparams, vs |-> fun[3]]
             f == PlugLevels(Value, s)
  <1>1. /\ fun[1] = "const" /\ UNCHANGED scope /\ at' = Applied(f, Args(at, m)) /\ at' \in Expr
        /\ plain' = Applied(PlugLevels(Value, [ks |-> Uparams, vs |-> meaning[3]]), Args(plain, m))
    BY DEF UnfoldConst, Expr
  <1>2. Distinct(opened) /\ Stands(opened, at, plain) BY InvParts DEF IInv, Inv
  <1>3. m = RunLength(at, 2, "app") OBVIOUS
  <1> HIDE DEF m
  <1>4. Stands(opened, fun, meaning) BY <1>2, <1>3, ArgsStand
  <1> HIDE DEF fun, meaning
  <1>5. meaning = fun BY <1>1, <1>2, <1>4, ConstStands
  <1>6. plain' = Applied(f, Args(plain, m)) BY <1>1, <1>5
  <1>7. Fits(<<>>, Value, 0) BY InputsAssumption, InputsFit
  <1> HIDE DEF s
  <1>8. f \in Expr => Stands(opened, f, f) BY <1>2, <1>7, PluggedFits, ClosedStands
  <1> HIDE DEF f
  <1> QED BY <1>1, <1>3, <1>6, <1>8, HeadReplaced

-----------------------------------------------------------------------------
(* The theorems.                                                           *)

\* Every step keeps the invariant.
LEMMA NextKeeps == IInv /\ [Next]_vars => IInv'
  <1> SUFFICES ASSUME IInv, [Next]_vars PROVE IInv' OBVIOUS
  <1>1. CASE Enter("dbj") BY <1>1, EnterKeeps
  <1>2. CASE Enter("unique") BY <1>2, EnterKeeps
  <1>3. CASE Generalize BY <1>3, GeneralizeKeeps
  <1>4. CASE GoBack BY <1>4, GoBackKeeps
  <1>5. CASE Discharge("pi") BY <1>5, DischargeKeeps
  <1>6. CASE Discharge("lam") BY <1>6, DischargeKeeps
  <1>7. CASE Rename BY <1>7, RenameKeeps
  <1>8. CASE Narrow BY <1>8, NarrowKeeps
  <1>9. CASE Contract BY <1>9, ContractKeeps
  <1>10. CASE ContractLet BY <1>10, ContractLetKeeps
  <1>11. CASE UnfoldConst BY <1>11, UnfoldConstKeeps
  <1>12. CASE UNCHANGED vars BY <1>12 DEF vars, scope, IInv
  <1> QED BY <1>1, <1>2, <1>3, <1>4, <1>5, <1>6, <1>7, <1>8, <1>9, <1>10, <1>11, <1>12 DEF Next

\* The invariant says that at stands for plain.
LEMMA IInvDenotes == IInv => Denotes
  <1> SUFFICES ASSUME IInv PROVE Denotes OBVIOUS
  <1>1. Scoped(opened, context) /\ Stands(opened, at, plain) BY DEF IInv, Inv
  <1>2. AbstrPlain(at, opened) = plain /\ NoLoose(at) BY <1>1 DEF Stands, Fits, NoLoose
  <1>3. Len(opened) = Len(context) BY <1>1 DEF Scoped
  <1>4. ASSUME NEW i \in 1 .. Len(opened)
        PROVE  AbstrPlain(opened[i][4], SubSeq(opened, 1, i - 1)) = context[i] /\ NoLoose(opened[i][4])
    <2>1. Stands(SubSeq(opened, 1, i - 1), opened[i][4], context[i]) BY <1>1 DEF Scoped
    <2> QED BY <2>1 DEF Stands, Fits, NoLoose
  <1> QED BY <1>2, <1>3, <1>4 DEF Denotes, ContextDenotes

\* The invariant says that what occurs is open.
LEMMA IInvInScope == IInv => InScope
  <1> SUFFICES ASSUME IInv PROVE InScope OBVIOUS
  <1> DEFINE m == Len(opened) - dbjLevelCounter
  <1>1. Scoped(opened, context) /\ Stands(opened, at, plain) /\ Numbered(opened, m, dbjLevelCounter, uniqueCounter)
    BY DEF IInv, Inv
  <1>2. LocalsIn(at) \subseteq {opened[i] : i \in 1 .. Len(opened)} BY <1>1, LocalsInScope DEF Stands, Members
  <1>3. m >= 0 BY <1>1 DEF Numbered
  <1>4. /\ \A i \in m + 1 .. Len(opened) : opened[i] = DbjLevel(i - m - 1, opened[i][4])
        /\ \A i \in 1 .. m : opened[i] = Unique(opened[i][3], opened[i][4])
        /\ \A i, j \in 1 .. m : i < j => opened[i][3] < opened[j][3]
    BY <1>1 DEF Numbered
  <1> HIDE DEF m
  <1> QED BY <1>2, <1>3, <1>4 DEF InScope, m

\* Whatever is opened, reduced, closed or left, the expression at hand stands for
\* what the textbook's term is, and so do the types of the open locals.
THEOREM DenotesHolds == Spec => []Denotes
  <1>1. Spec => []IInv BY InitInv, NextKeeps, PTL DEF Spec
  <1> QED BY <1>1, IInvDenotes, PTL

\* Every local that occurs at hand, be it in the type of another, is one that is
\* open; those of the type checker are numbered in order from 0, and no number of
\* a unique one is given twice.
THEOREM InScopeHolds == Spec => []InScope
  <1>1. Spec => []IInv BY InitInv, NextKeeps, PTL DEF Spec
  <1> QED BY <1>1, IInvInScope, PTL

-----------------------------------------------------------------------------
(* What a node records.                                                    *)

OfLoose(s, x, f) == NumLooseBVarsArm(x, f)
OfFVars(s, x, f) == HasFVarsArm(x, f)

Counting == INSTANCE StructuralRecursion WITH Arm <- OfLoose
Flagging == INSTANCE StructuralRecursion WITH Arm <- OfFVars

NumLoose == NumLooseBVarsTo(ExprDepth)
HasFV == HasFVarsTo(ExprDepth)

\* The children of a node are of the stage before.
LEMMA StageParts ==
    ASSUME NEW n \in Nat, NEW x \in ExprsTo[n + 1] PROVE \A i \in Children(x) : x[i] \in ExprsTo[n]
  BY StageFacts, NodeParts DEF Node

\* NumLooseBVars, node by node.
LEMMA LooseUnfolds == ASSUME NEW e \in Expr PROVE NumLoose[e] = NumLooseBVarsArm(e, NumLoose)
  <1> DEFINE F(f) == [x \in Expr |-> NumLooseBVarsArm(x, f)]
             I == CHOOSE f : f = F(f)
  <1>1. Counting!Local(0, ExprsTo)
    <2> SUFFICES ASSUME NEW n \in Nat, NEW f, NEW g, \A y \in ExprsTo[n] : f[y] = g[y], NEW x \in ExprsTo[n + 1]
                 PROVE  NumLooseBVarsArm(x, f) = NumLooseBVarsArm(x, g)
      BY DEF Counting!Local, OfLoose
    <2>1. \A i \in Children(x) : f[x[i]] = g[x[i]] BY StageParts
    <2> QED BY <2>1 DEF NumLooseBVarsArm, Children, IsBinder
  <1>2. Counting!Solvable(0, Expr)
    <2>1. ExprDepth \in Nat /\ Counting!Grows(ExprsTo) BY ExprDepthAssumption, StageFacts, StagesGrow DEF Counting!Grows
    <2> QED BY <1>1, <2>1, Counting!HasFold DEF Expr
  <1>3. I = F(I) BY <1>2 DEF Counting!Solvable, OfLoose
  <1>4. NumLoose = I BY DEF NumLoose, NumLooseBVarsTo, Expr
  <1> HIDE DEF I
  <1> QED BY <1>3, <1>4

\* HasFVars, node by node.
LEMMA FVarsUnfold == ASSUME NEW e \in Expr PROVE HasFV[e] = HasFVarsArm(e, HasFV)
  <1> DEFINE F(f) == [x \in Expr |-> HasFVarsArm(x, f)]
             I == CHOOSE f : f = F(f)
  <1>1. Flagging!Local(0, ExprsTo)
    <2> SUFFICES ASSUME NEW n \in Nat, NEW f, NEW g, \A y \in ExprsTo[n] : f[y] = g[y], NEW x \in ExprsTo[n + 1]
                 PROVE  HasFVarsArm(x, f) = HasFVarsArm(x, g)
      BY DEF Flagging!Local, OfFVars
    <2>1. \A i \in Children(x) : f[x[i]] = g[x[i]] BY StageParts
    <2> QED BY <2>1 DEF HasFVarsArm
  <1>2. Flagging!Solvable(0, Expr)
    <2>1. ExprDepth \in Nat /\ Flagging!Grows(ExprsTo) BY ExprDepthAssumption, StageFacts, StagesGrow DEF Flagging!Grows
    <2> QED BY <1>1, <2>1, Flagging!HasFold DEF Expr
  <1>3. I = F(I) BY <1>2 DEF Flagging!Solvable, OfFVars
  <1>4. HasFV = I BY DEF HasFV, HasFVarsTo, Expr
  <1> HIDE DEF I
  <1> QED BY <1>3, <1>4

\* NumLooseBVars counts, and one binder further in, a bound on it allows for one more.
LEMMA LooseParts ==
    ASSUME NEW e \in Expr, \A i \in Children(e) : NumLoose[e[i]] \in Nat
    PROVE  /\ NumLoose[e] \in Nat
           /\ e[1] = "var" => NumLoose[e] = e[2] + 1
           /\ \A o \in Nat : NumLoose[e] <= o => \A i \in Children(e) : NumLoose[e[i]] <= Below(e, i, o)
  <1>1. NumLoose[e] = NumLooseBVarsArm(e, NumLoose) BY LooseUnfolds
  <1>2. e[1] = "var" => e[2] \in Nat BY LeafKinds DEF Children
  <1>3. \A m \in Nat : Pred(m) \in Nat /\ \A o \in Nat : Pred(m) <= o => m <= o + 1 BY DEF Pred
  <1>4. \A m, n, k : m \in Nat /\ n \in Nat /\ k = Maximum(m, n) =>
                      k \in Nat /\ \A o \in Nat : k <= o => m <= o /\ n <= o
    BY DEF Maximum
  <1>5. CASE e[1] = "app"
    <2>1. NumLoose[e] = Maximum(NumLoose[e[2]], NumLoose[e[3]]) /\ Children(e) = {2, 3} BY <1>1, <1>5 DEF NumLooseBVarsArm, Children, IsBinder
    <2>2. \A i, o : Below(e, i, o) = o BY <1>5 DEF Below, IsBinder
    <2>3. NumLoose[e[2]] \in Nat /\ NumLoose[e[3]] \in Nat BY <2>1
    <2>4. NumLoose[e] \in Nat /\ \A o \in Nat : NumLoose[e] <= o => NumLoose[e[2]] <= o /\ NumLoose[e[3]] <= o BY <1>4, <2>1, <2>3
    <2> QED BY <1>5, <2>1, <2>2, <2>4
  <1>6. CASE IsBinder(e)
    <2>1. NumLoose[e] = Maximum(NumLoose[e[2]], Pred(NumLoose[e[3]])) /\ Children(e) = {2, 3} /\ e[1] # "var"
      BY <1>1, <1>6 DEF NumLooseBVarsArm, Children, IsBinder
    <2>2. \A o : Below(e, 2, o) = o /\ Below(e, 3, o) = o + 1 BY <1>6 DEF Below, IsBinder
    <2>3. NumLoose[e[2]] \in Nat /\ NumLoose[e[3]] \in Nat /\ Pred(NumLoose[e[3]]) \in Nat BY <1>3, <2>1
    <2>4. NumLoose[e] \in Nat /\ \A o \in Nat : NumLoose[e] <= o => NumLoose[e[2]] <= o /\ Pred(NumLoose[e[3]]) <= o BY <1>4, <2>1, <2>3
    <2>5. \A o \in Nat : NumLoose[e] <= o => NumLoose[e[2]] <= o /\ NumLoose[e[3]] <= o + 1 BY <1>3, <2>3, <2>4
    <2> QED BY <2>1, <2>2, <2>4, <2>5
  <1>7. CASE e[1] = "let"
    <2>1. NumLoose[e] = Maximum(NumLoose[e[2]], Maximum(NumLoose[e[3]], Pred(NumLoose[e[4]]))) /\ Children(e) = {2, 3, 4}
      BY <1>1, <1>7 DEF NumLooseBVarsArm, Children, IsBinder
    <2>2. \A o : Below(e, 2, o) = o /\ Below(e, 3, o) = o /\ Below(e, 4, o) = o + 1 BY <1>7 DEF Below, IsBinder
    <2>3. NumLoose[e[2]] \in Nat /\ NumLoose[e[3]] \in Nat /\ NumLoose[e[4]] \in Nat /\ Pred(NumLoose[e[4]]) \in Nat BY <1>3, <2>1
    <2>4. Maximum(NumLoose[e[3]], Pred(NumLoose[e[4]])) \in Nat BY <1>4, <2>3
    <2>5. NumLoose[e] \in Nat BY <1>4, <2>1, <2>3, <2>4
    <2>6. ASSUME NEW o \in Nat, NumLoose[e] <= o PROVE NumLoose[e[2]] <= o /\ NumLoose[e[3]] <= o /\ NumLoose[e[4]] <= o + 1
      <3>1. NumLoose[e[2]] <= o /\ Maximum(NumLoose[e[3]], Pred(NumLoose[e[4]])) <= o BY <1>4, <2>1, <2>3, <2>4, <2>6
      <3>2. NumLoose[e[3]] <= o /\ Pred(NumLoose[e[4]]) <= o BY <1>4, <2>3, <3>1
      <3> QED BY <1>3, <2>3, <3>1, <3>2
    <2> QED BY <1>7, <2>1, <2>2, <2>5, <2>6
  <1>8. CASE e[1] = "proj"
    <2>1. NumLoose[e] = NumLoose[e[3]] /\ Children(e) = {3} BY <1>1, <1>8 DEF NumLooseBVarsArm, Children, IsBinder
    <2>2. \A i, o : Below(e, i, o) = o BY <1>8 DEF Below, IsBinder
    <2> QED BY <1>8, <2>1, <2>2
  <1>9. CASE e[1] \notin {"app", "let", "proj"} /\ ~IsBinder(e)
    <2>1. Children(e) = {} BY <1>9 DEF Children, IsBinder
    <2>2. NumLoose[e] = IF e[1] = "var" THEN e[2] + 1 ELSE 0 BY <1>1, <1>9 DEF NumLooseBVarsArm
    <2> QED BY <1>2, <2>1, <2>2
  <1> QED BY <1>5, <1>6, <1>7, <1>8, <1>9

\* So that nothing is to be replaced in what is skipped when instantiating.
LEMMA SkippedByInst ==
    ASSUME NEW substs, Len(substs) \in Nat
    PROVE  \A e \in Expr : NumLoose[e] \in Nat /\ \A o \in Nat : NumLoose[e] <= o => Traverse(Filling(substs), e, o) = e
  <1> DEFINE S == {y \in Expr : NumLoose[y] \in Nat /\ \A o \in Nat : NumLoose[y] <= o => Traverse(Filling(substs), y, o) = y}
  <1>1. ASSUME NEW y \in Expr, \A i \in Children(y) : y[i] \in S PROVE y \in S
    <2>1. /\ NumLoose[y] \in Nat /\ (y[1] = "var" => NumLoose[y] = y[2] + 1)
          /\ \A o \in Nat : NumLoose[y] <= o => \A i \in Children(y) : NumLoose[y[i]] <= Below(y, i, o)
      BY <1>1, LooseParts
    <2> SUFFICES ASSUME NEW o \in Nat, NumLoose[y] <= o PROVE Traverse(Filling(substs), y, o) = y BY <2>1
    <2>2. CASE Children(y) = {}
      <3>1. Traverse(Filling(substs), y, o) = Filling(substs)[<<y, o>>] BY <2>2, AtLeaf
      <3>2. y[1] = "var" => y[2] \in Nat /\ y = Var(y[2]) BY <2>2, LeafKinds
      <3>3. y[1] = "var" => ~(y[2] - o \in 0 .. Len(substs) - 1) BY <2>1, <3>2
      <3> QED BY <3>1, <3>2, <3>3, FillingIs
    <2>3. CASE Children(y) # {}
      <3>1. PICK c : Made(Filling(substs), y, o, c) BY <2>3, AtNode
      <3>2. ASSUME NEW i \in Children(y) PROVE c[i] = y[i]
        <4>1. Below(y, i, o) \in Nat BY DEF Below
        <4> QED BY <1>1, <2>1, <3>1, <4>1 DEF Made
      <3> QED BY <3>1, <3>2, EqualNodes, OwnChildren DEF Made
    <2> QED BY <2>2, <2>3
  <1> HIDE DEF S
  <1>2. Expr \subseteq S BY <1>1, ExprInduction
  <1> QED BY <1>2 DEF S

\* Nor anything to abstract in what has no locals.
LEMMA SkippedByAbstr ==
    ASSUME NEW f, \A y \in Expr, o \in Nat : Children(y) = {} /\ ~IsLocal(y) => f[<<y, o>>] = y
    PROVE  \A e \in Expr, o \in Nat : ~HasFV[e] => Traverse(f, e, o) = e
  <1> DEFINE S == {y \in Expr : \A o \in Nat : ~HasFV[y] => Traverse(f, y, o) = y}
  <1>1. ASSUME NEW y \in Expr, \A i \in Children(y) : y[i] \in S PROVE y \in S
    <2> SUFFICES ASSUME NEW o \in Nat, ~HasFV[y] PROVE Traverse(f, y, o) = y OBVIOUS
    <2>1. ~IsLocal(y) /\ \A i \in Children(y) : ~HasFV[y[i]] BY FVarsUnfold DEF HasFVarsArm
    <2>2. CASE Children(y) = {} BY <2>1, <2>2, AtLeaf
    <2>3. CASE Children(y) # {}
      <3>1. PICK c : Made(f, y, o, c) BY <2>3, AtNode
      <3>2. ASSUME NEW i \in Children(y) PROVE c[i] = y[i]
        <4>1. Below(y, i, o) \in Nat BY DEF Below
        <4> QED BY <1>1, <2>1, <3>1, <4>1 DEF Made
      <3> QED BY <3>1, <3>2, EqualNodes, OwnChildren DEF Made
    <2> QED BY <2>2, <2>3
  <1> HIDE DEF S
  <1>2. Expr \subseteq S BY <1>1, ExprInduction
  <1> QED BY <1>2 DEF S

-----------------------------------------------------------------------------
(* What a cached traversal visits.                                         *)

Visiting == INSTANCE StructuralRecursion WITH Arm <- VisitsArm

Spots == Expr \X Nat

\* Where the child at i of the node at x is visited.
ChildAt(x, i) == <<x[1][i], Below(x[1], i, x[2])>>

\* The children of a spot are spots.
LEMMA ChildSpots == ASSUME NEW x \in Spots, NEW i \in Children(x[1]) PROVE ChildAt(x, i) \in Spots
  BY ExprParts DEF Spots, ChildAt, Below, Node

\* Visits, node by node.
LEMMA VisitsUnfold ==
    ASSUME NEW skip, NEW x \in Spots
    PROVE  /\ x \in skip => Visits(skip, x) = <<>>
           /\ x \notin skip =>
                \E a, b, c : /\ Visits(skip, x) = a \o b \o c \o <<x>>
                             /\ a = IF 2 \in Children(x[1]) THEN Visits(skip, ChildAt(x, 2)) ELSE <<>>
                             /\ b = IF 3 \in Children(x[1]) THEN Visits(skip, ChildAt(x, 3)) ELSE <<>>
                             /\ c = IF 4 \in Children(x[1]) THEN Visits(skip, ChildAt(x, 4)) ELSE <<>>
  <1> DEFINE F(f) == [y \in Expr \X Nat |-> VisitsArm(skip, y, f)]
             I == CHOOSE f : f = F(f)
  <1>1. Visiting!Local(skip, Sites)
    <2> SUFFICES ASSUME NEW n \in Nat, NEW f, NEW g, \A y \in Sites[n] : f[y] = g[y], NEW y \in Sites[n + 1]
                 PROVE  VisitsArm(skip, y, f) = VisitsArm(skip, y, g)
      BY DEF Visiting!Local
    <2>1. \A i \in Children(y[1]) : f[<<y[1][i], Below(y[1], i, y[2])>>] = g[<<y[1][i], Below(y[1], i, y[2])>>]
      BY SiteParts
    <2> QED BY <2>1 DEF VisitsArm
  <1>2. Visiting!Solvable(skip, Expr \X Nat)
    <2>1. Visiting!Solvable(skip, Sites[ExprDepth])
      BY <1>1, SitesGrow, ExprDepthAssumption, Visiting!HasFold DEF Visiting!Grows
    <2> QED BY <2>1, SitesGrow
  <1>3. I = F(I) BY <1>2 DEF Visiting!Solvable
  <1>4. \A y : Visits(skip, y) = I[y] BY DEF Visits, Expr, SitesTo
  <1> HIDE DEF I
  <1>5. I[x] = VisitsArm(skip, x, I) BY <1>3 DEF Spots
  <1>6. CASE x \in skip BY <1>4, <1>5, <1>6 DEF VisitsArm
  <1>7. CASE x \notin skip
    <2> DEFINE Of(i) == IF i \in Children(x[1]) THEN I[<<x[1][i], Below(x[1], i, x[2])>>] ELSE <<>>
    <2>1. Visits(skip, x) = Of(2) \o Of(3) \o Of(4) \o <<x>> BY <1>4, <1>5, <1>7 DEF VisitsArm
    <2>2. \A i : Of(i) = IF i \in Children(x[1]) THEN Visits(skip, ChildAt(x, i)) ELSE <<>> BY <1>4 DEF ChildAt
    <2> HIDE DEF Of
    <2> QED BY <1>7, <2>1, <2>2
  <1> QED BY <1>6, <1>7

\* A child is left alone, or is among the first k visited.
Settled(skip, vs, k, y) == y \in skip \/ \E j \in 1 .. k : vs[j] = y

\* The children of what is visited come before it.
PostOrder(skip, vs) ==
    /\ vs \in Seq(Spots)
    /\ \A k \in 1 .. Len(vs) :
          vs[k] \notin skip /\ \A i \in Children(vs[k][1]) : Settled(skip, vs, k - 1, ChildAt(vs[k], i))

\* One list after another is in order, and so is a node after its children.
LEMMA OrderedOneAfterTheOther ==
    ASSUME NEW skip, NEW vs, PostOrder(skip, vs), NEW ws, PostOrder(skip, ws)
    PROVE  /\ PostOrder(skip, vs \o ws)
           /\ \A y : Settled(skip, vs, Len(vs), y) \/ Settled(skip, ws, Len(ws), y) =>
                     Settled(skip, vs \o ws, Len(vs \o ws), y)
  <1>1. vs \in Seq(Spots) /\ ws \in Seq(Spots) BY DEF PostOrder
  <1>2. /\ vs \o ws \in Seq(Spots) /\ Len(vs \o ws) = Len(vs) + Len(ws) /\ Len(vs) \in Nat /\ Len(ws) \in Nat
        /\ \A k \in 1 .. Len(vs) : (vs \o ws)[k] = vs[k]
        /\ \A k \in 1 .. Len(ws) : (vs \o ws)[Len(vs) + k] = ws[k]
    BY <1>1
  <1> DEFINE us == vs \o ws
  <1> HIDE DEF us
  <1>3. /\ us \in Seq(Spots) /\ Len(us) = Len(vs) + Len(ws) /\ Len(vs) \in Nat /\ Len(ws) \in Nat
        /\ \A k \in 1 .. Len(vs) : us[k] = vs[k]
        /\ \A k \in 1 .. Len(ws) : us[Len(vs) + k] = ws[k]
    BY <1>2 DEF us
  <1>4. ASSUME NEW y, NEW m \in Nat, m <= Len(vs), Settled(skip, vs, m, y) PROVE Settled(skip, us, m, y)
    <2>1. ASSUME NEW j \in 1 .. m, vs[j] = y PROVE us[j] = y
      <3>1. j \in 1 .. Len(vs) BY <1>3, <1>4
      <3> QED BY <1>3, <2>1, <3>1
    <2> QED BY <1>4, <2>1 DEF Settled
  <1>5. ASSUME NEW y, NEW m \in Nat, m <= Len(ws), Settled(skip, ws, m, y) PROVE Settled(skip, us, Len(vs) + m, y)
    <2>1. ASSUME NEW j \in 1 .. m, ws[j] = y PROVE Len(vs) + j \in 1 .. Len(vs) + m /\ us[Len(vs) + j] = y
      <3>1. j \in 1 .. Len(ws) BY <1>3, <1>5
      <3>2. Len(vs) + j \in 1 .. Len(vs) + m BY <1>3
      <3> QED BY <1>3, <2>1, <3>1, <3>2
    <2> QED BY <1>5, <2>1 DEF Settled
  <1>6. ASSUME NEW m \in Nat, NEW n \in Nat, m <= n, NEW y, Settled(skip, us, m, y) PROVE Settled(skip, us, n, y)
    <2>1. \A j \in 1 .. m : j \in 1 .. n BY <1>6
    <2> QED BY <1>6, <2>1 DEF Settled
  <1>7. ASSUME NEW k \in 1 .. Len(us)
        PROVE  us[k] \notin skip /\ \A i \in Children(us[k][1]) : Settled(skip, us, k - 1, ChildAt(us[k], i))
    <2>1. CASE k <= Len(vs)
      <3>1. k \in 1 .. Len(vs) /\ k - 1 \in Nat /\ k - 1 <= Len(vs) BY <1>3, <2>1
      <3>2. us[k] = vs[k] BY <1>3, <3>1
      <3>3. vs[k] \notin skip /\ \A i \in Children(vs[k][1]) : Settled(skip, vs, k - 1, ChildAt(vs[k], i))
        BY <3>1 DEF PostOrder
      <3> QED BY <1>4, <3>1, <3>2, <3>3
    <2>2. CASE ~(k <= Len(vs))
      <3>1. PICK l \in 1 .. Len(ws) : k = Len(vs) + l
        <4>1. k - Len(vs) \in 1 .. Len(ws) /\ k = Len(vs) + (k - Len(vs)) BY <1>3, <2>2
        <4> QED BY <4>1
      <3>2. us[k] = ws[l] /\ l - 1 \in Nat /\ l - 1 <= Len(ws) /\ Len(vs) + (l - 1) = k - 1 BY <1>3, <3>1
      <3>3. ws[l] \notin skip /\ \A i \in Children(ws[l][1]) : Settled(skip, ws, l - 1, ChildAt(ws[l], i))
        BY <3>1 DEF PostOrder
      <3> QED BY <1>5, <3>2, <3>3
    <2> QED BY <2>1, <2>2
  <1>8. ASSUME NEW y, Settled(skip, vs, Len(vs), y) \/ Settled(skip, ws, Len(ws), y) PROVE Settled(skip, us, Len(us), y)
    <2>1. Len(vs) <= Len(vs) /\ Len(ws) <= Len(ws) /\ Len(vs) <= Len(us) /\ Len(us) \in Nat BY <1>3
    <2>2. CASE Settled(skip, vs, Len(vs), y) BY <1>3, <1>4, <1>6, <2>1, <2>2
    <2>3. CASE Settled(skip, ws, Len(ws), y) BY <1>3, <1>5, <2>1, <2>3
    <2> QED BY <1>8, <2>2, <2>3
  <1> QED BY <1>3, <1>7, <1>8 DEF us, PostOrder

\* What is visited for a spot: everything below it that is not left alone, and
\* in the end the spot itself.
LEMMA VisitsInOrder ==
    ASSUME NEW skip
    PROVE  \A x \in Spots : PostOrder(skip, Visits(skip, x)) /\ Settled(skip, Visits(skip, x), Len(Visits(skip, x)), x)
  <1> DEFINE Good(x) == PostOrder(skip, Visits(skip, x)) /\ Settled(skip, Visits(skip, x), Len(Visits(skip, x)), x)
             S == {e \in Expr : \A o \in Nat : Good(<<e, o>>)}
  <1>1. ASSUME NEW e \in Expr, \A i \in Children(e) : e[i] \in S PROVE e \in S
    <2> SUFFICES ASSUME NEW o \in Nat PROVE Good(<<e, o>>) OBVIOUS
    <2>1. PICK x \in Spots : x = <<e, o>> BY DEF Spots
    <2>2. PostOrder(skip, <<>>) /\ Len(<<>>) = 0 BY DEF PostOrder
    <2>3. CASE x \in skip
      <3>1. Visits(skip, x) = <<>> BY <2>3, VisitsUnfold
      <3> QED BY <2>1, <2>2, <2>3, <3>1 DEF Settled
    <2>4. CASE x \notin skip
      <3>1. PICK a, b, c : /\ Visits(skip, x) = a \o b \o c \o <<x>>
                           /\ a = IF 2 \in Children(x[1]) THEN Visits(skip, ChildAt(x, 2)) ELSE <<>>
                           /\ b = IF 3 \in Children(x[1]) THEN Visits(skip, ChildAt(x, 3)) ELSE <<>>
                           /\ c = IF 4 \in Children(x[1]) THEN Visits(skip, ChildAt(x, 4)) ELSE <<>>
        BY <2>4, VisitsUnfold
      <3>2. ASSUME NEW i \in Children(x[1]) PROVE Good(ChildAt(x, i))
        <4>1. e[i] \in S /\ Below(e, i, o) \in Nat BY <1>1, <2>1, <3>2 DEF Below
        <4> QED BY <2>1, <4>1 DEF ChildAt
      <3> HIDE DEF S
      <3>3. PostOrder(skip, a) /\ PostOrder(skip, b) /\ PostOrder(skip, c) BY <2>2, <3>1, <3>2
      <3>4. /\ 2 \in Children(x[1]) => Settled(skip, a, Len(a), ChildAt(x, 2))
            /\ 3 \in Children(x[1]) => Settled(skip, b, Len(b), ChildAt(x, 3))
            /\ 4 \in Children(x[1]) => Settled(skip, c, Len(c), ChildAt(x, 4))
        BY <3>1, <3>2
      <3>5. PICK ab : ab = a \o b OBVIOUS
      <3>6. /\ PostOrder(skip, ab)
            /\ \A y : Settled(skip, a, Len(a), y) \/ Settled(skip, b, Len(b), y) => Settled(skip, ab, Len(ab), y)
        BY <3>3, <3>5, OrderedOneAfterTheOther
      <3>7. PICK abc : abc = ab \o c OBVIOUS
      <3>8. /\ PostOrder(skip, abc)
            /\ \A y : Settled(skip, ab, Len(ab), y) \/ Settled(skip, c, Len(c), y) => Settled(skip, abc, Len(abc), y)
        BY <3>3, <3>6, <3>7, OrderedOneAfterTheOther
      <3>9. \A i \in Children(x[1]) : Settled(skip, abc, Len(abc), ChildAt(x, i))
        <4>1. Children(x[1]) \subseteq {2, 3, 4} BY DEF Children
        <4> QED BY <3>4, <3>6, <3>8, <4>1
      <3>10. Visits(skip, x) = abc \o <<x>> BY <3>1, <3>5, <3>7
      <3>11. abc \in Seq(Spots) /\ \A k \in 1 .. Len(abc) : abc[k] \notin skip
        BY <3>8 DEF PostOrder
      <3> DEFINE vs == abc \o <<x>>
      <3>12. /\ vs \in Seq(Spots) /\ Len(vs) = Len(abc) + 1 /\ vs[Len(abc) + 1] = x /\ Len(abc) \in Nat
             /\ \A k \in 1 .. Len(abc) : vs[k] = abc[k]
        BY <3>11
      <3> HIDE DEF vs
      <3>13. ASSUME NEW y, NEW k \in Nat, k <= Len(abc), Settled(skip, abc, k, y) PROVE Settled(skip, vs, k, y)
        <4>1. \A j \in 1 .. k : j \in 1 .. Len(abc) BY <3>12, <3>13
        <4> QED BY <3>12, <3>13, <4>1 DEF Settled
      <3>14. ASSUME NEW k \in 1 .. Len(vs)
             PROVE  vs[k] \notin skip /\ \A i \in Children(vs[k][1]) : Settled(skip, vs, k - 1, ChildAt(vs[k], i))
        <4>1. CASE k <= Len(abc)
          <5>1. k \in 1 .. Len(abc) /\ k - 1 \in Nat /\ k - 1 <= Len(abc) BY <3>12, <4>1
          <5>2. abc[k] \notin skip /\ \A i \in Children(abc[k][1]) : Settled(skip, abc, k - 1, ChildAt(abc[k], i))
            BY <3>8, <5>1 DEF PostOrder
          <5> QED BY <3>12, <3>13, <5>1, <5>2
        <4>2. CASE ~(k <= Len(abc))
          <5>1. k = Len(abc) + 1 /\ k - 1 = Len(abc) /\ Len(abc) <= Len(abc) BY <3>12, <4>2
          <5> QED BY <2>4, <3>9, <3>12, <3>13, <5>1
        <4> QED BY <4>1, <4>2
      <3>15. Settled(skip, vs, Len(vs), x)
        <4>1. Len(vs) \in 1 .. Len(vs) /\ vs[Len(vs)] = x BY <3>12
        <4> QED BY <4>1 DEF Settled
      <3> QED BY <2>1, <3>10, <3>12, <3>14, <3>15 DEF vs, PostOrder
    <2> QED BY <2>3, <2>4
  <1> HIDE DEF S
  <1>2. Expr \subseteq S BY <1>1, ExprInduction
  <1>3. ASSUME NEW x \in Spots PROVE Good(x)
    <2>1. x[1] \in S /\ x[2] \in Nat /\ x = <<x[1], x[2]>> BY <1>2 DEF Spots
    <2> QED BY <2>1 DEF S
  <1> QED BY <1>3

-----------------------------------------------------------------------------
(* What a cached traversal returns.                                        *)

MemoFrom(s) == s[3]
MemoNext(s, n, prev) == Visit(s[1], s[2][n], prev)

Memoizing == INSTANCE Recursion WITH Base <- MemoFrom, Step <- MemoNext

\* The caches on the way.
Memos(C, t, vs, c) == C[0] = c /\ \A k \in Nat : C[k + 1] = Visit(t, vs[k + 1], C[k])

\* One spot after the other is visited.
LEMMA CachedIs ==
    ASSUME NEW t, NEW x, NEW c
    PROVE  \E C : /\ Memos(C, t, Visits(t.skip, x), c)
                  /\ x = <<x[1], x[2]>> => Cached(t, x[1], x[2], c).e = Answer(t, x, C[Len(Visits(t.skip, x))])
  <1> DEFINE vs == Visits(t.skip, x)
             s == <<t, vs, c>>
             G(f) == [k \in Nat |-> IF k = 0 THEN c ELSE Visit(t, vs[k], f[k - 1])]
             C == CHOOSE f : f = G(f)
  <1>1. \E f : f = [k \in Nat |-> IF k = 0 THEN MemoFrom(s) ELSE MemoNext(s, k, f[k - 1])]
    BY Memoizing!HasSolution
  <1>2. \E f : f = G(f)
    <2>1. s[1] = t /\ s[2] = vs /\ s[3] = c OBVIOUS
    <2> HIDE DEF s, vs
    <2> QED BY <1>1, <2>1 DEF MemoFrom, MemoNext
  <1>3. C = G(C)
    <2> HIDE DEF G
    <2> QED BY <1>2
  <1>4. x = <<x[1], x[2]>> => Cached(t, x[1], x[2], c).e = Answer(t, x, C[Len(vs)])
    BY DEF Cached
  <1> HIDE DEF C
  <1>5. C[0] = c BY <1>3
  <1>6. ASSUME NEW k \in Nat PROVE C[k + 1] = Visit(t, vs[k + 1], C[k])
    <2>1. k + 1 \in Nat /\ k + 1 # 0 /\ (k + 1) - 1 = k OBVIOUS
    <2> HIDE DEF vs
    <2>2. G(C)[k + 1] = Visit(t, vs[k + 1], C[(k + 1) - 1]) BY <2>1
    <2> HIDE DEF G
    <2> QED BY <1>3, <2>1, <2>2
  <1> QED BY <1>4, <1>5, <1>6 DEF Memos

\* Every entry is what the traversal full makes of each spot with that key.
Right(t, full, c) ==
    \A y \in Spots : CacheKey(t, y) \in DOMAIN c => c[CacheKey(t, y)] = Traverse(full, y[1], y[2])

\* A traversal with a cache that does with a leaf what the plain one does, leaves
\* alone only what that one leaves as it is, and takes two spots for the same
\* only if that one makes the same of them.
Faithful(t, full) ==
    /\ \A x \in Spots : x \in t.skip => Traverse(full, x[1], x[2]) = x[1]
    /\ \A x \in Spots : x \notin t.skip /\ Children(x[1]) = {} => t.leaf[x] = full[x]
    /\ \A x, y \in Spots : CacheKey(t, x) = CacheKey(t, y) => Traverse(full, x[1], x[2]) = Traverse(full, y[1], y[2])

\* What was settled before is answered rightly.
LEMMA AnswersRight ==
    ASSUME NEW t, NEW full, Faithful(t, full), NEW c, Right(t, full, c), NEW y \in Spots,
           y \in t.skip \/ CacheKey(t, y) \in DOMAIN c
    PROVE  Answer(t, y, c) = Traverse(full, y[1], y[2])
  BY DEF Answer, Faithful, Right

\* One more visit keeps the cache right.
LEMMA VisitKeepsRight ==
    ASSUME NEW t, NEW full, Faithful(t, full), NEW c, Right(t, full, c), NEW x \in Spots, x \notin t.skip,
           \A i \in Children(x[1]) : ChildAt(x, i) \in t.skip \/ CacheKey(t, ChildAt(x, i)) \in DOMAIN c
    PROVE  Right(t, full, Visit(t, x, c)) /\ DOMAIN Visit(t, x, c) = DOMAIN c \cup {CacheKey(t, x)}
  <1>1. CASE CacheKey(t, x) \in DOMAIN c
    <2>1. Visit(t, x, c) = c BY <1>1 DEF Visit
    <2> QED BY <1>1, <2>1
  <1>2. CASE CacheKey(t, x) \notin DOMAIN c
    <2>1. Rebuilt(t, x, c) = Traverse(full, x[1], x[2])
      <3>0. x[1] \in Expr /\ x[2] \in Nat /\ x = <<x[1], x[2]>> BY DEF Spots
      <3>1. CASE Children(x[1]) = {}
        <4>1. Rebuilt(t, x, c) = t.leaf[x] /\ t.leaf[x] = full[x] BY <3>1 DEF Rebuilt, Faithful
        <4>2. Traverse(full, x[1], x[2]) = full[x] BY <3>0, <3>1, AtLeaf
        <4> QED BY <4>1, <4>2
      <3>2. CASE Children(x[1]) # {}
        <4>1. PICK d : Made(full, x[1], x[2], d) BY <3>0, <3>2, AtNode
        <4> DEFINE a == [i \in Children(x[1]) |-> Answer(t, ChildAt(x, i), c)]
        <4>2. Rebuilt(t, x, c) = With(x[1], a) BY <3>2 DEF Rebuilt, With, ChildAt
        <4>3. ASSUME NEW i \in Children(x[1]) PROVE a[i] = d[i]
          <5>1. ChildAt(x, i) \in Spots BY ChildSpots
          <5>2. Answer(t, ChildAt(x, i), c) = Traverse(full, ChildAt(x, i)[1], ChildAt(x, i)[2]) BY <5>1, AnswersRight
          <5>3. ChildAt(x, i)[1] = x[1][i] /\ ChildAt(x, i)[2] = Below(x[1], i, x[2]) BY DEF ChildAt
          <5> QED BY <4>1, <5>2, <5>3 DEF Made
        <4> HIDE DEF a
        <4> QED BY <4>1, <4>2, <4>3, EqualNodes DEF Made
      <3> QED BY <3>1, <3>2
    <2> DEFINE key == CacheKey(t, x)
               d == [k \in DOMAIN c \cup {key} |-> IF k = key THEN Rebuilt(t, x, c) ELSE c[k]]
    <2>2. Visit(t, x, c) = d BY <1>2 DEF Visit, Insert
    <2>3. DOMAIN d = DOMAIN c \cup {key} OBVIOUS
    <2>4. ASSUME NEW y \in Spots, CacheKey(t, y) \in DOMAIN d PROVE d[CacheKey(t, y)] = Traverse(full, y[1], y[2])
      <3>1. CASE CacheKey(t, y) = key
        <4>1. d[CacheKey(t, y)] = Rebuilt(t, x, c) BY <3>1
        <4>2. Traverse(full, x[1], x[2]) = Traverse(full, y[1], y[2]) BY <3>1 DEF Faithful
        <4> QED BY <2>1, <4>1, <4>2
      <3>2. CASE CacheKey(t, y) # key
        <4>1. CacheKey(t, y) \in DOMAIN c /\ d[CacheKey(t, y)] = c[CacheKey(t, y)] BY <2>4, <3>2
        <4> QED BY <4>1 DEF Right
      <3> QED BY <3>1, <3>2
    <2> HIDE DEF d
    <2> QED BY <2>2, <2>3, <2>4 DEF Right
  <1> QED BY <1>1, <1>2

\* From the empty cache, a faithful traversal returns what the plain one returns,
\* whatever it left alone and however often it used an entry.
LEMMA CachedIsPlain ==
    ASSUME NEW t, NEW full, Faithful(t, full), NEW e \in Expr, NEW o \in Nat
    PROVE  Cached(t, e, o, NoEntries).e = Traverse(full, e, o)
  <1>1. PICK x \in Spots : x = <<e, o>> BY DEF Spots
  <1>2. PICK vs : vs = Visits(t.skip, x) OBVIOUS
  <1>3. PostOrder(t.skip, vs) /\ Settled(t.skip, vs, Len(vs), x) BY <1>1, <1>2, VisitsInOrder
  <1>4. PICK C : Memos(C, t, vs, NoEntries) /\ Cached(t, e, o, NoEntries).e = Answer(t, x, C[Len(vs)])
    BY <1>1, <1>2, CachedIs
  <1>5. Len(vs) \in Nat /\ \A k \in 1 .. Len(vs) : vs[k] \in Spots BY <1>3 DEF PostOrder
  <1> DEFINE Good(k) == Right(t, full, C[k]) /\ \A j \in 1 .. k : CacheKey(t, vs[j]) \in DOMAIN C[k]
             S == {k \in Nat : k <= Len(vs) => Good(k)}
  <1>6. 0 \in S
    <2>1. C[0] = NoEntries BY <1>4 DEF Memos
    <2>2. DOMAIN NoEntries = {} BY DEF NoEntries
    <2> QED BY <2>1, <2>2 DEF Right
  <1>7. ASSUME NEW k \in Nat, k \in S PROVE k + 1 \in S
    <2> SUFFICES ASSUME k + 1 <= Len(vs) PROVE Good(k + 1) OBVIOUS
    <2>1. k + 1 \in 1 .. Len(vs) /\ k <= Len(vs) /\ (k + 1) - 1 = k BY <1>5
    <2>2. Good(k) BY <1>7, <2>1
    <2>3. PICK y \in Spots : y = vs[k + 1] BY <1>5, <2>1
    <2>4. y \notin t.skip /\ \A i \in Children(y[1]) : Settled(t.skip, vs, k, ChildAt(y, i))
      BY <1>3, <2>1, <2>3 DEF PostOrder
    <2>5. C[k + 1] = Visit(t, y, C[k]) BY <1>4, <2>3 DEF Memos
    <2>6. \A i \in Children(y[1]) : ChildAt(y, i) \in t.skip \/ CacheKey(t, ChildAt(y, i)) \in DOMAIN C[k]
      BY <2>2, <2>4 DEF Settled
    <2> HIDE DEF S
    <2>7. Right(t, full, C[k + 1]) /\ DOMAIN C[k + 1] = DOMAIN C[k] \cup {CacheKey(t, y)}
      <3>1. PICK c : c = C[k] OBVIOUS
      <3>2. Right(t, full, Visit(t, y, c)) /\ DOMAIN Visit(t, y, c) = DOMAIN c \cup {CacheKey(t, y)}
        <4>1. Right(t, full, c) BY <2>2, <3>1
        <4>2. \A i \in Children(y[1]) : ChildAt(y, i) \in t.skip \/ CacheKey(t, ChildAt(y, i)) \in DOMAIN c
          BY <2>6, <3>1
        <4> QED BY <2>4, <4>1, <4>2, VisitKeepsRight
      <3> QED BY <2>5, <3>1, <3>2
    <2>8. ASSUME NEW j \in 1 .. k + 1 PROVE CacheKey(t, vs[j]) \in DOMAIN C[k + 1]
      <3>1. j \in 1 .. k \/ j = k + 1 OBVIOUS
      <3> QED BY <2>2, <2>3, <2>7, <3>1
    <2> QED BY <2>7, <2>8
  <1>8. Good(Len(vs))
    <2> HIDE DEF Good
    <2>1. Nat \subseteq S
      <3> HIDE DEF S
      <3> QED BY <1>6, <1>7, Memoizing!Induction
    <2>2. Len(vs) \in S /\ Len(vs) <= Len(vs) BY <1>5, <2>1
    <2> QED BY <2>2
  <1>9. x \in t.skip \/ CacheKey(t, x) \in DOMAIN C[Len(vs)] BY <1>3, <1>8 DEF Settled
  <1>10. Answer(t, x, C[Len(vs)]) = Traverse(full, x[1], x[2]) BY <1>1, <1>8, <1>9, AnswersRight
  <1> QED BY <1>1, <1>4, <1>10

-----------------------------------------------------------------------------
(* The code's traversals are the plain ones.                               *)

\* What a leaf records.
LEMMA LeafRecords ==
    ASSUME NEW e \in Expr, Children(e) = {}
    PROVE  NumLoose[e] = (IF e[1] = "var" THEN e[2] + 1 ELSE 0) /\ (HasFV[e] <=> IsLocal(e))
  <1>1. e[1] \notin {"app", "let", "proj"} /\ ~IsBinder(e) BY DEF Children, IsBinder
  <1>2. NumLoose[e] = NumLooseBVarsArm(e, NumLoose) BY LooseUnfolds
  <1>3. NumLoose[e] = IF e[1] = "var" THEN e[2] + 1 ELSE 0 BY <1>1, <1>2 DEF NumLooseBVarsArm
  <1>4. HasFV[e] <=> IsLocal(e) BY FVarsUnfold DEF HasFVarsArm
  <1> QED BY <1>3, <1>4

\* inst replaces what is to be replaced, though it leaves alone what it takes for
\* closed at the depth it is at.
LEMMA InstIsFull ==
    ASSUME NEW substs, Len(substs) \in Nat, NEW e \in Expr, NEW c PROVE Inst(e, substs, c).e = InstFull(e, substs)
  <1> DEFINE f == Filling(substs)
             t == [skip |-> {x \in Spots : NumLoose[x[1]] <= x[2]},
                   leaf |-> [x \in Spots |-> InstVar(x[1], substs, x[2])],
                   by   |-> [n \in Nat |-> n]]
  <1>1. ASSUME NEW x \in Spots, x \in t.skip PROVE Traverse(f, x[1], x[2]) = x[1]
    <2>1. NumLoose[x[1]] <= x[2] /\ x[1] \in Expr /\ x[2] \in Nat BY <1>1 DEF Spots
    <2> QED BY <2>1, SkippedByInst
  <1>2. ASSUME NEW x \in Spots, x \notin t.skip, Children(x[1]) = {} PROVE t.leaf[x] = f[x]
    <2>1. x[1] \in Expr /\ x[2] \in Nat /\ x = <<x[1], x[2]>> BY DEF Spots
    <2>2. ~(NumLoose[x[1]] <= x[2]) /\ t.leaf[x] = InstVar(x[1], substs, x[2]) BY <1>2
    <2>3. PICK v \in Nat : x[1] = Var(v) /\ NumLoose[x[1]] = v + 1
      <3>1. NumLoose[x[1]] = IF x[1][1] = "var" THEN x[1][2] + 1 ELSE 0 BY <1>2, <2>1, LeafRecords
      <3>2. x[1][1] = "var" BY <2>1, <2>2, <3>1
      <3> QED BY <1>2, <2>1, <3>1, <3>2, LeafKinds
    <2>4. PICK k \in Nat : k = v - x[2]
      <3>1. v - x[2] \in Nat BY <2>1, <2>2, <2>3
      <3> QED BY <3>1
    <2>5. Var(v)[2] = v BY Vars
    <2>6. InstVar(x[1], substs, x[2]) = IF k < Len(substs) THEN substs[Len(substs) - k] ELSE Var(v)
      BY <2>3, <2>4, <2>5 DEF InstVar
    <2>7. f[x] = f[<<Var(v), x[2]>>] BY <2>1, <2>3
    <2>8. CASE k < Len(substs)
      <3>1. v - x[2] \in 0 .. Len(substs) - 1 BY <2>4, <2>8
      <3>2. f[<<Var(v), x[2]>>] = substs[Len(substs) - (v - x[2])] BY <2>1, <3>1, FillingIs
      <3> QED BY <2>2, <2>4, <2>6, <2>7, <2>8, <3>2
    <2>9. CASE ~(k < Len(substs))
      <3>1. ~(v - x[2] \in 0 .. Len(substs) - 1) BY <2>4, <2>9
      <3>2. f[<<Var(v), x[2]>>] = Var(v) BY <2>1, <3>1, FillingIs
      <3> QED BY <2>2, <2>6, <2>7, <2>9, <3>2
    <2> QED BY <2>8, <2>9
  <1>3. ASSUME NEW x \in Spots, NEW y \in Spots, CacheKey(t, x) = CacheKey(t, y) PROVE x = y
    <2>1. \A z \in Spots : CacheKey(t, z) = z BY DEF CacheKey, Spots
    <2> QED BY <1>3, <2>1
  <1>4. Faithful(t, f)
    <2> HIDE DEF t, f
    <2> QED BY <1>1, <1>2, <1>3 DEF Faithful
  <1>5. Inst(e, substs, c) = Cached(t, e, 0, NoEntries) BY DEF Inst, Cleared, NumLoose, SitesTo, Spots, Expr
  <1>6. Cached(t, e, 0, NoEntries).e = Traverse(f, e, 0)
    <2> HIDE DEF t, f
    <2> QED BY <1>4, CachedIsPlain
  <1> QED BY <1>5, <1>6 DEF InstFull

\* Both ways of abstracting locals do what the plain one does that treats locals
\* the same and leaves alone other leaves.
LEMMA AbstrByIsFull ==
    ASSUME NEW leaf, NEW f, \A x \in Spots : IsLocal(x[1]) => leaf[x] = f[x],
           \A y \in Expr, o \in Nat : Children(y) = {} /\ ~IsLocal(y) => f[<<y, o>>] = y,
           NEW e \in Expr, NEW o \in Nat, NEW c
    PROVE  AbstrBy(leaf, e, o, c).e = Traverse(f, e, o)
  <1> DEFINE t == [skip |-> {x \in Spots : ~HasFV[x[1]]}, leaf |-> leaf, by |-> [n \in Nat |-> n]]
  <1>1. ASSUME NEW x \in Spots, x \in t.skip PROVE Traverse(f, x[1], x[2]) = x[1]
    <2>1. ~HasFV[x[1]] /\ x[1] \in Expr /\ x[2] \in Nat BY <1>1 DEF Spots
    <2> QED BY <2>1, SkippedByAbstr
  <1>2. ASSUME NEW x \in Spots, x \notin t.skip, Children(x[1]) = {} PROVE t.leaf[x] = f[x]
    <2>1. x[1] \in Expr /\ HasFV[x[1]] BY <1>2 DEF Spots
    <2>2. IsLocal(x[1]) BY <1>2, <2>1, LeafRecords
    <2> QED BY <2>2
  <1>3. ASSUME NEW x \in Spots, NEW y \in Spots, CacheKey(t, x) = CacheKey(t, y) PROVE x = y
    <2>1. \A z \in Spots : CacheKey(t, z) = z BY DEF CacheKey, Spots
    <2> QED BY <1>3, <2>1
  <1>4. Faithful(t, f)
    <2> HIDE DEF t
    <2> QED BY <1>1, <1>2, <1>3 DEF Faithful
  <1>5. AbstrBy(leaf, e, o, c) = Cached(t, e, o, NoEntries) BY DEF AbstrBy, Cleared, HasFV, SitesTo, Spots, Expr
  <1>6. Cached(t, e, o, NoEntries).e = Traverse(f, e, o)
    <2> HIDE DEF t
    <2> QED BY <1>4, CachedIsPlain
  <1> QED BY <1>5, <1>6

\* What is in a list has a last place in it.
LEMMA LastPlace ==
    ASSUME NEW ls, Len(ls) \in Nat, NEW y, NEW i \in 1 .. Len(ls), ls[i] = y
    PROVE  \E k \in 1 .. Len(ls) : IsLast(k, y, ls) /\ \A j : IsLast(j, y, ls) => j = k
  <1> DEFINE T == {n \in Nat : n < Len(ls) /\ ls[Len(ls) - n] = y}
  <1>1. T # {}
    <2>1. Len(ls) - i \in Nat /\ Len(ls) - i < Len(ls) /\ Len(ls) - (Len(ls) - i) = i OBVIOUS
    <2> QED BY <2>1
  <1>2. PICK m \in T : \A n \in T : m <= n
    <2> HIDE DEF T
    <2>1. T \subseteq Nat BY DEF T
    <2> QED BY <1>1, <2>1, Memoizing!Least
  <1>3. PICK k \in 1 .. Len(ls) : k = Len(ls) - m BY <1>2
  <1>4. ls[k] = y BY <1>2, <1>3
  <1>5. ASSUME NEW j \in k + 1 .. Len(ls) PROVE ls[j] # y
    <2>1. Len(ls) - j \in Nat /\ Len(ls) - j < Len(ls) /\ Len(ls) - (Len(ls) - j) = j /\ ~(m <= Len(ls) - j) BY <1>2, <1>3
    <2> QED BY <1>2, <2>1
  <1>6. ASSUME NEW j, IsLast(j, y, ls) PROVE j = k
    <2>1. j \in 1 .. Len(ls) /\ ls[j] = y /\ \A n \in j + 1 .. Len(ls) : ls[n] # y BY <1>6 DEF IsLast
    <2>2. ~(j > k) BY <1>5, <2>1
    <2>3. ~(k > j) BY <1>4, <2>1
    <2> QED BY <2>1, <2>2, <2>3
  <1> QED BY <1>3, <1>4, <1>5, <1>6 DEF IsLast

\* abstr takes the local that many places from the end for the variable.
LEMMA AbstrIsPlain ==
    ASSUME NEW locals, IsList(locals, Len(locals)), Len(locals) \in Nat, NEW e \in Expr, NEW c
    PROVE  Abstr(e, locals, c).e = AbstrPlain(e, locals)
  <1> DEFINE f == Closing(locals)
             leaf == [x \in Spots |-> AbstrLocal(x[1], locals, x[2])]
  <1>0. DOMAIN locals = 1 .. Len(locals) BY DEF IsList
  <1>1. ASSUME NEW x \in Spots, IsLocal(x[1]) PROVE leaf[x] = f[x]
    <2>1. x \in Expr \X Nat /\ leaf[x] = AbstrLocal(x[1], locals, x[2]) BY DEF Spots
    <2>2. f[x] = IF \E i \in 1 .. Len(locals) : IsLast(i, x[1], locals)
                 THEN Var(Len(locals) - (CHOOSE i \in 1 .. Len(locals) : IsLast(i, x[1], locals)) + x[2]) ELSE x[1]
      BY <1>1, <2>1 DEF Closing, Expr
    <2>3. CASE \E i \in DOMAIN locals : locals[i] = x[1]
      <3>1. PICK k \in 1 .. Len(locals) : IsLast(k, x[1], locals) /\ \A j : IsLast(j, x[1], locals) => j = k
        BY <1>0, <2>3, LastPlace
      <3> DEFINE i1 == CHOOSE i \in DOMAIN locals : locals[i] = x[1] /\ \A j \in i + 1 .. Len(locals) : locals[j] # x[1]
                 i2 == CHOOSE i \in 1 .. Len(locals) : IsLast(i, x[1], locals)
      <3>2. i2 = k BY <3>1
      <3>3. i1 = k
        <4>1. i1 \in DOMAIN locals /\ locals[i1] = x[1] /\ \A j \in i1 + 1 .. Len(locals) : locals[j] # x[1]
          BY <1>0, <3>1 DEF IsLast
        <4>2. IsLast(i1, x[1], locals) BY <1>0, <4>1 DEF IsLast
        <4> QED BY <3>1, <4>2
      <3>4. leaf[x] = Var(Len(locals) - i1 + x[2]) BY <2>1, <2>3 DEF AbstrLocal, FromEnd
      <3>5. f[x] = Var(Len(locals) - i2 + x[2]) BY <2>2, <3>1
      <3> HIDE DEF i1, i2
      <3> QED BY <3>2, <3>3, <3>4, <3>5
    <2>4. CASE ~\E i \in DOMAIN locals : locals[i] = x[1]
      <3>1. ~\E i \in 1 .. Len(locals) : IsLast(i, x[1], locals) BY <1>0, <2>4 DEF IsLast
      <3>2. leaf[x] = x[1] BY <2>1, <2>4 DEF AbstrLocal
      <3> QED BY <2>2, <3>1, <3>2
    <2> QED BY <2>3, <2>4
  <1>2. ASSUME NEW y \in Expr, NEW o \in Nat, Children(y) = {}, ~IsLocal(y) PROVE f[<<y, o>>] = y
    <2>1. <<y, o>> \in ExprsTo[ExprDepth] \X Nat BY DEF Expr
    <2> QED BY <1>2, <2>1 DEF Closing
  <1>3. Abstr(e, locals, c) = AbstrBy(leaf, e, 0, c) BY DEF Abstr, SitesTo, Spots, Expr
  <1>4. AbstrBy(leaf, e, 0, c).e = Traverse(f, e, 0)
    <2> HIDE DEF f, leaf
    <2>1. \A x \in Spots : IsLocal(x[1]) => leaf[x] = f[x] BY <1>1
    <2>2. \A y \in Expr, o \in Nat : Children(y) = {} /\ ~IsLocal(y) => f[<<y, o>>] = y BY <1>2
    <2>3. 0 \in Nat OBVIOUS
    <2> QED BY ONLY <2>1, <2>2, <2>3, AbstrByIsFull, e \in Expr
  <1> QED BY <1>3, <1>4 DEF AbstrPlain, AbstrAt

\* abstr_levels goes by the number of the local.
LEMMA AbstrLevelsIsFull ==
    ASSUME NEW e \in Expr, NEW startPos, NEW o \in Nat, NEW c
    PROVE  AbstrLevels(e, startPos, o, c).e = AbstrLevelsFull(e, startPos, o)
  <1> DEFINE f == ClosingLevels(startPos)
             leaf == [x \in Spots |-> AbstrLevel(x[1], startPos, x[2])]
  <1>1. ASSUME NEW x \in Spots, IsLocal(x[1]) PROVE leaf[x] = f[x]
    <2>1. x \in Expr \X Nat BY DEF Spots
    <2> QED BY <1>1, <2>1 DEF ClosingLevels, AbstrLevel, FVarToBVar, Expr
  <1>2. ASSUME NEW y \in Expr, NEW k \in Nat, Children(y) = {}, ~IsLocal(y) PROVE f[<<y, k>>] = y
    <2>1. <<y, k>> \in ExprsTo[ExprDepth] \X Nat BY DEF Expr
    <2> QED BY <1>2, <2>1 DEF ClosingLevels
  <1>3. AbstrLevels(e, startPos, o, c) = AbstrBy(leaf, e, o, c) BY DEF AbstrLevels, SitesTo, Spots, Expr
  <1>4. AbstrBy(leaf, e, o, c).e = Traverse(f, e, o)
    <2> HIDE DEF f, leaf
    <2> QED BY <1>1, <1>2, AbstrByIsFull
  <1> QED BY <1>3, <1>4 DEF AbstrLevelsFull

\* Levels are put for parameters whatever the offset, which is not part of the key.
LEMMA SubstAuxIsFull ==
    ASSUME NEW e \in Expr, NEW s PROVE SubstAux(e, s, NoEntries).e = PlugLevels(e, s)
  <1> DEFINE f == PluggingLevels(s)
             t == [skip |-> {}, leaf |-> [x \in Spots |-> SubstLeaf(x[1], s)], by |-> [n \in Nat |-> s]]
  <1>1. ASSUME NEW x \in Spots PROVE t.leaf[x] = f[x]
    <2>1. x \in Expr \X Nat BY DEF Spots
    <2> QED BY <2>1 DEF PluggingLevels, SubstLeaf, Expr
  <1>2. ASSUME NEW x \in Spots, NEW y \in Spots, CacheKey(t, x) = CacheKey(t, y)
        PROVE  Traverse(f, x[1], x[2]) = Traverse(f, y[1], y[2])
    <2>1. x[1] = y[1] /\ x[1] \in Expr /\ x[2] \in Nat /\ y[2] \in Nat BY <1>2 DEF CacheKey, Spots
    <2>2. \A z \in Expr, m, n \in Nat : f[<<z, m>>] = f[<<z, n>>] BY DEF PluggingLevels, Expr
    <2> HIDE DEF f
    <2>3. Alike(f, f, x[2], y[2], x[1], 0)
      <3>1. ASSUME NEW z \in LeavesAt(x[1], 0) PROVE f[<<z[1], z[2] + x[2]>>] = f[<<z[1], z[2] + y[2]>>]
        <4>1. z[1] \in Expr /\ z[2] \in Nat /\ 0 \in Nat BY <2>1, LeavesAreLeaves
        <4>2. z[2] + x[2] \in Nat /\ z[2] + y[2] \in Nat BY <2>1, <4>1
        <4> QED BY <2>2, <4>1, <4>2
      <3> QED BY <3>1 DEF Alike
    <2>4. Traverse(f, x[1], 0 + x[2]) = Traverse(f, x[1], 0 + y[2]) BY <2>1, <2>3, Congruence
    <2>5. 0 + x[2] = x[2] /\ 0 + y[2] = y[2] BY <2>1
    <2> QED BY <2>1, <2>4, <2>5
  <1>3. Faithful(t, f)
    <2>1. t.skip = {} OBVIOUS
    <2> HIDE DEF t, f
    <2> QED BY <1>1, <1>2, <2>1 DEF Faithful
  <1>4. SubstAux(e, s, NoEntries) = Cached(t, e, 0, NoEntries) BY DEF SubstAux, SitesTo, Spots, Expr
  <1>5. Cached(t, e, 0, NoEntries).e = Traverse(f, e, 0)
    <2> HIDE DEF t, f
    <2> QED BY <1>3, CachedIsPlain
  <1> QED BY <1>4, <1>5 DEF PlugLevels

\* Every entry of dsubst_cache is what putting the levels of its key gives.
EntriesRight(d) == \A v \in Expr : \A s : DSubstKey(v, s) \in DOMAIN d => d[DSubstKey(v, s)] = PlugLevels(v, s)

\* From a cache with right entries comes a right answer, and the cache stays so.
LEMMA SubstIsFull ==
    ASSUME NEW e \in Expr, NEW s, NEW c, NEW d, EntriesRight(d)
    PROVE  SubstExprLevels(e, s, c, d).e = PlugLevels(e, s) /\ EntriesRight(SubstExprLevels(e, s, c, d).dsubst)
  <1> DEFINE key == DSubstKey(e, s)
             r == SubstExprLevels(e, s, c, d)
  <1>1. CASE key \in DOMAIN d
    <2>1. r.e = d[key] /\ r.dsubst = d BY <1>1 DEF SubstExprLevels
    <2> QED BY <1>1, <2>1 DEF EntriesRight
  <1>2. CASE key \notin DOMAIN d
    <2>1. r.e = SubstAux(e, s, NoEntries).e /\ r.dsubst = Insert(d, key, SubstAux(e, s, NoEntries).e)
      BY <1>2 DEF SubstExprLevels, Cleared
    <2>2. r.e = PlugLevels(e, s) /\ r.dsubst = Insert(d, key, PlugLevels(e, s)) BY <2>1, SubstAuxIsFull
    <2>3. ASSUME NEW v \in Expr, NEW q, DSubstKey(v, q) \in DOMAIN Insert(d, key, PlugLevels(e, s))
          PROVE  Insert(d, key, PlugLevels(e, s))[DSubstKey(v, q)] = PlugLevels(v, q)
      <3>1. CASE DSubstKey(v, q) = key
        <4>1. v = e /\ q = s BY <3>1 DEF DSubstKey
        <4> QED BY <2>3, <3>1, <4>1 DEF Insert
      <3>2. CASE DSubstKey(v, q) # key
        <4>1. DSubstKey(v, q) \in DOMAIN d BY <2>3, <3>2 DEF Insert
        <4>2. Insert(d, key, PlugLevels(e, s))[DSubstKey(v, q)] = d[DSubstKey(v, q)] BY <3>2, <4>1 DEF Insert
        <4> QED BY <4>1, <4>2 DEF EntriesRight
      <3> QED BY <3>1, <3>2
    <2>4. EntriesRight(Insert(d, key, PlugLevels(e, s))) BY <2>3 DEF EntriesRight
    <2> QED BY <2>2, <2>4
  <1> QED BY <1>1, <1>2

-----------------------------------------------------------------------------
(* Telescopes opened and closed by the code.                               *)

\* What a run of binders or applications goes through are expressions.
LEMMA RunInside ==
    ASSUME NEW i, NEW tag, IsWay(i, tag), NEW e \in Expr, NEW n, n = RunLength(e, i, tag)
    PROVE  /\ n \in Nat /\ \A k \in 0 .. n : Down(e, i)[k] \in Expr
           /\ \A k \in 0 .. n - 1 : Down(e, i)[k][1] = tag /\ i \in Children(Down(e, i)[k])
  <1> DEFINE D == Down(e, i)
             S == {k \in Nat : k <= n => D[k] \in Expr}
  <1>1. IsRun(e, i, tag, n) BY RunExists
  <1>2. n \in Nat /\ \A k \in 0 .. n - 1 : D[k][1] = tag BY <1>1, ExprDepthAssumption DEF IsRun
  <1>3. \A k \in 0 .. n - 1 : i \in Children(D[k]) BY <1>2, WaysAreNodes
  <1>4. D[0] = e /\ \A k \in Nat : D[k + 1] = D[k][i] BY DownIs
  <1> HIDE DEF D
  <1>5. 0 \in S BY <1>4
  <1>6. ASSUME NEW k \in Nat, k \in S PROVE k + 1 \in S
    <2> SUFFICES ASSUME k + 1 <= n PROVE D[k + 1] \in Expr OBVIOUS
    <2>1. k \in 0 .. n - 1 /\ D[k] \in Expr BY <1>2, <1>6
    <2>2. i \in Children(D[k]) BY <1>3, <2>1
    <2>3. D[k][i] \in Expr BY <2>1, <2>2, ExprParts DEF Node
    <2> QED BY <1>4, <2>3
  <1>7. Nat \subseteq S
    <2> HIDE DEF S
    <2> QED BY <1>5, <1>6, Descending!Induction
  <1>8. \A k \in 0 .. n : D[k] \in Expr BY <1>2, <1>7
  <1> QED BY <1>2, <1>3, <1>8 DEF D

\* The binders of a telescope have expressions for types.
LEMMA TelescopeInside ==
    ASSUME NEW tag \in {"pi", "lam"}, NEW e \in Expr, NEW n \in Nat, n <= RunLength(e, 3, tag)
    PROVE  Down(e, 3)[n] \in Expr /\ \A k \in 0 .. n - 1 : Down(e, 3)[k][2] \in Expr
  <1> DEFINE r == RunLength(e, 3, tag)
  <1>1. IsWay(3, tag) BY DEF IsWay
  <1>2. /\ r \in Nat /\ \A k \in 0 .. r : Down(e, 3)[k] \in Expr
        /\ \A k \in 0 .. r - 1 : Down(e, 3)[k][1] = tag
    BY <1>1, RunInside
  <1> HIDE DEF r
  <1>3. n \in 0 .. r BY <1>2 DEF r
  <1>4. ASSUME NEW k \in 0 .. n - 1 PROVE Down(e, 3)[k][2] \in Expr
    <2>1. k \in 0 .. r /\ k \in 0 .. r - 1 BY <1>2, <1>3
    <2>2. PICK y \in Expr : y = Down(e, 3)[k] /\ y[1] = tag BY <1>2, <2>1
    <2>3. 2 \in Children(y) BY <2>2 DEF Children
    <2>4. y[2] \in Expr BY <2>3, ExprParts DEF Node
    <2> QED BY <2>2, <2>4
  <1> QED BY <1>2, <1>3, <1>4

NothingOpened(s) == [locals |-> <<>>, c |-> s[4]]
OneOpened(s, n, prev) ==
    LET t == Inst(Down(s[3], 3)[n - 1][2], prev.locals, prev.c)
    IN [locals |-> Append(prev.locals, MkLocal(s[1], s[2] + n - 1, t.e)), c |-> t.c]

Unrolling == INSTANCE Recursion WITH Base <- NothingOpened, Step <- OneOpened

OpensOneByOne(T, how, first, e) ==
    /\ T[0].locals = <<>>
    /\ \A k \in Nat : T[k + 1].locals = Append(T[k].locals,
          MkLocal(how, first + (k + 1) - 1, Inst(Down(e, 3)[k][2], T[k].locals, T[k].c).e))

\* A telescope is opened one binder at a time.
LEMMA TelescopeIs ==
    ASSUME NEW how, NEW first, NEW e, NEW c
    PROVE  OpensOneByOne(Telescope(how, first, e, c), how, first, e)
  <1> DEFINE s == <<how, first, e, c>>
             Next2(k, prev) == LET t == Inst(Down(e, 3)[k - 1][2], prev.locals, prev.c)
                               IN [locals |-> Append(prev.locals, MkLocal(how, first + k - 1, t.e)), c |-> t.c]
             G(f) == [k \in Nat |-> IF k = 0 THEN [locals |-> <<>>, c |-> c] ELSE Next2(k, f[k - 1])]
             T == Telescope(how, first, e, c)
  <1>1. \E f : f = [k \in Nat |-> IF k = 0 THEN NothingOpened(s) ELSE OneOpened(s, k, f[k - 1])] BY Unrolling!HasSolution
  <1>2. \E f : f = G(f)
    <2>1. s[1] = how /\ s[2] = first /\ s[3] = e /\ s[4] = c OBVIOUS
    <2> HIDE DEF s
    <2>2. NothingOpened(s) = [locals |-> <<>>, c |-> c] BY <2>1 DEF NothingOpened
    <2>3. \A k, prev : OneOpened(s, k, prev) = Next2(k, prev) BY <2>1 DEF OneOpened
    <2> HIDE DEF Next2
    <2> QED BY <1>1, <2>2, <2>3
  <1>3. T = CHOOSE f : f = G(f) BY DEF Telescope
  <1>4. T = G(T)
    <2> HIDE DEF G, T
    <2> QED BY <1>2, <1>3
  <1> HIDE DEF T
  <1>5. T[0].locals = <<>>
    <2>1. G(T)[0] = [locals |-> <<>>, c |-> c] OBVIOUS
    <2> HIDE DEF G
    <2> QED BY <1>4, <2>1
  <1>6. ASSUME NEW k \in Nat
        PROVE  T[k + 1].locals = Append(T[k].locals,
                  MkLocal(how, first + (k + 1) - 1, Inst(Down(e, 3)[k][2], T[k].locals, T[k].c).e))
    <2>1. k + 1 \in Nat /\ k + 1 # 0 /\ (k + 1) - 1 = k OBVIOUS
    <2>2. G(T)[k + 1] = Next2(k + 1, T[(k + 1) - 1]) BY <2>1
    <2>3. Next2(k + 1, T[k]).locals = Append(T[k].locals,
             MkLocal(how, first + (k + 1) - 1, Inst(Down(e, 3)[(k + 1) - 1][2], T[k].locals, T[k].c).e))
      OBVIOUS
    <2> HIDE DEF G, Next2
    <2> QED BY <1>4, <2>1, <2>2, <2>3
  <1> QED BY <1>5, <1>6 DEF T, OpensOneByOne

\* The locals the code opens are those for the types of the binders.
LEMMA TelescopeIsPlain ==
    ASSUME NEW how, NEW first, NEW e, NEW c, NEW n \in Nat, \A k \in 0 .. n - 1 : Down(e, 3)[k][2] \in Expr
    PROVE  Telescope(how, first, e, c)[n].locals = LocalsFor(how, first, BinderTypes(e, n))
  <1> DEFINE types == BinderTypes(e, n)
             T == Telescope(how, first, e, c)
             L == LocalsUpTo(how, first, types)
             M == [i \in Nat |-> MkLocal(how, first + i - 1, InstFull(types[i], L[i - 1]))]
             S == {k \in Nat : k <= n => T[k].locals = L[k]}
  <1>1. /\ LocalsFor(how, first, types) = L[Len(types)]
        /\ \A k \in Nat : Len(L[k]) = k /\ L[k] = LocalsList(how, first, types, L, k)
    BY LocalsForIs
  <1>2. Len(types) = n BY BinderTypesLen
  <1>3. /\ T[0].locals = <<>>
        /\ \A k \in Nat : T[k + 1].locals = Append(T[k].locals,
              MkLocal(how, first + (k + 1) - 1, Inst(Down(e, 3)[k][2], T[k].locals, T[k].c).e))
    <2>1. OpensOneByOne(T, how, first, e) BY TelescopeIs
    <2> HIDE DEF T
    <2> QED BY <2>1 DEF OpensOneByOne
  <1>4. ASSUME NEW k \in 0 .. n - 1 PROVE types[k + 1] = Down(e, 3)[k][2] BY <1>2 DEF BinderTypes
  <1> HIDE DEF T, L, types
  <1>5. \A k \in Nat : L[k] = [i \in 1 .. k |-> M[i]]
    <2> SUFFICES ASSUME NEW k \in Nat PROVE L[k] = [i \in 1 .. k |-> M[i]] OBVIOUS
    <2>1. LocalsList(how, first, types, L, k) = [i \in 1 .. k |-> M[i]] BY DEF LocalsList
    <2> QED BY <1>1, <2>1
  <1>6. ASSUME NEW k \in Nat PROVE L[k + 1] = Append(L[k], MkLocal(how, first + (k + 1) - 1, InstFull(types[k + 1], L[k])))
    <2>1. M[k + 1] = MkLocal(how, first + (k + 1) - 1, InstFull(types[k + 1], L[k]))
      <3>1. k + 1 \in Nat /\ (k + 1) - 1 = k OBVIOUS
      <3>2. M[k + 1] = MkLocal(how, first + (k + 1) - 1, InstFull(types[k + 1], L[(k + 1) - 1])) BY <3>1
      <3> QED BY <3>1, <3>2
    <2> HIDE DEF M
    <2>2. Append([i \in 1 .. k |-> M[i]], M[k + 1]) = [i \in 1 .. k + 1 |-> M[i]] BY OneMore
    <2>3. L[k + 1] = [i \in 1 .. k + 1 |-> M[i]] /\ L[k] = [i \in 1 .. k |-> M[i]] BY <1>5
    <2> QED BY <2>1, <2>2, <2>3
  <1>7. 0 \in S
    <2>1. L[0] = [i \in 1 .. 0 |-> M[i]] BY <1>5
    <2> HIDE DEF M
    <2>2. [i \in 1 .. 0 |-> M[i]] = <<>> OBVIOUS
    <2> QED BY <1>3, <2>1, <2>2
  <1>8. ASSUME NEW k \in Nat, k \in S PROVE k + 1 \in S
    <2> SUFFICES ASSUME k + 1 <= n PROVE T[k + 1].locals = L[k + 1] OBVIOUS
    <2>1. k \in 0 .. n - 1 /\ T[k].locals = L[k] BY <1>8
    <2>2. PICK c0, l, t : c0 = T[k].c /\ l = L[k] /\ t = Down(e, 3)[k][2] OBVIOUS
    <2>3. t \in Expr /\ types[k + 1] = t BY <1>4, <2>1, <2>2
    <2>4. Len(l) \in Nat BY <1>1, <2>2
    <2>5. Inst(t, l, c0).e = InstFull(t, l) BY <2>3, <2>4, InstIsFull
    <2>6. T[k + 1].locals = Append(l, MkLocal(how, first + (k + 1) - 1, Inst(t, l, c0).e)) BY <1>3, <2>1, <2>2
    <2>7. L[k + 1] = Append(l, MkLocal(how, first + (k + 1) - 1, InstFull(t, l))) BY <1>6, <2>2, <2>3
    <2> QED BY <2>5, <2>6, <2>7
  <1>9. Nat \subseteq S
    <2> HIDE DEF S
    <2> QED BY <1>7, <1>8, Unrolling!Induction
  <1>10. T[n].locals = L[n] BY <1>9
  <1> QED BY <1>1, <1>2, <1>10 DEF T, types

AllLeft(s) == s[3]
OneClosedByLevel(s, n, prev) ==
    LET i == Len(s[1]) - n + 1
        t == AbstrLevels(s[1][i][4], s[2], s[2] + i - 1, prev.c)
    IN [e |-> Bind("pi", t.e, prev.e), c |-> t.c]

ClosingLevelwise == INSTANCE Recursion WITH Base <- AllLeft, Step <- OneClosedByLevel

\* The binders around the body for the last k locals.
ClosedLevels(locals, startPos, body) ==
    LET B[k \in Nat] ==
            IF k = 0 THEN body
            ELSE LET i == Len(locals) - k + 1
                     below == B[k - 1]
                     t == AbstrLevels(locals[i][4], startPos, startPos + i - 1, below.c)
                 IN [e |-> Bind("pi", t.e, below.e), c |-> t.c]
    IN B

ClosesOneByOne(B, locals, startPos, body, n) ==
    /\ B[0] = body
    /\ \A k \in Nat : B[k + 1].e =
          Bind("pi", AbstrLevels(locals[n - k][4], startPos, startPos + (n - k) - 1, B[k].c).e, B[k].e)

\* The locals are closed one at a time, the last first.
LEMMA ClosedLevelsIs ==
    ASSUME NEW locals, NEW startPos, NEW body, NEW n \in Nat, Len(locals) = n
    PROVE  /\ CloseByLevels(locals, startPos, body) = ClosedLevels(locals, startPos, body)[n]
           /\ ClosesOneByOne(ClosedLevels(locals, startPos, body), locals, startPos, body, n)
  <1> DEFINE s == <<locals, startPos, body>>
             Next2(k, prev) == LET i == Len(locals) - k + 1
                                   t == AbstrLevels(locals[i][4], startPos, startPos + i - 1, prev.c)
                               IN [e |-> Bind("pi", t.e, prev.e), c |-> t.c]
             G(f) == [k \in Nat |-> IF k = 0 THEN body ELSE Next2(k, f[k - 1])]
             B == ClosedLevels(locals, startPos, body)
  <1>1. \E f : f = [k \in Nat |-> IF k = 0 THEN AllLeft(s) ELSE OneClosedByLevel(s, k, f[k - 1])]
    BY ClosingLevelwise!HasSolution
  <1>2. \E f : f = G(f)
    <2>1. AllLeft(s) = body BY DEF AllLeft
    <2>2. ASSUME NEW k \in Nat, NEW prev PROVE OneClosedByLevel(s, k, prev) = Next2(k, prev)
      BY DEF OneClosedByLevel
    <2> HIDE DEF s, Next2
    <2> QED BY <1>1, <2>1, <2>2
  <1>3. B = CHOOSE f : f = G(f) BY DEF ClosedLevels
  <1>4. B = G(B)
    <2> HIDE DEF G, B
    <2> QED BY <1>2, <1>3
  <1>5. CloseByLevels(locals, startPos, body) = B[n] BY DEF CloseByLevels, ClosedLevels
  <1> HIDE DEF B
  <1>6. B[0] = body
    <2>1. G(B)[0] = body OBVIOUS
    <2> HIDE DEF G
    <2> QED BY <1>4, <2>1
  <1>7. ASSUME NEW k \in Nat
        PROVE  B[k + 1].e = Bind("pi", AbstrLevels(locals[n - k][4], startPos, startPos + (n - k) - 1, B[k].c).e, B[k].e)
    <2>1. k + 1 \in Nat /\ k + 1 # 0 /\ (k + 1) - 1 = k /\ Len(locals) - (k + 1) + 1 = n - k OBVIOUS
    <2>2. G(B)[k + 1] = Next2(k + 1, B[(k + 1) - 1]) BY <2>1
    <2>3. PICK i : i = Len(locals) - (k + 1) + 1 /\ i = n - k BY <2>1
    <2>4. Next2(k + 1, B[k]).e = Bind("pi", AbstrLevels(locals[i][4], startPos, startPos + i - 1, B[k].c).e, B[k].e)
      BY <2>3
    <2> HIDE DEF G, Next2
    <2> QED BY <1>4, <2>1, <2>2, <2>3, <2>4
  <1> QED BY <1>5, <1>6, <1>7 DEF B, ClosesOneByOne

\* Closing by number puts around the body the binders of the types closed.
LEMMA CloseByLevelsIsPlain ==
    ASSUME NEW locals, NEW n \in Nat, Len(locals) = n, NEW startPos \in Nat, NEW body,
           \A i \in 1 .. n : locals[i][4] \in Expr,
           NEW types, types = [i \in 1 .. n |-> AbstrLevelsFull(locals[i][4], startPos, startPos + i - 1)]
    PROVE  CloseByLevels(locals, startPos, body).e = CloseTypes("pi", types, body.e)
  <1> DEFINE B == ClosedLevels(locals, startPos, body)
             A == Around("pi", types, body.e)
             S == {k \in Nat : k <= n => B[k].e = A[k]}
  <1>1. Len(types) = n OBVIOUS
  <1>2. \A i \in 1 .. n : types[i] = AbstrLevelsFull(locals[i][4], startPos, startPos + i - 1) OBVIOUS
  <1>3. A[0] = body.e /\ \A k \in Nat : A[k + 1] = Bind("pi", types[n - k], A[k])
    <2> DEFINE tag == "pi"
    <2> HIDE DEF tag
    <2>1. Surrounds(Around(tag, types, body.e), tag, types, n, body.e) BY <1>1, AroundIs
    <2> QED BY <2>1 DEF Surrounds, tag
  <1>4. /\ CloseByLevels(locals, startPos, body) = B[n] /\ B[0] = body
        /\ \A k \in Nat : B[k + 1].e =
              Bind("pi", AbstrLevels(locals[n - k][4], startPos, startPos + (n - k) - 1, B[k].c).e, B[k].e)
    <2>1. CloseByLevels(locals, startPos, body) = B[n] /\ ClosesOneByOne(B, locals, startPos, body, n) BY ClosedLevelsIs
    <2> QED BY <2>1 DEF ClosesOneByOne
  <1>5. CloseTypes("pi", types, body.e) = A[n] BY <1>1 DEF CloseTypes
  <1> HIDE DEF A, B
  <1>6. 0 \in S BY <1>3, <1>4
  <1>7. ASSUME NEW k \in Nat, k \in S PROVE k + 1 \in S
    <2> SUFFICES ASSUME k + 1 <= n PROVE B[k + 1].e = A[k + 1] OBVIOUS
    <2>1. B[k].e = A[k] BY <1>7
    <2>2. PICK i \in 1 .. n : i = n - k OBVIOUS
    <2>3. PICK c0, t : c0 = B[k].c /\ t = locals[i][4] OBVIOUS
    <2>4. PICK o \in Nat : o = startPos + i - 1 OBVIOUS
    <2>5. t \in Expr BY <2>3
    <2>6. AbstrLevels(t, startPos, o, c0).e = AbstrLevelsFull(t, startPos, o) BY <2>5, AbstrLevelsIsFull
    <2>7. B[k + 1].e = Bind("pi", AbstrLevels(t, startPos, o, c0).e, B[k].e) BY <1>4, <2>2, <2>3, <2>4
    <2>8. A[k + 1] = Bind("pi", AbstrLevelsFull(t, startPos, o), A[k]) BY <1>2, <1>3, <2>2, <2>3, <2>4
    <2> QED BY <2>1, <2>6, <2>7, <2>8
  <1>8. Nat \subseteq S
    <2> HIDE DEF S
    <2> QED BY <1>6, <1>7, ClosingLevelwise!Induction
  <1>9. B[n].e = A[n] BY <1>8
  <1> QED BY <1>4, <1>5, <1>9

NothingClosed(s) == [e |-> s[3], c |-> s[4]]
OneClosedByAbstr(s, n, prev) ==
    LET x == s[2][Len(s[2]) - n + 1]
        b == Abstr(prev.e, <<x>>, prev.c)
    IN [e |-> Bind(s[1], x[4], b.e), c |-> b.c]

ClosingOneByOne == INSTANCE Recursion WITH Base <- NothingClosed, Step <- OneClosedByAbstr

\* The locals are abstracted one at a time, the last first.
LEMMA CloseByAbstrIs ==
    ASSUME NEW tag, NEW locals, NEW e, NEW c, NEW n \in Nat, Len(locals) = n
    PROVE  LET B == CloseByAbstr(tag, locals, e, c) IN
           /\ B[0].e = e
           /\ \A k \in Nat : B[k + 1].e = Bind(tag, locals[n - k][4], Abstr(B[k].e, <<locals[n - k]>>, B[k].c).e)
  <1> DEFINE s == <<tag, locals, e, c>>
             Next2(k, prev) == LET x == locals[Len(locals) - k + 1]
                                   b == Abstr(prev.e, <<x>>, prev.c)
                               IN [e |-> Bind(tag, x[4], b.e), c |-> b.c]
             G(f) == [k \in Nat |-> IF k = 0 THEN [e |-> e, c |-> c] ELSE Next2(k, f[k - 1])]
             B == CloseByAbstr(tag, locals, e, c)
  <1>1. \E f : f = [k \in Nat |-> IF k = 0 THEN NothingClosed(s) ELSE OneClosedByAbstr(s, k, f[k - 1])]
    BY ClosingOneByOne!HasSolution
  <1>2. \E f : f = G(f) BY <1>1 DEF NothingClosed, OneClosedByAbstr
  <1>3. B = CHOOSE f : f = G(f) BY DEF CloseByAbstr
  <1>4. B = G(B)
    <2> HIDE DEF G, B
    <2> QED BY <1>2, <1>3
  <1> HIDE DEF B
  <1>5. B[0].e = e
    <2>1. G(B)[0] = [e |-> e, c |-> c] OBVIOUS
    <2> HIDE DEF G
    <2> QED BY <1>4, <2>1
  <1>6. ASSUME NEW k \in Nat
        PROVE  B[k + 1].e = Bind(tag, locals[n - k][4], Abstr(B[k].e, <<locals[n - k]>>, B[k].c).e)
    <2>1. k + 1 \in Nat /\ k + 1 # 0 /\ (k + 1) - 1 = k /\ Len(locals) - (k + 1) + 1 = n - k OBVIOUS
    <2>2. G(B)[k + 1] = Next2(k + 1, B[(k + 1) - 1]) BY <2>1
    <2>3. PICK i : i = Len(locals) - (k + 1) + 1 /\ i = n - k BY <2>1
    <2>4. Next2(k + 1, B[k]).e = Bind(tag, locals[i][4], Abstr(B[k].e, <<locals[i]>>, B[k].c).e) BY <2>3
    <2> HIDE DEF G, Next2
    <2> QED BY <1>4, <2>1, <2>2, <2>3, <2>4
  <1> QED BY <1>5, <1>6 DEF B

\* As long as what is made on the way nests no deeper than the bound, abstracting one
\* local after the other is what Binders says it is.
LEMMA CloseByAbstrIsPlain ==
    ASSUME NEW tag, NEW locals, NEW e, NEW c, NEW n \in Nat, Len(locals) = n,
           \A k \in 0 .. n : CloseByAbstr(tag, locals, e, c)[k].e \in Expr
    PROVE  \A k \in 0 .. n : CloseByAbstr(tag, locals, e, c)[k].e = AroundLocals(tag, locals, e)[k]
  <1> DEFINE B == CloseByAbstr(tag, locals, e, c)
             A == AroundLocals(tag, locals, e)
             S == {k \in Nat : k <= n => B[k].e = A[k]}
  <1>1. A[0] = e /\ \A k \in Nat : A[k + 1] = Bind(tag, locals[n - k][4], AbstrPlain(A[k], <<locals[n - k]>>))
    <2>1. Discharges(AroundLocals(tag, locals, e), tag, locals, n, e) BY AroundLocalsIs
    <2> QED BY <2>1 DEF Discharges
  <1>2. B[0].e = e /\ \A k \in Nat : B[k + 1].e = Bind(tag, locals[n - k][4], Abstr(B[k].e, <<locals[n - k]>>, B[k].c).e)
    BY CloseByAbstrIs
  <1>3. \A k \in 0 .. n : B[k].e \in Expr OBVIOUS
  <1> HIDE DEF A, B
  <1>4. 0 \in S BY <1>1, <1>2
  <1>5. ASSUME NEW k \in Nat, k \in S PROVE k + 1 \in S
    <2> SUFFICES ASSUME k + 1 <= n PROVE B[k + 1].e = A[k + 1] OBVIOUS
    <2>1. B[k].e = A[k] /\ B[k].e \in Expr BY <1>3, <1>5
    <2>2. PICK c0, x, y : c0 = B[k].c /\ x = locals[n - k] /\ y = B[k].e OBVIOUS
    <2>3. IsList(<<x>>, Len(<<x>>)) /\ Len(<<x>>) \in Nat BY DEF IsList
    <2>4. Abstr(y, <<x>>, c0).e = AbstrPlain(y, <<x>>)
      <3> DEFINE ls == <<x>>
      <3>1. IsList(ls, Len(ls)) /\ Len(ls) \in Nat BY <2>3
      <3> HIDE DEF ls
      <3>2. Abstr(y, ls, c0).e = AbstrPlain(y, ls) BY <2>1, <2>2, <3>1, AbstrIsPlain
      <3> QED BY <3>2 DEF ls
    <2>5. B[k + 1].e = Bind(tag, x[4], Abstr(y, <<x>>, c0).e) BY <1>2, <2>2
    <2>6. A[k + 1] = Bind(tag, x[4], AbstrPlain(y, <<x>>)) BY <1>1, <2>1, <2>2
    <2> QED BY <2>4, <2>5, <2>6
  <1>6. Nat \subseteq S
    <2> HIDE DEF S
    <2> QED BY <1>4, <1>5, ClosingOneByOne!Induction
  <1>7. \A k \in 0 .. n : B[k].e = A[k] BY <1>6
  <1> QED BY <1>7 DEF A, B

-----------------------------------------------------------------------------
(* Every step of the code is one of Binders.                               *)

\* Opening a telescope.
LEMMA OpenEnters == ASSUME IInv, NEW how \in {"dbj", "unique"}, Open(how) PROVE Enter(how) /\ dsubst' = dsubst
  <1> DEFINE tag == at[1]
             n == RunLength(at, 3, tag)
             first == IF how = "dbj" THEN dbjLevelCounter ELSE uniqueCounter
             tele == Telescope(how, first, at, caches.inst)[n]
             inside == Down(at, 3)[n]
             body == Inst(inside, tele.locals, tele.c)
             locals == LocalsFor(how, first, BinderTypes(at, n))
  <1>1. at \in Expr /\ tag \in {"pi", "lam"}
    <2>1. Stands(opened, at, plain) /\ IsBinder(at) BY DEF IInv, Inv, Open
    <2> QED BY <2>1 DEF Stands, Fits, IsBinder
  <1>2. n \in Nat /\ n <= RunLength(at, 3, tag)
    <2>1. IsWay(3, tag) BY <1>1 DEF IsWay
    <2>2. n \in Nat BY <1>1, <2>1, RunInside
    <2> QED BY <2>2
  <1> HIDE DEF n, tag
  <1>3. inside \in Expr /\ \A k \in 0 .. n - 1 : Down(at, 3)[k][2] \in Expr BY <1>1, <1>2, TelescopeInside
  <1> HIDE DEF inside, first
  <1>4. tele.locals = locals BY <1>2, <1>3, TelescopeIsPlain
  <1>5. Len(locals) \in Nat
    <2>1. Len(BinderTypes(at, n)) = n BY <1>2, BinderTypesLen
    <2> QED BY <1>2, <2>1, LocalsForIs
  <1> HIDE DEF locals
  <1>6. body.e = InstFull(inside, locals)
    <2> HIDE DEF tele
    <2> QED BY <1>3, <1>4, <1>5, InstIsFull
  <1>7. at' = InstFull(Down(at, 3)[RunLength(at, 3, at[1])], locals)
    <2>1. at' = body.e BY DEF Open, tag, n, first, inside
    <2> HIDE DEF body
    <2> QED BY <1>6, <2>1 DEF inside, n, tag
  <1>8. opened' = opened \o locals
    <2>1. opened' = opened \o tele.locals BY DEF Open, tag, n, first
    <2> HIDE DEF tele
    <2> QED BY <1>4, <2>1
  <1>9. /\ IsBinder(at) /\ (how = "unique" => dbjLevelCounter = 0) /\ dsubst' = dsubst
        /\ frames' = Append(frames, [tag |-> at[1], how |-> how, start |-> Len(opened), caller |-> at, meaning |-> plain])
        /\ IF how = "dbj" THEN dbjLevelCounter' = first + n /\ UNCHANGED uniqueCounter
           ELSE uniqueCounter' = first + n /\ UNCHANGED dbjLevelCounter
        /\ plain' = Down(plain, 3)[RunLength(plain, 3, plain[1])]
        /\ context' = context \o BinderTypes(plain, RunLength(plain, 3, plain[1]))
        /\ at' \in ExprsTo[ExprDepth] /\ opened' \in Seq(ExprsTo[ExprDepth])
    BY DEF Open, first, n, tag
  <1> QED BY <1>7, <1>8, <1>9 DEF Enter, locals, first, n, tag

\* Closing by number.
LEMMA CloseLambdaGeneralizes == ASSUME IInv, CloseLambda PROVE Generalize /\ dsubst' = dsubst
  <1> DEFINE n == Len(TopLocals)
             ctypes == [i \in 1 .. n |-> AbstrLevelsFull(TopLocals[i][4], StartPos, StartPos + i - 1)]
             body == AbstrLevels(at, StartPos, dbjLevelCounter, caches.levels)
  <1>1. frames # <<>> /\ Top.how = "dbj" BY DEF CloseLambda
  <1>2. /\ opened \in Seq(Expr) /\ Distinct(opened) /\ Len(opened) \in Nat /\ dbjLevelCounter \in Nat /\ at \in Expr
    <2>1. Stands(opened, at, plain) BY DEF IInv, Inv
    <2> QED BY <2>1, InvParts DEF IInv, Stands, Fits
  <1>3. /\ Top.start \in 0 .. Len(opened) /\ Cut(opened, Top.start, SubSeq(opened, 1, Top.start), TopLocals)
        /\ StartPos \in Nat
    BY <1>1, TopIs
  <1>4. n \in Nat /\ \A i \in 1 .. n : TopLocals[i][4] \in Expr
    <2>1. TopLocals \in Seq(Expr) /\ n = Len(opened) - Top.start BY <1>3 DEF Cut
    <2>2. ASSUME NEW i \in 1 .. n PROVE TopLocals[i][4] \in Expr
      <3>1. Top.start + i \in 1 .. Len(opened) /\ TopLocals[i] = opened[Top.start + i] BY <1>2, <1>3, <2>1 DEF Cut
      <3>2. PICK y \in Expr : y = TopLocals[i] /\ IsLocal(y) BY <1>2, <3>1 DEF Distinct
      <3>3. y[4] \in Expr BY <3>2, ExprParts DEF Node
      <3> QED BY <3>2, <3>3
    <2> QED BY <2>1, <2>2
  <1>5. body.e = AbstrLevelsFull(at, StartPos, dbjLevelCounter) BY <1>2, <1>3, AbstrLevelsIsFull
  <1>6. CloseByLevels(TopLocals, StartPos, body).e = CloseTypes("pi", ctypes, body.e)
    <2>1. PICK locals, k, p, b : locals = TopLocals /\ k = n /\ p = StartPos /\ b = body OBVIOUS
    <2>2. k \in Nat /\ Len(locals) = k /\ p \in Nat /\ \A i \in 1 .. k : locals[i][4] \in Expr BY <1>3, <1>4, <2>1
    <2>3. ctypes = [i \in 1 .. k |-> AbstrLevelsFull(locals[i][4], p, p + i - 1)] BY <2>1
    <2> HIDE DEF body, ctypes, n
    <2>4. CloseByLevels(locals, p, b).e = CloseTypes("pi", ctypes, b.e) BY <2>2, <2>3, CloseByLevelsIsPlain
    <2> QED BY <2>1, <2>4
  <1>7. at' = CloseByLevels(TopLocals, StartPos, body).e BY DEF CloseLambda
  <1> HIDE DEF body
  <1>8. at' = CloseTypes("pi", ctypes, AbstrLevelsFull(at, StartPos, dbjLevelCounter)) BY <1>5, <1>6, <1>7
  <1>9. /\ Top.tag = "lam" /\ Pop /\ dbjLevelCounter' = StartPos /\ uniqueCounter' = uniqueCounter
        /\ plain' = CloseTypes("pi", TopTypes, plain) /\ at' \in ExprsTo[ExprDepth] /\ dsubst' = dsubst
    BY DEF CloseLambda
  <1> QED BY <1>1, <1>8, <1>9 DEF Generalize

\* Leaving without a word.
LEMMA LeaveGoesBack == ASSUME Leave PROVE GoBack /\ dsubst' = dsubst
  BY DEF Leave, GoBack, CounterAfterLeave

\* Closing by abstracting one local after the other.
LEMMA CloseTelescopeDischarges == ASSUME IInv, NEW tag, CloseTelescope(tag) PROVE Discharge(tag) /\ dsubst' = dsubst
  <1> DEFINE n == Len(TopLocals)
             B == CloseByAbstr(tag, TopLocals, at, caches.abstr)
             A == AroundLocals(tag, TopLocals, at)
  <1>1. /\ frames # <<>> /\ Top.how = "unique" /\ Pop /\ dbjLevelCounter' = dbjLevelCounter
        /\ uniqueCounter' = uniqueCounter /\ dsubst' = dsubst
        /\ at' = B[n].e /\ plain' = CloseTypes(tag, TopTypes, plain)
    BY DEF CloseTelescope
  <1>2. \A k \in 0 .. n : B[k].e \in Expr BY DEF CloseTelescope, Expr
  <1>3. n \in Nat
    <2>1. Top.start \in 0 .. Len(opened) /\ n = Len(opened) - Top.start BY <1>1, TopIs
    <2>2. Len(opened) \in Nat BY InvParts DEF IInv
    <2> QED BY <2>1, <2>2
  <1>4. \A k \in 0 .. n : B[k].e = A[k]
    <2> DEFINE locals == TopLocals
    <2>1. PICK l \in Nat : l = n /\ Len(locals) = l BY <1>3
    <2>2. PICK c : c = caches.abstr OBVIOUS
    <2>3. \A k \in 0 .. l : CloseByAbstr(tag, locals, at, c)[k].e \in Expr BY <1>2, <2>1, <2>2
    <2> HIDE DEF locals
    <2>4. \A k \in 0 .. l : CloseByAbstr(tag, locals, at, c)[k].e = AroundLocals(tag, locals, at)[k]
      BY <2>1, <2>3, CloseByAbstrIsPlain
    <2> QED BY <2>1, <2>2, <2>4 DEF locals
  <1>5. n \in 0 .. n BY <1>3
  <1> HIDE DEF A, B
  <1>6. at' = A[n] /\ \A k \in 0 .. n : A[k] \in ExprsTo[ExprDepth] BY <1>1, <1>2, <1>4, <1>5 DEF Expr
  <1> QED BY <1>1, <1>6 DEF Discharge, A

\* Moving what is at hand from one opening of a telescope to another.
LEMMA ReplaceParamsRenames == ASSUME IInv, ReplaceParams PROVE Rename /\ dsubst' = dsubst
  <1> DEFINE n == RunLength(Top.caller, 3, Top.tag)
             tele == Telescope("unique", uniqueCounter, Top.caller, caches.inst)[n]
             new == LocalsFor("unique", uniqueCounter, BinderTypes(Top.caller, n))
             a == Abstr(at, TopLocals, caches.abstr)
  <1>1. /\ frames # <<>> /\ Top.how = "unique" /\ frames' = frames /\ dbjLevelCounter' = dbjLevelCounter
        /\ plain' = plain /\ context' = context /\ uniqueCounter' = uniqueCounter + n /\ dsubst' = dsubst
        /\ at' \in ExprsTo[ExprDepth] /\ opened' \in Seq(ExprsTo[ExprDepth])
    BY DEF ReplaceParams
  <1>2. at' = Inst(a.e, tele.locals, tele.c).e /\ opened' = SubSeq(opened, 1, Top.start) \o tele.locals
    BY DEF ReplaceParams
  <1>3. /\ Top.caller \in Expr /\ Top.tag \in {"pi", "lam"}
        /\ Top.start \in 0 .. Len(opened) /\ Cut(opened, Top.start, SubSeq(opened, 1, Top.start), TopLocals)
    <2>1. FrameOK(Top, Len(opened), opened, context, Len(opened) - dbjLevelCounter) BY <1>1, TopIs
    <2>2. Top \in Frame BY <2>1 DEF FrameOK
    <2> QED BY <1>1, <2>2, TopIs DEF Frame
  <1>4. n \in Nat /\ n <= RunLength(Top.caller, 3, Top.tag)
    <2> DEFINE e == Top.caller
               tag == Top.tag
    <2>1. e \in Expr /\ IsWay(3, tag) BY <1>3 DEF IsWay
    <2> HIDE DEF e, tag
    <2>2. RunLength(e, 3, tag) \in Nat BY <2>1, RunInside
    <2>3. n \in Nat BY <2>2 DEF e, tag
    <2> QED BY <2>3
  <1> HIDE DEF n
  <1>5. \A k \in 0 .. n - 1 : Down(Top.caller, 3)[k][2] \in Expr
    <2> DEFINE e == Top.caller
               tag == Top.tag
    <2>1. e \in Expr /\ tag \in {"pi", "lam"} /\ n <= RunLength(e, 3, tag) BY <1>3, <1>4
    <2> HIDE DEF e, tag
    <2>2. \A k \in 0 .. n - 1 : Down(e, 3)[k][2] \in Expr BY <1>4, <2>1, TelescopeInside
    <2> QED BY <2>2 DEF e
  <1>6. tele.locals = new
    <2> DEFINE e == Top.caller
               how == "unique"
    <2>1. \A k \in 0 .. n - 1 : Down(e, 3)[k][2] \in Expr BY <1>5
    <2> HIDE DEF e, how
    <2>2. Telescope(how, uniqueCounter, e, caches.inst)[n].locals = LocalsFor(how, uniqueCounter, BinderTypes(e, n))
      BY <1>4, <2>1, TelescopeIsPlain
    <2> QED BY <2>2 DEF e, how
  <1>7. Len(new) \in Nat
    <2>1. Len(BinderTypes(Top.caller, n)) = n BY <1>4, BinderTypesLen
    <2> QED BY <1>4, <2>1, LocalsForIs
  <1>8. a.e = AbstrPlain(at, TopLocals) /\ a.e \in Expr
    <2>1. /\ opened \in Seq(Expr) /\ Distinct(opened) /\ at \in Expr
      <3>1. Stands(opened, at, plain) BY DEF IInv, Inv
      <3> QED BY <3>1, InvParts DEF IInv, Stands, Fits
    <2> DEFINE locals == TopLocals
    <2>2. locals \in Seq(Expr) /\ Len(locals) \in Nat /\ Distinct(locals)
      <3>1. SubSeq(opened, 1, Top.start) \in Seq(Expr) /\ locals \in Seq(Expr) /\ SubSeq(opened, 1, Top.start) \o locals = opened
        BY <1>3 DEF Cut
      <3> HIDE DEF locals
      <3>2. Distinct(locals) BY <2>1, <3>1, DistinctParts
      <3> QED BY <3>1, <3>2
    <2> HIDE DEF locals
    <2>3. IsList(locals, Len(locals)) BY <2>2 DEF IsList
    <2>4. PICK c : c = caches.abstr OBVIOUS
    <2>5. Abstr(at, locals, c).e = AbstrPlain(at, locals) BY <2>1, <2>2, <2>3, AbstrIsPlain
    <2>6. AbstrPlain(at, locals) \in Expr BY <2>1, <2>2, ClosingInside DEF AbstrPlain
    <2> QED BY <2>4, <2>5, <2>6 DEF locals
  <1> HIDE DEF tele, new, a
  <1>9. Inst(a.e, new, tele.c).e = InstFull(a.e, new) BY <1>7, <1>8, InstIsFull
  <1>10. at' = InstFull(AbstrPlain(at, TopLocals), new) /\ opened' = SubSeq(opened, 1, Top.start) \o new
    BY <1>2, <1>6, <1>8, <1>9
  <1> QED BY <1>1, <1>10 DEF Rename, new, n

\* Going on with a part.
LEMMA FocusNarrows == ASSUME Focus PROVE Narrow /\ dsubst' = dsubst
  BY DEF Focus

\* Reducing a redex, up to as many arguments as there are lambdas at once.
LEMMA BetaContracts == ASSUME IInv, Beta PROVE Contract /\ dsubst' = dsubst
  <1> DEFINE m == RunLength(at, 2, "app")
             fun == Down(at, 2)[m]
             lambdas == RunLength(fun, 3, "lam")
             n == IF m <= lambdas THEN m ELSE lambdas
             args == Args(at, m)
             inside == Down(fun, 3)[n]
             body == Inst(inside, SubSeq(args, 1, n), caches.inst)
             reduced == Reduced(Down(plain, 2)[m], Args(plain, m))
  <1>1. /\ n > 0 /\ UNCHANGED scope /\ dsubst' = dsubst
        /\ at' = Applied(body.e, SubSeq(args, n + 1, m))
        /\ plain' = Applied(reduced[n], SubSeq(Args(plain, m), n + 1, m))
        /\ at' \in ExprsTo[ExprDepth] /\ \A k \in 0 .. n : reduced[k] \in ExprsTo[ExprDepth]
    BY DEF Beta
  <1>2. Distinct(opened) /\ Stands(opened, at, plain) BY InvParts DEF IInv, Inv
  <1>3. m = RunLength(at, 2, "app") OBVIOUS
  <1> HIDE DEF m
  <1>4. m \in Nat /\ fun \in Expr /\ args \in Seq(Expr) /\ Len(args) = m
    <2>1. Stands(opened, fun, Down(plain, 2)[m]) /\ m \in Nat /\ args \in Seq(Expr) /\ Len(args) = m
      BY <1>2, <1>3, ArgsStand
    <2> QED BY <2>1 DEF Stands, Fits
  <1> HIDE DEF fun, args
  <1>5. lambdas \in Nat
    <2>1. IsWay(3, "lam") BY DEF IsWay
    <2> QED BY <1>4, <2>1, RunInside
  <1>6. n \in Nat /\ n <= lambdas /\ n \in 0 .. m BY <1>4, <1>5
  <1>7. inside \in Expr
    <2> DEFINE tag == "lam"
    <2>1. tag \in {"pi", "lam"} /\ n <= RunLength(fun, 3, tag) BY <1>6
    <2> HIDE DEF tag, n, lambdas
    <2> QED BY <1>4, <1>6, <2>1, TelescopeInside
  <1>8. Len(SubSeq(args, 1, n)) \in Nat
    <2> HIDE DEF n
    <2> QED BY <1>4, <1>6, Prefixes
  <1> DEFINE given == SubSeq(args, 1, n)
  <1>9. body.e = InstFull(inside, given)
    <2>1. Len(given) \in Nat BY <1>8
    <2> HIDE DEF inside, given
    <2>2. PICK c : c = caches.inst OBVIOUS
    <2>3. Inst(inside, given, c).e = InstFull(inside, given) BY <1>7, <2>1, InstIsFull
    <2> QED BY <2>2, <2>3 DEF given
  <1>10. at' = Applied(InstFull(inside, given), SubSeq(args, n + 1, m))
    <2> HIDE DEF body
    <2> QED BY <1>1, <1>9
  <1> HIDE DEF body
  <1> QED BY <1>1, <1>10 DEF Contract, m, fun, args

\* Reducing a let.
LEMMA ZetaContracts == ASSUME IInv, Zeta PROVE ContractLet /\ dsubst' = dsubst
  <1> DEFINE m == RunLength(at, 2, "app")
             fun == Down(at, 2)[m]
             meaning == Down(plain, 2)[m]
             body == Inst(fun[4], <<fun[3]>>, caches.inst)
  <1>1. /\ fun[1] = "let" /\ UNCHANGED scope /\ dsubst' = dsubst /\ at' = Applied(body.e, Args(at, m))
        /\ plain' = Applied(Subst1Full(meaning[4], meaning[3]), Args(plain, m)) /\ at' \in ExprsTo[ExprDepth]
    BY DEF Zeta
  <1>2. Distinct(opened) /\ Stands(opened, at, plain) BY InvParts DEF IInv, Inv
  <1>3. m = RunLength(at, 2, "app") OBVIOUS
  <1> HIDE DEF m
  <1>4. fun \in Expr
    <2>1. Stands(opened, fun, meaning) BY <1>2, <1>3, ArgsStand
    <2> QED BY <2>1 DEF Stands, Fits
  <1> HIDE DEF fun
  <1>5. fun[4] \in Expr
    <2>1. 4 \in Children(fun) BY <1>1 DEF Children
    <2> QED BY <1>4, <2>1, ExprParts DEF Node
  <1>6. body.e = InstFull(fun[4], <<fun[3]>>)
    <2> DEFINE given == <<fun[3]>>
    <2>1. Len(given) \in Nat OBVIOUS
    <2> HIDE DEF given
    <2>2. PICK c, inside : c = caches.inst /\ inside = fun[4] OBVIOUS
    <2>3. Inst(inside, given, c).e = InstFull(inside, given) BY <1>5, <2>1, <2>2, InstIsFull
    <2> QED BY <2>2, <2>3 DEF given
  <1> HIDE DEF body
  <1>7. at' = Applied(InstFull(fun[4], <<fun[3]>>), Args(at, m)) BY <1>1, <1>6
  <1> QED BY <1>1, <1>7 DEF ContractLet, m, fun

\* Unfolding a constant, be the value with its levels put in the cache or not.
LEMMA UnfoldUnfolds ==
    ASSUME IInv, EntriesRight(dsubst), Unfold PROVE UnfoldConst /\ EntriesRight(dsubst')
  <1> DEFINE m == RunLength(at, 2, "app")
             fun == Down(at, 2)[m]
             meaning == Down(plain, 2)[m]
             s == [ks |-> Uparams, vs |-> fun[3]]
             val == SubstExprLevels(Value, s, caches.subst, dsubst)
  <1>1. /\ fun[1] = "const" /\ Len(fun[3]) = Len(Uparams) /\ UNCHANGED scope
        /\ at' = Applied(val.e, Args(at, m)) /\ dsubst' = val.dsubst
        /\ plain' = Applied(PlugLevels(Value, [ks |-> Uparams, vs |-> meaning[3]]), Args(plain, m))
        /\ at' \in ExprsTo[ExprDepth]
    BY DEF Unfold
  <1>2. Value \in Expr BY InputsAssumption DEF IsClosed, Expr
  <1>3. val.e = PlugLevels(Value, s) /\ EntriesRight(val.dsubst)
    <2> HIDE DEF s
    <2>1. PICK c, d : c = caches.subst /\ d = dsubst OBVIOUS
    <2>2. EntriesRight(d) BY <2>1
    <2>3. SubstExprLevels(Value, s, c, d).e = PlugLevels(Value, s) /\ EntriesRight(SubstExprLevels(Value, s, c, d).dsubst)
      BY <1>2, <2>2, SubstIsFull
    <2> QED BY <2>1, <2>3
  <1> HIDE DEF val
  <1>4. at' = Applied(PlugLevels(Value, s), Args(at, m)) /\ EntriesRight(dsubst')
    <2>1. EntriesRight(dsubst') BY <1>1, <1>3
    <2> QED BY <1>1, <1>3, <2>1
  <1> QED BY <1>1, <1>4 DEF UnfoldConst

-----------------------------------------------------------------------------
(* The code does what Binders says.                                        *)

\* Every entry of dsubst_cache, which is never cleared, is what putting the levels
\* of its key for the parameters gives.
DSubstRight == EntriesRight(dsubst)

\* The inductive invariant of the code.
CachedInv == IInv /\ DSubstRight

\* A step of the code is a step of Binders or changes nothing of it, and leaves right
\* entries.
LEMMA StepsImplement == CachedInv /\ [CachedNext]_cachedVars => [Next]_vars /\ DSubstRight'
  <1> SUFFICES ASSUME IInv, EntriesRight(dsubst), [CachedNext]_cachedVars PROVE [Next]_vars /\ EntriesRight(dsubst')
    BY DEF CachedInv, DSubstRight
  <1>0. dsubst' = dsubst => EntriesRight(dsubst') OBVIOUS
  <1>1. CASE Open("dbj")
    <2>1. Enter("dbj") /\ dsubst' = dsubst BY <1>1, OpenEnters
    <2> QED BY <1>0, <2>1 DEF Next
  <1>2. CASE Open("unique")
    <2>1. Enter("unique") /\ dsubst' = dsubst BY <1>2, OpenEnters
    <2> QED BY <1>0, <2>1 DEF Next
  <1>3. CASE CloseLambda BY <1>0, <1>3, CloseLambdaGeneralizes DEF Next
  <1>4. CASE Leave BY <1>0, <1>4, LeaveGoesBack DEF Next
  <1>5. CASE CloseTelescope("pi")
    <2>1. Discharge("pi") /\ dsubst' = dsubst BY <1>5, CloseTelescopeDischarges
    <2> QED BY <1>0, <2>1 DEF Next
  <1>6. CASE CloseTelescope("lam")
    <2>1. Discharge("lam") /\ dsubst' = dsubst BY <1>6, CloseTelescopeDischarges
    <2> QED BY <1>0, <2>1 DEF Next
  <1>7. CASE ReplaceParams BY <1>0, <1>7, ReplaceParamsRenames DEF Next
  <1>8. CASE Focus BY <1>0, <1>8, FocusNarrows DEF Next
  <1>9. CASE Beta BY <1>0, <1>9, BetaContracts DEF Next
  <1>10. CASE Zeta BY <1>0, <1>10, ZetaContracts DEF Next
  <1>11. CASE Unfold BY <1>11, UnfoldUnfolds DEF Next
  <1>12. CASE UNCHANGED cachedVars BY <1>0, <1>12 DEF cachedVars
  <1> QED BY <1>1, <1>2, <1>3, <1>4, <1>5, <1>6, <1>7, <1>8, <1>9, <1>10, <1>11, <1>12 DEF CachedNext

\* At the beginning the caches are empty.
LEMMA CachedInitInv == CachedInit => Init /\ CachedInv
  <1> SUFFICES ASSUME CachedInit PROVE Init /\ CachedInv OBVIOUS
  <1>1. Init /\ dsubst = NoEntries BY DEF CachedInit
  <1>2. EntriesRight(NoEntries) BY DEF EntriesRight, NoEntries
  <1> QED BY <1>1, <1>2, InitInv DEF CachedInv, DSubstRight

\* The invariant is inductive.
LEMMA CachedInvHolds == CachedSpec => []CachedInv
  <1>1. CachedInv /\ [CachedNext]_cachedVars => CachedInv'
    <2> SUFFICES ASSUME CachedInv, [CachedNext]_cachedVars PROVE CachedInv' OBVIOUS
    <2>1. [Next]_vars /\ DSubstRight' BY StepsImplement
    <2>2. IInv' BY <2>1, NextKeeps DEF CachedInv
    <2> QED BY <2>1, <2>2 DEF CachedInv
  <1> QED BY <1>1, CachedInitInv, PTL DEF CachedSpec

\* The code's traversals, which skip what needs no visit, keep what they made and use
\* it again, do what the ones of Binders do: every behaviour of the code is one of
\* Binders.
THEOREM CachedImplements == CachedSpec => ImplementsBinders
  <1> QED BY CachedInitInv, StepsImplement, CachedInvHolds, PTL DEF CachedSpec, ImplementsBinders, Spec

\* So that what the code has at hand stands for what the textbook's term is.
THEOREM CachedDenotes == CachedSpec => []Denotes
  BY CachedImplements, DenotesHolds, PTL DEF ImplementsBinders

\* And every local in it is open, the ones of the type checker in order.
THEOREM CachedInScope == CachedSpec => []InScope
  BY CachedImplements, InScopeHolds, PTL DEF ImplementsBinders

\* No entry of dsubst_cache is ever one that its key does not belong to: though the
\* cache is never cleared, what it answers is what would be computed.
THEOREM DSubstStaysRight == CachedSpec => []DSubstRight
  <1>1. CachedInv => DSubstRight BY DEF CachedInv
  <1> QED BY <1>1, CachedInvHolds, PTL
=============================================================================
