---------------------------- MODULE CachedTerms -----------------------------
(***************************************************************************)
(* The traversals that instantiate loose variables, abstract locals and    *)
(* substitute universe parameters (src/src/expr.rs), with what a node      *)
(* records so that they need not visit it and with the caches they use.    *)
(*                                                                         *)
(* A site is a node and the offset it is visited at, the number of binders *)
(* it is under.  A traversal returns the expression it built and the cache *)
(* it leaves, [e, c]; a cache is a function from keys to expressions.      *)
(***************************************************************************)
EXTENDS Traversals

SitesTo(depth) == ExprsTo[depth] \X Nat

-----------------------------------------------------------------------------
(* What a node records, computed from its children when it is made.        *)

NumLooseBVarsArm(e, N) ==
    CASE e[1] = "var" -> e[2] + 1
      [] e[1] = "app" -> Maximum(N[e[2]], N[e[3]])
      [] IsBinder(e)  -> Maximum(N[e[2]], Pred(N[e[3]]))
      [] e[1] = "let" -> Maximum(N[e[2]], Maximum(N[e[3]], Pred(N[e[4]])))
      [] e[1] = "proj" -> N[e[3]]
      [] OTHER -> 0

NumLooseBVarsTo(depth) == LET N[x \in ExprsTo[depth]] == NumLooseBVarsArm(x, N) IN N

HasFVarsArm(e, H) == IsLocal(e) \/ \E i \in Children(e) : H[e[i]]
HasFVarsTo(depth) == LET H[x \in ExprsTo[depth]] == HasFVarsArm(x, H) IN H

-----------------------------------------------------------------------------
(* A traversal with a cache: [skip, leaf, by], the sites it leaves alone,  *)
(* what it makes of a leaf, and what of the offset is part of a key.       *)

\* The sites below x and x itself, in the order in which the traversal is done
\* with them.  Below a hit are sites it was done with when it made the entry, so
\* that they are hits and change nothing.
VisitsArm(skip, x, V) ==
    LET Of(i) == IF i \in Children(x[1]) THEN V[<<x[1][i], Below(x[1], i, x[2])>>] ELSE <<>> IN
    IF x \in skip THEN <<>> ELSE Of(2) \o Of(3) \o Of(4) \o <<x>>

Visits(skip, x) == LET V[y \in SitesTo(ExprDepth)] == VisitsArm(skip, y, V) IN V[x]

CacheKey(t, x) == <<x[1], t.by[x[2]]>>

\* What the traversal returned for a site it was done with.
Answer(t, x, c) == IF x \in t.skip THEN x[1] ELSE c[CacheKey(t, x)]

Rebuilt(t, x, c) ==
    LET e == x[1] IN
    IF Children(e) = {} THEN t.leaf[x]
    ELSE [i \in DOMAIN e |-> IF i \in Children(e) THEN Answer(t, <<e[i], Below(e, i, x[2])>>, c) ELSE e[i]]

Insert(c, key, e) == [k \in DOMAIN c \cup {key} |-> IF k = key THEN e ELSE c[k]]

Visit(t, x, c) ==
    LET key == CacheKey(t, x) IN IF key \in DOMAIN c THEN c ELSE Insert(c, key, Rebuilt(t, x, c))

Cached(t, e, offset, c) ==
    LET x == <<e, offset>>
        sites == Visits(t.skip, x)
        C[k \in Nat] == IF k = 0 THEN c ELSE LET before == C[k - 1] IN Visit(t, sites[k], before)
        left == C[Len(sites)]
    IN [e |-> Answer(t, x, left), c |-> left]

-----------------------------------------------------------------------------
(* The traversals of the code.                                             *)

NoEntries == [k \in {} |-> Var(0)]

\* Mutant of Cleared: the cache of the last call is used again.
NotCleared(c) == c

\* Every traversal but the one of dsubst_cache starts from an empty cache.
Cleared(c) == NoEntries

Inst(e, substs, c) ==
    LET N == NumLooseBVarsTo(ExprDepth) IN
    Cached([skip |-> {x \in SitesTo(ExprDepth) : N[x[1]] <= x[2]},
            leaf |-> [x \in SitesTo(ExprDepth) |-> InstVar(x[1], substs, x[2])],
            by   |-> [n \in Nat |-> n]], e, 0, Cleared(c))

\* Both ways to abstract locals.
AbstrBy(leaf, e, offset, c) ==
    LET H == HasFVarsTo(ExprDepth) IN
    Cached([skip |-> {x \in SitesTo(ExprDepth) : ~H[x[1]]}, leaf |-> leaf, by |-> [n \in Nat |-> n]],
           e, offset, Cleared(c))

Abstr(e, locals, c) == AbstrBy([x \in SitesTo(ExprDepth) |-> AbstrLocal(x[1], locals, x[2])], e, 0, c)

\* The offset starts at how many locals are open.
AbstrLevels(e, startPos, dbjLevelCounter, c) ==
    AbstrBy([x \in SitesTo(ExprDepth) |-> AbstrLevel(x[1], startPos, x[2])], e, dbjLevelCounter, c)

\* Locals are not expected: callers substitute in what a declaration holds.
SubstLeaf(e, s) ==
    CASE e[1] = "sort"  -> Sort(SubstLevel(e[2], s))
      [] e[1] = "const" -> Const(e[2], SubstLevelList(e[3], s))
      [] OTHER -> e

SubstAux(e, s, c) ==
    Cached([skip |-> {}, leaf |-> [x \in SitesTo(ExprDepth) |-> SubstLeaf(x[1], s)], by |-> [n \in Nat |-> s]],
           e, 0, c)

DSubstKey(e, s) == <<e, s>>

\* subst_expr_levels: the result and both caches, the one of the traversal and
\* the one that lasts.
SubstExprLevels(e, s, c, dsubst) ==
    LET key == DSubstKey(e, s)
        r == SubstAux(e, s, Cleared(c))
    IN
    IF key \in DOMAIN dsubst THEN [e |-> dsubst[key], c |-> c, dsubst |-> dsubst]
    ELSE [e |-> r.e, c |-> r.c, dsubst |-> Insert(dsubst, key, r.e)]
=============================================================================
