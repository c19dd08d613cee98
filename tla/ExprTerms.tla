----------------------------- MODULE ExprTerms ------------------------------
(***************************************************************************)
(* What a node records about loose variables and locals, and the           *)
(* expression that instantiating loose variables, abstracting locals and   *)
(* substituting universe parameters return (src/src/expr.rs).  The caches  *)
(* of these traversals are in CachedTerms: they are of no use from one     *)
(* call to the next, or hold what is right for every call.                 *)
(***************************************************************************)
EXTENDS ExprNodes, FiniteSets, TLC

-----------------------------------------------------------------------------
(* What a node records, computed from its children when it is made.        *)

RECURSIVE NumLooseBVars(_)
NumLooseBVars(e) ==
    CASE e[1] = "var" -> e[2] + 1
      [] e[1] = "app" -> Maximum(NumLooseBVars(e[2]), NumLooseBVars(e[3]))
      [] IsBinder(e)  -> Maximum(NumLooseBVars(e[2]), Pred(NumLooseBVars(e[3])))
      [] e[1] = "let" -> Maximum(NumLooseBVars(e[2]), Maximum(NumLooseBVars(e[3]), Pred(NumLooseBVars(e[4]))))
      [] e[1] = "proj" -> NumLooseBVars(e[3])
      [] OTHER -> 0

RECURSIVE HasFVars(_)
HasFVars(e) ==
    CASE IsLocal(e) -> TRUE
      [] e[1] = "app" \/ IsBinder(e) -> HasFVars(e[2]) \/ HasFVars(e[3])
      [] e[1] = "let" -> HasFVars(e[2]) \/ HasFVars(e[3]) \/ HasFVars(e[4])
      [] e[1] = "proj" -> HasFVars(e[3])
      [] OTHER -> FALSE

-----------------------------------------------------------------------------
(* Traversals.                                                             *)

\* e with children in place of its own.
Rebuilt(e, children) ==
    CASE e[1] = "app"  -> App(children[2], children[3])
      [] IsBinder(e)   -> Bind(e[1], children[2], children[3])
      [] e[1] = "let"  -> Let(children[2], children[3], children[4])
      [] e[1] = "proj" -> Proj(e[2], children[3])
      [] OTHER -> e

RECURSIVE InstAux(_, _, _)
InstAux(e, substs, offset) ==
    IF NumLooseBVars(e) <= offset THEN e
    ELSE IF e[1] = "var" THEN InstVar(e, substs, offset)
    ELSE Rebuilt(e, [i \in Children(e) |-> InstAux(e[i], substs, Below(e, i, offset))])

Inst(e, substs) == InstAux(e, substs, 0)

RECURSIVE AbstrAux(_, _, _)
AbstrAux(e, locals, offset) ==
    IF ~HasFVars(e) THEN e
    ELSE IF IsLocal(e) THEN AbstrLocal(e, locals, offset)
    ELSE Rebuilt(e, [i \in Children(e) |-> AbstrAux(e[i], locals, Below(e, i, offset))])

Abstr(e, locals) == AbstrAux(e, locals, 0)

RECURSIVE AbstrLevels(_, _, _)
AbstrLevels(e, startPos, numOpenBinders) ==
    IF ~HasFVars(e) THEN e
    ELSE IF IsLocal(e) THEN AbstrLevel(e, startPos, numOpenBinders)
    ELSE Rebuilt(e, [i \in Children(e) |-> AbstrLevels(e[i], startPos, Below(e, i, numOpenBinders))])

\* Locals are not expected: callers substitute in what a declaration holds.
RECURSIVE SubstExprLevels(_, _)
SubstExprLevels(e, s) ==
    CASE e[1] = "sort"  -> Sort(SubstLevel(e[2], s))
      [] e[1] = "const" -> Const(e[2], SubstLevelList(e[3], s))
      [] OTHER -> Rebuilt(e, [i \in Children(e) |-> SubstExprLevels(e[i], s)])

-----------------------------------------------------------------------------
(* Spines.                                                                 *)

RECURSIVE UnfoldApps(_)
UnfoldApps(e) ==
    IF e[1] = "app" THEN LET f == UnfoldApps(e[2]) IN [fun |-> f.fun, args |-> Append(f.args, e[3])]
    ELSE [fun |-> e, args |-> <<>>]

RECURSIVE FoldlApps(_, _)
FoldlApps(f, args) == IF args = <<>> THEN f ELSE FoldlApps(App(f, Head(args)), Tail(args))

-----------------------------------------------------------------------------
(* The reference: terms with de Bruijn indices only, no caches and nothing  *)
(* skipped.                                                                 *)

RECURSIVE Shift(_, _, _)
Shift(d, cutoff, e) ==
    CASE e[1] = "var" -> IF e[2] >= cutoff THEN Var(e[2] + d) ELSE e
      [] e[1] = "app" -> App(Shift(d, cutoff, e[2]), Shift(d, cutoff, e[3]))
      [] IsBinder(e)  -> Bind(e[1], Shift(d, cutoff, e[2]), Shift(d, cutoff + 1, e[3]))
      [] e[1] = "let" -> Let(Shift(d, cutoff, e[2]), Shift(d, cutoff, e[3]), Shift(d, cutoff + 1, e[4]))
      [] e[1] = "proj" -> Proj(e[2], Shift(d, cutoff, e[3]))
      [] OTHER -> e

RECURSIVE Subst(_, _, _)
Subst(j, s, e) ==
    CASE e[1] = "var" -> IF e[2] = j THEN s ELSE e
      [] e[1] = "app" -> App(Subst(j, s, e[2]), Subst(j, s, e[3]))
      [] IsBinder(e)  -> Bind(e[1], Subst(j, s, e[2]), Subst(j + 1, Shift(1, 0, s), e[3]))
      [] e[1] = "let" -> Let(Subst(j, s, e[2]), Subst(j, s, e[3]), Subst(j + 1, Shift(1, 0, s), e[4]))
      [] e[1] = "proj" -> Proj(e[2], Subst(j, s, e[3]))
      [] OTHER -> e

Subst1(body, arg) == Shift(-1, 0, Subst(0, Shift(1, 0, arg), body))

RECURSIVE SubstLevelsFull(_, _)
SubstLevelsFull(e, s) ==
    CASE e[1] = "sort"  -> Sort(SubstLevel(e[2], s))
      [] e[1] = "const" -> Const(e[2], SubstLevelList(e[3], s))
      [] e[1] = "app"   -> App(SubstLevelsFull(e[2], s), SubstLevelsFull(e[3], s))
      [] IsBinder(e)    -> Bind(e[1], SubstLevelsFull(e[2], s), SubstLevelsFull(e[3], s))
      [] e[1] = "let"   -> Let(SubstLevelsFull(e[2], s), SubstLevelsFull(e[3], s), SubstLevelsFull(e[4], s))
      [] e[1] = "proj"  -> Proj(e[2], SubstLevelsFull(e[3], s))
      [] OTHER -> e

\* The term e stands for under the locals given, outermost first.
RECURSIVE AbstrFull(_, _, _)
AbstrFull(e, locals, offset) ==
    CASE IsLocal(e) -> AbstrLocal(e, locals, offset)
      [] e[1] = "app" -> App(AbstrFull(e[2], locals, offset), AbstrFull(e[3], locals, offset))
      [] IsBinder(e)  -> Bind(e[1], AbstrFull(e[2], locals, offset), AbstrFull(e[3], locals, offset + 1))
      [] e[1] = "let" -> Let(AbstrFull(e[2], locals, offset), AbstrFull(e[3], locals, offset),
                             AbstrFull(e[4], locals, offset + 1))
      [] e[1] = "proj" -> Proj(e[2], AbstrFull(e[3], locals, offset))
      [] OTHER -> e

\* The loose variables of e, and the locals in it.
RECURSIVE Loose(_)
Loose(e) ==
    LET Under(b) == {i - 1 : i \in Loose(b) \ {0}} IN
    CASE e[1] = "var" -> {e[2]}
      [] e[1] = "app" -> Loose(e[2]) \cup Loose(e[3])
      [] IsBinder(e)  -> Loose(e[2]) \cup Under(e[3])
      [] e[1] = "let" -> Loose(e[2]) \cup Loose(e[3]) \cup Under(e[4])
      [] e[1] = "proj" -> Loose(e[3])
      [] OTHER -> {}

RECURSIVE SubExprs(_)
SubExprs(e) ==
    {e} \cup CASE e[1] = "app" \/ IsBinder(e) -> SubExprs(e[2]) \cup SubExprs(e[3])
               [] e[1] = "let" -> SubExprs(e[2]) \cup SubExprs(e[3]) \cup SubExprs(e[4])
               [] e[1] = "proj" -> SubExprs(e[3])
               [] OTHER -> {}
=============================================================================
