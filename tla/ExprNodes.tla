----------------------------- MODULE ExprNodes ------------------------------
(***************************************************************************)
(* Expressions as terms (src/src/expr.rs, the mk_* constructors of         *)
(* src/src/util.rs).  Expressions are hash-consed, so that a term stands   *)
(* for its pointer.  Binder names and styles play no part and are left     *)
(* out; a local carries its type, and two locals are the same only if      *)
(* their types are.                                                        *)
(***************************************************************************)
EXTENDS LevelTerms

Var(i) == <<"var", i>>
Sort(l) == <<"sort", l>>
Const(n, ls) == <<"const", n, ls>>
App(f, a) == <<"app", f, a>>
Bind(tag, t, b) == <<tag, t, b>>
Let(t, v, b) == <<"let", t, v, b>>
Proj(i, s) == <<"proj", i, s>>
DbjLevel(n, t) == <<"local", "dbj", n, t>>
Unique(n, t) == <<"local", "unique", n, t>>

IsBinder(e) == e[1] \in {"pi", "lam"}
IsLocal(e) == e[1] = "local"

\* Where the children of a node are, and how many binders
\* the i-th is under when the node is under offset many.
Children(e) ==
    CASE e[1] \in {"app", "pi", "lam"} -> {2, 3}
      [] e[1] = "let"  -> {2, 3, 4}
      [] e[1] = "proj" -> {3}
      [] OTHER -> {}

Below(e, i, offset) == IF (IsBinder(e) /\ i = 3) \/ (e[1] = "let" /\ i = 4) THEN offset + 1 ELSE offset

\* A loose variable of the body, seen from outside the binder.
Pred(n) == IF n = 0 THEN 0 ELSE n - 1

-----------------------------------------------------------------------------
(* What the traversals of the code make of a leaf.                         *)

\* A variable takes the substitute that many places from the end, if there is
\* one.
InstVar(e, substs, offset) ==
    LET k == e[2] - offset IN IF k < Len(substs) THEN substs[Len(substs) - k] ELSE e

\* The last position of a local in a list, as a distance from its end.
FromEnd(e, locals) ==
    Len(locals) - (CHOOSE i \in DOMAIN locals : locals[i] = e /\ \A j \in i + 1 .. Len(locals) : locals[j] # e)

AbstrLocal(e, locals, offset) ==
    IF \E i \in DOMAIN locals : locals[i] = e THEN Var(FromEnd(e, locals) + offset) ELSE e

FVarToBVar(numOpenBinders, serial) == Var(numOpenBinders - serial - 1)

\* Mutant of AbstrLevel: the bound on the levels to abstract is exclusive.
AbstrLevelAfter(e, startPos, numOpenBinders) ==
    IF e[2] = "dbj" /\ e[3] > startPos THEN FVarToBVar(numOpenBinders, e[3]) ELSE e

AbstrLevel(e, startPos, numOpenBinders) ==
    IF e[2] = "dbj" /\ e[3] >= startPos THEN FVarToBVar(numOpenBinders, e[3]) ELSE e
=============================================================================
