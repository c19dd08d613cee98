----------------------------- MODULE Quotients -----------------------------
(***************************************************************************)
(* The check of Quot, Quot.mk, Quot.lift and Quot.ind (src/src/quot.rs):   *)
(* the type that a declaration has to have is built from locals of its     *)
(* own, and compared with the declared one by a new checker.               *)
(*                                                                         *)
(* When the declarations may come, and which declaration the file gives    *)
(* their names, is in Admission.                                           *)
(***************************************************************************)
EXTENDS TypeChecker

LOCAL Fresh(k, ty) == Unique(<<"id", k>>, ty)

Prop == Sort(Zero)

\* arrow!: nothing is abstracted, no domain occurs in what follows.
Arrow(t, b) == Bind("pi", t, b)

EqExpectedType(u) ==
    LET alpha == Fresh(0, Sort(u)) IN AbstrPis(<<alpha>>, Arrow(alpha, Arrow(alpha, Prop)))

EqReflExpectedType(eq_const, u) ==
    LET alpha == Fresh(0, Sort(u))
        a == Fresh(1, alpha)
    IN AbstrPis(<<alpha, a>>, FoldlApps(eq_const, <<alpha, a, a>>))

\* The locals the four types are built from.
A == Fresh(0, Sort(Param("u")))
B == Fresh(1, Sort(Param("v")))
R == Fresh(2, Arrow(A, Arrow(A, Prop)))
F == Fresh(3, Arrow(A, B))
X == Fresh(4, A)
Y == Fresh(5, A)

QuotOf(n, args) == FoldlApps(Const(n, <<Param("u")>>), args)

\* f is the same on related values.
Respects ==
    AbstrPis(<<X, Y>>, Arrow(FoldlApps(R, <<X, Y>>),
                             FoldlApps(Const("Eq", <<Param("v")>>), <<B, App(F, X), App(F, Y)>>)))

LiftExpectedType == AbstrPis(<<A, R, B, F>>, Arrow(Respects, Arrow(QuotOf("Quot", <<A, R>>), B)))

IndExpectedType ==
    LET motive == Fresh(6, Arrow(QuotOf("Quot", <<A, R>>), Prop))
        q == Fresh(7, QuotOf("Quot", <<A, R>>))
    IN AbstrPis(<<A, R, motive>>, Arrow(AbstrPis(<<X>>, App(motive, QuotOf("Quot.mk", <<A, R, X>>))),
                                        AbstrPis(<<q>>, App(motive, q))))

QuotExpectedType(name) ==
    CASE name = "Quot" -> AbstrPis(<<A, R>>, Sort(Param("u")))
      [] name = "Quot.mk" -> AbstrPis(<<A, R>>, Arrow(A, QuotOf("Quot", <<A, R>>)))
      [] name = "Quot.lift" -> LiftExpectedType
      [] name = "Quot.ind" -> IndExpectedType

-----------------------------------------------------------------------------
(* The checks: FALSE stands for a panic.                                   *)

\* assert_closed of both, and assert_def_eq.
SameType(ty, expected) ==
    Closed(ty) /\ Closed(expected) /\ ~AssertDefEq(ty, expected, NewChecker).panicked

\* Eq is an inductive type of the prelude's form.
CheckEqType ==
    /\ IsKind("Eq", {"ind"})
    /\ Len(Env["Eq"].uparams) = 1
    /\ Env["Eq"].num_params = 2
    /\ SameType(Env["Eq"].ty, EqExpectedType(Param(Env["Eq"].uparams[1])))

CheckEqRefl ==
    LET eq_const == Const("Eq", <<Param(Env["Eq"].uparams[1])>>)
        refl == Env["Eq.refl"]
    IN /\ Env["Eq"].ctors = <<"Eq.refl">>
       /\ IsKind("Eq.refl", {"ctor"})
       /\ Len(refl.uparams) = 1
       /\ SameType(refl.ty, EqReflExpectedType(eq_const, Param(refl.uparams[1])))

CheckEq == CheckEqType /\ CheckEqRefl

\* check_quot: the name says which of the four it is.
CheckQuot(name, ty) ==
    /\ name \in {"Quot", "Quot.mk", "Quot.lift", "Quot.ind"}
    /\ name = "Quot.lift" => CheckEq
    /\ SameType(ty, QuotExpectedType(name))
=============================================================================
