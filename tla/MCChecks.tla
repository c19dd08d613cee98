------------------------------ MODULE MCChecks ------------------------------
(* A small environment with every kind of declaration, and calls about it.  *)
EXTENDS Checks

K(n) == Const(n, <<>>)
Prop == Sort(Zero)
Type == Sort(One)
U == Param("u")
W == Param("v")
Pi(t, b) == Bind("pi", t, b)
Lam(t, b) == Bind("lam", t, b)
\* A product whose body does not use it, b without loose variables.
Arrow(t, b) == Pi(t, b)
Ap2(f, x, y) == App(App(f, x), y)
Ap3(f, x, y, z) == App(Ap2(f, x, y), z)

Axiom(ty) == [kind |-> "axiom", uparams |-> <<>>, ty |-> ty]
Prim(us, ty) == [kind |-> "quot", uparams |-> us, ty |-> ty]
Def(us, ty, val, hint, h) == [kind |-> "def", uparams |-> us, ty |-> ty, val |-> val, hint |-> hint, h |-> h]
Thm(ty, val) == [kind |-> "thm", uparams |-> <<>>, ty |-> ty, val |-> val]
Ind(us, ty, np, ni, ctors, isrec) ==
    [kind |-> "ind", uparams |-> us, ty |-> ty, num_params |-> np, num_indices |-> ni, ctors |-> ctors,
     is_recursive |-> isrec]
Ctor(us, ty, ind, np, nf) ==
    [kind |-> "ctor", uparams |-> us, ty |-> ty, inductive |-> ind, num_params |-> np, num_fields |-> nf]
Rec(us, ty, np, nm, nmin, ni, rules, isk) ==
    [kind |-> "rec", uparams |-> us, ty |-> ty, num_params |-> np, num_motives |-> nm, num_minors |-> nmin,
     num_indices |-> ni, rec_rules |-> rules, is_k |-> isk]
Rule(ctor, n, val) == [ctor |-> ctor, nfields |-> n, val |-> val]

A == K("A")
a == K("a")
b == K("b")
p == K("p")
NatT == K("Nat")
Bool == K("Bool")
N0 == NatZero
N1 == App(NatSucc, N0)
Char == K("Char")
ListOf(ty) == App(Const("List", <<Zero>>), ty)

Axioms ==
    "A" :> Axiom(Type) @@ "a" :> Axiom(A) @@ "b" :> Axiom(A) @@ "f" :> Axiom(Arrow(A, A))
    @@ "p" :> Axiom(Prop) @@ "h1" :> Axiom(p) @@ "h2" :> Axiom(p) @@ "g" :> Axiom(Arrow(p, A))
    @@ "q" :> Axiom(Arrow(A, Prop)) @@ "qa" :> Axiom(App(K("q"), a))
    @@ "T" :> Axiom(Arrow(Bool, Prop)) @@ "t0" :> Axiom(App(K("T"), BoolOf(TRUE)))
    @@ "useT" :> Axiom(Pi(Bool, Arrow(App(K("T"), App(K("tt"), Var(0))), p)))
    @@ "c" :> Axiom(K("P2")) @@ "u1" :> Axiom(K("Unit")) @@ "s1" :> Axiom(K("Sub")) @@ "e1" :> Axiom(K("Ex"))
    @@ "Char" :> Axiom(Type) @@ "Char.ofNat" :> Axiom(Arrow(NatT, Char)) @@ "s" :> Axiom(K("String"))
    @@ "hF" :> Axiom(Pi(A, App(K("F"), Var(0))))
    @@ "k" :> Axiom(Ap3(Const("Eq", <<One>>), A, a, a)) @@ "kb" :> Axiom(Ap3(Const("Eq", <<One>>), A, a, b))

Defs ==
    "id" :> Def(<<"u">>, Pi(Sort(U), Pi(Var(0), Var(1))), Lam(Sort(U), Lam(Var(0), Var(0))), "regular", 1)
    @@ "eagerReduce" :> Def(<<"u">>, Pi(Sort(U), Pi(Var(0), Var(1))), Lam(Sort(U), Lam(Var(0), Var(0))), "abbrev", 0)
    @@ "a1" :> Def(<<>>, A, Ap2(Const("id", <<One>>), A, a), "regular", 2)
    @@ "a2" :> Def(<<>>, A, K("a1"), "abbrev", 0)
    @@ "fa" :> Def(<<>>, Arrow(A, A), Lam(A, App(K("f"), Var(0))), "regular", 1)
    @@ "F" :> Def(<<>>, Arrow(A, Prop), Lam(A, Arrow(A, App(K("q"), Var(1)))), "regular", 1)
    @@ "S" :> Def(<<"u">>, Arrow(A, Sort(Succ(U))), Lam(A, Sort(U)), "regular", 1)
    @@ "swap" :> Def(<<>>, Arrow(K("P2"), K("P2")),
                     Lam(K("P2"), Ap2(K("mk"), Proj(<<"P2", 1>>, Var(0)), Proj(<<"P2", 0>>, Var(0)))), "regular", 1)
    @@ "not" :> Def(<<>>, Arrow(Bool, Bool),
                    Lam(Bool, App(Ap3(Const("Bool.rec", <<One>>), Lam(Bool, Bool), BoolOf(TRUE), BoolOf(FALSE)),
                                  Var(0))), "regular", 1)
    @@ "tt" :> Def(<<>>, Arrow(Bool, Bool), Lam(Bool, BoolOf(TRUE)), "opaque", 0)
    @@ "Nat.add" :> Def(<<>>, Arrow(NatT, Arrow(NatT, NatT)),
                        Lam(NatT, Lam(NatT, App(Ap3(Const("Nat.rec", <<One>>), Lam(NatT, NatT), Var(1),
                                                  Lam(NatT, Lam(NatT, App(NatSucc, Var(0))))), Var(0)))), "regular", 1)
    @@ "thm" :> Thm(p, K("h1"))
    @@ "String.ofList" :> Def(<<>>, Arrow(ListOf(Char), K("String")), Lam(ListOf(Char), App(K("String.mk"), Var(0))),
                              "regular", 1)

\* The operations on numbers, by recursion on one of them (n) into ty.
NatRecInto(ty, zero, succ, n) ==
    App(Ap3(Const("Nat.rec", <<One>>), Lam(NatT, ty), zero, Lam(NatT, Lam(ty, succ))), n)
IfInto(ty, cond, then, else) == App(Ap3(Const("Bool.rec", <<One>>), Lam(Bool, ty), else, then), cond)
Fun2(ty, body) == Def(<<>>, Arrow(NatT, Arrow(NatT, ty)), Lam(NatT, Lam(NatT, body)), "regular", 2)
Op(op, x, y) == Ap2(K(op), x, y)
NatToBool == Arrow(NatT, Bool)
NatToNat2 == Arrow(NatT, Arrow(NatT, NatT))
Two == App(NatSucc, N1)

\* Bit by bit, with the sum of the two for fuel.
Bits(low) ==
    Fun2(NatT, Ap2(NatRecInto(NatToNat2, Lam(NatT, Lam(NatT, N0)),
        Lam(NatT, Lam(NatT, Op("Nat.add", Op("Nat.mul", Two, Ap2(Var(2), Op("Nat.div", Var(1), Two), Op("Nat.div", Var(0), Two))),
                                         App(App(low, Op("Nat.mod", Var(1), Two)), Op("Nat.mod", Var(0), Two))))),
        Op("Nat.add", Var(1), Var(0))), Var(1), Var(0)))

NatDefs ==
    "Nat.pred" :> Def(<<>>, Arrow(NatT, NatT), Lam(NatT, NatRecInto(NatT, N0, Var(1), Var(0))), "regular", 1)
    @@ "Nat.sub" :> Fun2(NatT, NatRecInto(NatT, Var(1), App(K("Nat.pred"), Var(0)), Var(0)))
    @@ "Nat.mul" :> Fun2(NatT, NatRecInto(NatT, N0, Op("Nat.add", Var(0), Var(3)), Var(0)))
    @@ "Nat.pow" :> Fun2(NatT, NatRecInto(NatT, N1, Op("Nat.mul", Var(0), Var(3)), Var(0)))
    @@ "Nat.beq" :> Fun2(Bool, App(NatRecInto(NatToBool,
            Lam(NatT, NatRecInto(Bool, BoolOf(TRUE), BoolOf(FALSE), Var(0))),
            Lam(NatT, NatRecInto(Bool, BoolOf(FALSE), App(Var(3), Var(1)), Var(0))), Var(1)), Var(0)))
    @@ "Nat.ble" :> Fun2(Bool, Op("Nat.beq", Op("Nat.sub", Var(1), Var(0)), N0))
    @@ "Nat.mod" :> Fun2(NatT, NatRecInto(NatT, N0,
            IfInto(NatT, Op("Nat.beq", App(NatSucc, Var(0)), Var(2)), N0, App(NatSucc, Var(0))), Var(1)))
    @@ "Nat.div" :> Fun2(NatT, NatRecInto(NatT, N0,
            IfInto(NatT, Op("Nat.beq", App(NatSucc, Op("Nat.mod", Var(1), Var(2))), Var(2)), App(NatSucc, Var(0)), Var(0)),
            Var(1)))
    @@ "Nat.gcd" :> Fun2(NatT, Ap2(NatRecInto(NatToNat2, Lam(NatT, Lam(NatT, Var(0))),
            Lam(NatT, Lam(NatT, IfInto(NatT, Op("Nat.beq", Var(1), N0), Var(0),
                                       Ap2(Var(2), Op("Nat.mod", Var(0), Var(1)), Var(1))))), App(NatSucc, Var(1))),
            Var(1), Var(0)))
    @@ "Nat.land" :> Bits(K("Nat.mul"))
    @@ "Nat.lor" :> Bits(Lam(NatT, Lam(NatT, Op("Nat.sub", Op("Nat.add", Var(1), Var(0)), Op("Nat.mul", Var(1), Var(0))))))
    @@ "Nat.xor" :> Bits(Lam(NatT, Lam(NatT, Op("Nat.mod", Op("Nat.add", Var(1), Var(0)), Two))))
    @@ "Nat.shiftLeft" :> Fun2(NatT, Op("Nat.mul", Var(1), Op("Nat.pow", Two, Var(0))))
    @@ "Nat.shiftRight" :> Fun2(NatT, Op("Nat.div", Var(1), Op("Nat.pow", Two, Var(0))))

NatRecArgs == <<Var(3), Var(2), Var(1), Var(0)>>

NatRec ==
    LET M == Arrow(NatT, Sort(W))
        Step(m) == Pi(NatT, Pi(App(Var(m + 1), Var(0)), App(Var(m + 2), App(NatSucc, Var(1)))))
    IN Rec(<<"v">>,
           Pi(M, Pi(App(Var(0), N0), Pi(Step(1), Pi(NatT, App(Var(3), Var(0)))))), 0, 1, 2, 0,
           <<Rule("Nat.zero", 0, Lam(M, Lam(App(Var(0), N0), Lam(Step(1), Var(1))))),
             Rule("Nat.succ", 1,
                  Lam(M, Lam(App(Var(0), N0), Lam(Step(1), Lam(NatT,
                      Ap2(Var(1), Var(0), FoldlApps(Const("Nat.rec", <<W>>), NatRecArgs)))))))>>, FALSE)

EqRec ==
    LET EqOf(ty, x, y) == Ap3(Const("Eq", <<U>>), ty, x, y)
        M == Pi(Var(1), Pi(EqOf(Var(2), Var(1), Var(0)), Sort(W)))
        Minor == Ap2(Var(0), Var(1), Ap2(Const("Eq.refl", <<U>>), Var(2), Var(1)))
    IN Rec(<<"v", "u">>,
           Pi(Sort(U), Pi(Var(0), Pi(M, Pi(Minor, Pi(Var(3), Pi(EqOf(Var(4), Var(3), Var(0)),
              Ap2(Var(3), Var(1), Var(0)))))))), 2, 1, 1, 1,
           <<Rule("Eq.refl", 0, Lam(Sort(U), Lam(Var(0), Lam(M, Lam(Minor, Var(0))))))>>, TRUE)

ListDecls ==
    LET L(i) == App(Const("List", <<U>>), Var(i)) IN
    "List" :> Ind(<<"u">>, Arrow(Sort(Succ(U)), Sort(Succ(U))), 1, 0, <<"List.nil", "List.cons">>, TRUE)
    @@ "List.nil" :> Ctor(<<"u">>, Pi(Sort(Succ(U)), L(0)), "List", 1, 0)
    @@ "List.cons" :> Ctor(<<"u">>, Pi(Sort(Succ(U)), Pi(Var(0), Pi(L(1), L(2)))), "List", 1, 2)

StringDecls ==
    LET M == Arrow(K("String"), Sort(W))
        Minor == Pi(ListOf(Char), App(Var(1), App(K("String.mk"), Var(0))))
    IN "String" :> Ind(<<>>, Type, 0, 0, <<"String.mk">>, FALSE)
       @@ "String.mk" :> Ctor(<<>>, Arrow(ListOf(Char), K("String")), "String", 0, 1)
       @@ "String.rec" :> Rec(<<"v">>, Pi(M, Pi(Minor, Pi(K("String"), App(Var(2), Var(0))))), 0, 1, 1, 0,
                              <<Rule("String.mk", 1, Lam(M, Lam(Minor, Lam(ListOf(Char), App(Var(1), Var(0))))))>>, FALSE)

Inductives ==
    "P2" :> Ind(<<>>, Type, 0, 0, <<"mk">>, FALSE) @@ "mk" :> Ctor(<<>>, Arrow(A, Arrow(A, K("P2"))), "P2", 0, 2)
    @@ "Unit" :> Ind(<<>>, Type, 0, 0, <<"star">>, FALSE) @@ "star" :> Ctor(<<>>, K("Unit"), "Unit", 0, 0)
    @@ "Sub" :> Ind(<<>>, Type, 0, 0, <<"submk">>, FALSE)
    @@ "submk" :> Ctor(<<>>, Pi(A, Arrow(App(K("q"), Var(0)), K("Sub"))), "Sub", 0, 2)
    @@ "Ex" :> Ind(<<>>, Prop, 0, 0, <<"exmk">>, FALSE)
    @@ "exmk" :> Ctor(<<>>, Pi(A, Arrow(App(K("q"), Var(0)), K("Ex"))), "Ex", 0, 2)
    @@ "Bool" :> Ind(<<>>, Type, 0, 0, <<"Bool.false", "Bool.true">>, FALSE)
    @@ "Bool.false" :> Ctor(<<>>, Bool, "Bool", 0, 0) @@ "Bool.true" :> Ctor(<<>>, Bool, "Bool", 0, 0)
    @@ "Bool.rec" :> Rec(<<"v">>,
            Pi(Arrow(Bool, Sort(W)), Pi(App(Var(0), BoolOf(FALSE)), Pi(App(Var(1), BoolOf(TRUE)),
               Pi(Bool, App(Var(3), Var(0)))))), 0, 1, 2, 0,
            <<Rule("Bool.false", 0, Lam(Arrow(Bool, Sort(W)), Lam(App(Var(0), BoolOf(FALSE)),
                                        Lam(App(Var(1), BoolOf(TRUE)), Var(1))))),
              Rule("Bool.true", 0, Lam(Arrow(Bool, Sort(W)), Lam(App(Var(0), BoolOf(FALSE)),
                                       Lam(App(Var(1), BoolOf(TRUE)), Var(0)))))>>, FALSE)
    @@ "Nat" :> Ind(<<>>, Type, 0, 0, <<"Nat.zero", "Nat.succ">>, TRUE)
    @@ "Nat.zero" :> Ctor(<<>>, NatT, "Nat", 0, 0) @@ "Nat.succ" :> Ctor(<<>>, Arrow(NatT, NatT), "Nat", 0, 1)
    @@ "Nat.rec" :> NatRec
    @@ "Eq" :> Ind(<<"u">>, Pi(Sort(U), Pi(Var(0), Pi(Var(1), Prop))), 2, 1, <<"Eq.refl">>, FALSE)
    @@ "Eq.refl" :> Ctor(<<"u">>, Pi(Sort(U), Pi(Var(0), Ap3(Const("Eq", <<U>>), Var(1), Var(0), Var(0)))), "Eq", 2, 0)
    @@ "Eq.rec" :> EqRec

Quots ==
    "Quot" :> Prim(<<"u">>, QuotType("Quot")) @@ "Quot.mk" :> Prim(<<"u">>, QuotType("Quot.mk"))
    @@ "Quot.lift" :> Prim(<<"u", "v">>, QuotType("Quot.lift")) @@ "Quot.ind" :> Prim(<<"u">>, QuotType("Quot.ind"))

MCEnv == LET env == Axioms @@ Defs @@ NatDefs @@ ListDecls @@ StringDecls @@ Inductives @@ Quots IN env

-----------------------------------------------------------------------------
IdA(x) == Ap2(Const("id", <<One>>), A, x)
Fst(x) == Proj(<<"P2", 0>>, x)
Snd(x) == Proj(<<"P2", 1>>, x)
Mk(x, y) == Ap2(K("mk"), x, y)
FF(x) == App(K("f"), x)
GG(h) == App(K("g"), h)
Add(x, y) == Ap2(K("Nat.add"), x, y)
Cast(ty, x, to, e) ==
    FoldlApps(Const("Eq.rec", <<One, One>>), <<A, a, Lam(A, Lam(Ap3(Const("Eq", <<One>>), A, a, Var(0)), ty)), x, to, e>>)
CastType(to, e) ==
    FoldlApps(Const("Eq.rec", <<Succ(One), One>>),
              <<A, a, Lam(A, Lam(Ap3(Const("Eq", <<One>>), A, a, Var(0)), Type)), A, to, e>>)
Rel == Lam(A, Lam(A, p))
LiftA ==
    FoldlApps(Const("Quot.lift", <<One, One>>),
              <<A, Rel, A, Lam(A, a), Lam(A, Lam(A, Lam(p, Ap2(Const("Eq.refl", <<One>>), A, a)))),
                Ap3(Const("Quot.mk", <<One>>), A, Rel, b)>>)

\* A redex whose contractum is a projection that is stuck unless swap unfolds.
ByBeta == App(Lam(K("P2"), Fst(Var(0))), App(K("swap"), Mk(b, a)))

TermsA ==
    {a, b, K("a1"), K("a2"), IdA(a), IdA(b), IdA(K("a2")), FF(a), FF(K("a1")), App(K("fa"), a),
     GG(K("h1")), GG(K("h2")), GG(K("thm")), Fst(K("c")), Fst(Mk(a, b)), Fst(App(K("swap"), Mk(b, a))),
     Fst(App(K("swap"), K("c"))), Snd(K("c")), Proj(<<"Sub", 0>>, K("s1")),
     ByBeta, Cast(A, a, a, K("k")), Cast(A, a, b, K("kb")), LiftA, Let(A, a, App(K("fa"), Var(0)))}
TermsFun == {K("f"), K("fa"), Lam(A, App(K("f"), Var(0))), Lam(A, Var(0))}
TermsP2 == {K("c"), Mk(Fst(K("c")), Snd(K("c"))), Mk(a, b), App(K("swap"), App(K("swap"), K("c"))), App(K("swap"), Mk(b, a))}
TermsUnit == {K("u1"), K("star")}
TermsNat == {N0, N1, NatLit(0), NatLit(1), NatLit(2), Add(NatLit(1), NatLit(1)), Add(N1, N1), App(NatSucc, NatLit(1)),
             Add(N0, NatLit(1))}
\* Every operation where its result is easy to get wrong: below zero, by zero,
\* at the boundary of a remainder.
TermsNatOps ==
    {Op("Nat.sub", NatLit(1), NatLit(2)), Op("Nat.mul", NatLit(2), NatLit(0)),
     Op("Nat.pow", NatLit(0), NatLit(0)), Op("Nat.pow", NatLit(0), NatLit(1)), Op("Nat.div", NatLit(2), NatLit(0)),
     Op("Nat.mod", NatLit(2), NatLit(0)), Op("Nat.mod", NatLit(2), NatLit(2)), Op("Nat.div", NatLit(2), NatLit(2)),
     Op("Nat.gcd", NatLit(0), NatLit(2)), Op("Nat.gcd", NatLit(2), NatLit(1)), Op("Nat.land", NatLit(1), NatLit(3)),
     Op("Nat.lor", NatLit(2), NatLit(0)), Op("Nat.xor", NatLit(1), NatLit(3)), Op("Nat.shiftLeft", NatLit(1), NatLit(1)),
     Op("Nat.shiftRight", NatLit(1), NatLit(1))}
StrOf(cs) == App(K("String.mk"), SE!FoldRight(LAMBDA c, rest : FoldlApps(Const("List.cons", <<Zero>>),
                     <<Char, App(K("Char.ofNat"), c), rest>>), cs, App(Const("List.nil", <<Zero>>), Char)))
CharsOf(s) == Proj(<<"String", 0>>, s)
TermsString ==
    {StrLit(<<>>), StrLit(<<1>>), StrLit(<<0, 1>>), StrOf(<<>>), StrOf(<<NatLit(0), N1>>),
     App(K("String.ofList"), CharsOf(StrLit(<<1>>))), K("s"), App(K("String.mk"), CharsOf(K("s")))}
TermsList ==
    {CharsOf(StrLit(<<>>)), CharsOf(StrLit(<<1>>)), CharsOf(StrOf(<<N1>>)), CharsOf(K("s")),
     App(Ap2(Const("String.rec", <<One>>), Lam(K("String"), ListOf(Char)), Lam(ListOf(Char), Var(0))), StrLit(<<1>>))}
TermsBool == {BoolOf(TRUE), BoolOf(FALSE), App(K("not"), BoolOf(FALSE)), App(K("tt"), BoolOf(FALSE)),
              Lam(Bool, App(K("tt"), Var(0))), Lam(Bool, BoolOf(TRUE)), Lam(Bool, Var(0)),
              Lam(Bool, App(K("not"), App(K("not"), Var(0))))}
TermsType == {A, CastType(a, K("k")), CastType(b, K("kb")), App(Const("S", <<Zero>>), a), App(Const("S", <<One>>), a),
              App(Const("S", <<Zero>>), K("a1")), Prop, Arrow(A, A), App(K("F"), a), Arrow(A, App(K("q"), a)),
              Arrow(A, Arrow(A, p)), Arrow(A, Arrow(Bool, p))}
TermsProof == {K("h1"), K("h2"), K("thm"), K("qa"), K("e1"), App(K("hF"), a)}

Groups == {TermsA, TermsFun, TermsP2, TermsUnit, TermsNat, TermsString, TermsList, TermsBool, TermsType, TermsProof}
Terms == UNION Groups

\* An argument of type T (tt x) given as a proof of T Bool.true, checked eagerly.
Eager(h) == Lam(Bool, Ap2(K("useT"), Var(0), Ap2(Const("eagerReduce", <<Zero>>), App(K("T"), BoolOf(TRUE)), K(h))))

More ==
    {App(App(K("hF"), a), b), Ap2(K("useT"), BoolOf(TRUE), K("t0")), Eager("t0"),
     Proj(<<"Sub", 1>>, K("s1")), Const("id", <<U>>), Sort(U), Pi(Sort(U), Var(0)),
     Let(Type, A, Lam(Var(0), Var(0)))}

IllTyped ==
    {FF(K("h1")), App(a, a), Proj(<<"Ex", 0>>, K("e1")), Proj(<<"Ex", 1>>, K("e1")), Const("id", <<>>), Sort(Param("w")),
     Lam(FF(K("h1")), Var(0)), GG(K("t0")), Let(A, K("h1"), a),
     App(App(K("hF"), a), K("h1")),
     Eager("h1")}

-----------------------------------------------------------------------------
(* Quotient primitives: the types of the four, the same ones written with *)
(* a redex, and types that are one mistake away.                           *)

QuotNames == {"Quot", "Quot.mk", "Quot.lift", "Quot.ind"}
Relation == Pi(Var(0), Pi(Var(1), Prop))
QuotOf(x, r) == Ap2(Const("Quot", <<U>>), Var(x), Var(r))
Redex == App(Lam(Type, Sort(U)), A)
Lift(hypothesis, i) ==
    Pi(Sort(U), Pi(Relation, Pi(Sort(W), Pi(Pi(Var(2), Var(1)), Pi(hypothesis, Pi(QuotOf(4, 3), Var(i)))))))
Hypothesis(related, x, y) ==
    Pi(Var(3), Pi(Var(4), Pi(related, Ap3(Const("Eq", <<W>>), Var(4), App(Var(3), Var(x)), App(Var(3), Var(y))))))
Induct(motive, minor, q) == Pi(Sort(U), Pi(Relation, Pi(motive, Pi(minor, Pi(QuotOf(3, 2), App(Var(2), q))))))
MkApp == Ap3(Const("Quot.mk", <<U>>), Var(3), Var(2), Var(0))

QuotMistakes ==
    {Pi(Redex, Pi(Relation, Sort(U))), Pi(Sort(U), Pi(Relation, Sort(W))), Pi(Sort(U), Pi(Pi(Var(0), Prop), Sort(U))),
     Pi(Sort(U), Pi(Pi(Var(0), Pi(Var(1), Type)), Sort(U))), Pi(Sort(U), Pi(Relation, Var(1))),
     Pi(Sort(U), Pi(Relation, Pi(Var(1), QuotOf(2, 0)))), Pi(Sort(U), Pi(Relation, Var(2))),
     Lift(Hypothesis(Ap2(Var(4), Var(1), Var(0)), 2, 1), 5), Lift(Hypothesis(Ap2(Var(4), Var(0), Var(1)), 2, 1), 3),
     Lift(Hypothesis(Ap2(Var(4), Var(1), Var(0)), 2, 2), 3),
     Pi(Sort(U), Pi(Relation, Pi(Sort(W), Pi(Pi(Var(2), Var(1)), Pi(QuotOf(3, 2), Var(2)))))),
     Induct(Pi(QuotOf(1, 0), Sort(W)), Pi(Var(2), App(Var(1), MkApp)), Var(0)),
     Induct(Pi(QuotOf(1, 0), Prop), Pi(QuotOf(2, 1), App(Var(1), Var(0))), Var(0))}

\* Environments whose equality is another one.
Loop == Pi(Sort(U), Pi(Var(0), Pi(Var(1), Ap3(Const("Eq", <<U>>), Var(2), Var(1), Var(0)))))
EqMistakes ==
    {"Eq" :> Axiom(Inductives["Eq"].ty), "Eq" :> [Inductives["Eq"] EXCEPT !.uparams = <<"u", "v">>],
     "Eq" :> [Inductives["Eq"] EXCEPT !.num_params = 1], "Eq" :> [Inductives["Eq"] EXCEPT !.ctors = <<"Eq.all">>],
     "Eq" :> [Inductives["Eq"] EXCEPT !.ctors = <<"Eq.refl", "Eq.all">>],
     "Eq" :> [Inductives["Eq"] EXCEPT !.ty = Pi(Sort(U), Pi(Var(0), Pi(Var(1), Type)))],
     "Eq.refl" :> [Inductives["Eq.refl"] EXCEPT !.ty = Loop], "Eq.refl" :> Axiom(Inductives["Eq.refl"].ty),
     \* Written with another universe name, and still equality.
     ("Eq" :> [Inductives["Eq"] EXCEPT !.uparams = <<"v">>, !.ty = EqType("v")])
     @@ ("Eq.refl" :> [Inductives["Eq.refl"] EXCEPT !.uparams = <<"v">>, !.ty = EqReflType("v")])}

QuotCall(name, ty, with) == [op |-> "check_quot", name |-> name, ty |-> ty, with |-> with]

MCQuotCalls ==
    {QuotCall(n, ty, <<>>) : n \in QuotNames \cup {"Quot.sound"},
                             ty \in {QuotType(m) : m \in QuotNames} \cup QuotMistakes}
    \cup {QuotCall("Quot.lift", QuotType("Quot.lift"), with) : with \in EqMistakes}
    \cup {QuotCall("Quot.ind", QuotType("Quot.ind"), with) : with \in EqMistakes}

-----------------------------------------------------------------------------
MCCalls ==
    MCQuotCalls \cup
    UNION {[op : {"def_eq"}, x : g, y : g] : g \in Groups}
    \cup [op : {"def_eq"}, x : TermsNatOps, y : {NatLit(1)}]
    \cup [op : {"infer"}, e : Terms \cup More, flag : {"check", "infer_only"}]
    \cup [op : {"infer"}, e : IllTyped, flag : {"check"}]
    \cup [op : {"infer"}, e : {FF(K("h1"))}, flag : {"infer_only"}]
    \cup [op : {"whnf"}, e : Terms \cup TermsNatOps]
    \cup [op : {"check_declar"}, ty : {A, CastType(b, K("kb")), CastType(a, K("k"))}, val : {a, K("h1"), K("a2")},
          is_theorem : BOOLEAN]
    \cup [op : {"check_declar"}, ty : {p, App(K("F"), a), a}, val : {K("thm"), App(K("hF"), a), a}, is_theorem : BOOLEAN]

EqCall(x, y) == [op |-> "def_eq", x |-> x, y |-> y]
InferCall(e, flag) == [op |-> "infer", e |-> e, flag |-> flag]

MCLater ==
    {EqCall(IdA(a), IdA(b)), EqCall(K("a2"), IdA(a)), EqCall(GG(K("h1")), GG(K("thm"))),
     EqCall(Fst(App(K("swap"), K("c"))), Snd(K("c"))), EqCall(Cast(A, a, b, K("kb")), a),
     EqCall(App(K("swap"), App(K("swap"), K("c"))), K("c")), EqCall(App(Const("S", <<Zero>>), a), Prop),
     InferCall(FF(K("h1")), "check"), InferCall(Eager("t0"), "check"), InferCall(App(K("hF"), a), "check"),
     [op |-> "whnf", e |-> ByBeta],
     [op |-> "check_declar", ty |-> App(K("F"), a), val |-> App(K("hF"), a), is_theorem |-> TRUE]}
=============================================================================
