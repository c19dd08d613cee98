------------------------------- MODULE Typing -------------------------------
(***************************************************************************)
(* What the type checker is compared with: typing and conversion as a      *)
(* textbook has them, over the same environment.  Everything is unfolded   *)
(* at once, nothing is remembered, terms are compared at their types, and  *)
(* the operations on literals are what their definitions compute.          *)
(*                                                                         *)
(* Going under a binder takes a local that is new at that depth.           *)
(***************************************************************************)
EXTENDS Environment

LOCAL Value(n, vs) == SubstLevelsFull(Env[n].val, [ks |-> Env[n].uparams, vs |-> vs])
LOCAL TypeOf(n, vs) == SubstLevelsFull(Env[n].ty, [ks |-> Env[n].uparams, vs |-> vs])
LOCAL Nothing == <<"nothing">>

\* A number as the constructor it stands for, a string as the list it is of.
LOCAL Unary(n) == IF n = 0 THEN Const("Nat.zero", <<>>) ELSE App(Const("Nat.succ", <<>>), NatLit(n - 1))

RECURSIVE Chars(_)
LOCAL Chars(cs) ==
    IF cs = <<>> THEN App(Const("List.nil", <<Zero>>), Const("Char", <<>>))
    ELSE FoldlApps(Const("List.cons", <<Zero>>),
                   <<Const("Char", <<>>), App(Const("Char.ofNat", <<>>), NatLit(Head(cs))), Chars(Tail(cs))>>)


IsStruct(n) == IsKind(n, {"ind"}) /\ Len(Env[n].ctors) = 1 /\ Env[n].num_indices = 0 /\ ~Env[n].is_recursive

\* The judgements that use each other, by name; defined after the last of them.
RECURSIVE Judge(_, _)
WeakHead(e) == Judge("weak_head", <<e>>)
TheType(e, k) == Judge("type", <<e, k>>)
Conv(x, y, k) == Judge("conv", <<x, y, k>>)
ConvTypes(a, b, k) == Judge("conv_types", <<a, b, k>>)
Typed(e, names, k) == Judge("typed", <<e, names, k>>)
LOCAL SameLevel(l, r) == Judge("same_level", <<l, r>>)
LOCAL SameLevels(ls, rs) == Len(ls) = Len(rs) /\ \A i \in DOMAIN ls : SameLevel(ls[i], rs[i])

\* The weak head normal form, with no literal at the head.
LOCAL Evaluated(e) ==
    LET w == WeakHead(e) IN
    CASE IsNatLit(w) -> Unary(w[2])
      [] IsStrLit(w) -> WeakHead(App(Const("String.ofList", <<>>), Chars(w[2])))
      [] OTHER -> w

NewLocal(k, ty) == Unique(<<"new", k>>, ty)
At(body, v) == Subst1(body, v)

-----------------------------------------------------------------------------
(* Reduction.                                                              *)

\* The fields a constructor's application gives to its recursor or projection.
LOCAL Fields(e) == SubSeq(Args(e), Env[Fun(e)[2]].num_params + 1, Len(Args(e)))

LOCAL MajorAt(rec) == rec.num_params + rec.num_motives + rec.num_minors + rec.num_indices + 1

\* The constructor a major premise is or, by its type alone, has to be.
LOCAL CtorAt(ctor, t, n, fields) == FoldlApps(Const(ctor, Fun(t)[3]), SubSeq(Args(t), 1, n) \o fields)

LOCAL Nullary(ctor, t) == CtorAt(ctor, t, Env[ctor].num_params, <<>>)

LOCAL EtaExpanded(ctor, t, ind, m) ==
    CtorAt(ctor, t, Env[ctor].num_params, [i \in 1 .. Env[ctor].num_fields |-> Proj(<<ind, i - 1>>, m)])

LOCAL FromType(m, t, ind, rec, k) ==
    LET ctor == Env[ind].ctors[1] IN
    IF rec.is_k /\ ConvTypes(TheType(Nullary(ctor, t), k), t, k) THEN Nullary(ctor, t)
    ELSE IF ~rec.is_k /\ IsStruct(ind) THEN EtaExpanded(ctor, t, ind, m)
    ELSE m

LOCAL AsCtor(m, t, rec, k) ==
    IF IsCtorApp(m) \/ Fun(t)[1] # "const" THEN m ELSE FromType(m, t, Fun(t)[2], rec, k)

LOCAL ApplyRule(rule, m, rec, f, args) ==
    FoldlApps(SubstLevelsFull(rule.val, [ks |-> rec.uparams, vs |-> f[3]]),
              SubSeq(args, 1, rec.num_params + rec.num_motives + rec.num_minors)
              \o Fields(m) \o SubSeq(args, MajorAt(rec) + 1, Len(args)))

LOCAL RecurseOn(m, rec, f, args) ==
    LET rules == {i \in DOMAIN rec.rec_rules : IsCtorApp(m) /\ rec.rec_rules[i].ctor = Fun(m)[2]}
    IN IF rules = {} THEN Nothing ELSE ApplyRule(rec.rec_rules[CHOOSE i \in rules : TRUE], m, rec, f, args)

LOCAL Recurse(f, args) ==
    LET rec == Env[f[2]]
        major == args[MajorAt(rec)]
    IN IF Len(args) < MajorAt(rec) THEN Nothing
       ELSE RecurseOn(AsCtor(Evaluated(major), WeakHead(TheType(major, 0)), rec, 0), rec, f, args)

LOCAL QuotStep(f, args) ==
    LET pos == IF f[2] = "Quot.lift" THEN 6 ELSE 5
        m == WeakHead(args[pos])
    IN IF Len(args) < pos \/ Fun(m) # Const("Quot.mk", Fun(m)[3]) THEN Nothing
       ELSE FoldlApps(App(args[4], m[3]), SubSeq(args, pos + 1, Len(args)))

LOCAL HeadStep(f, args) ==
    CASE f[1] = "lam" /\ args # <<>> -> FoldlApps(At(f[3], Head(args)), Tail(args))
      [] f[1] = "let" -> FoldlApps(At(f[4], f[3]), args)
      [] f[1] = "proj" ->
            LET m == Evaluated(f[3]) IN IF IsCtorApp(m) THEN FoldlApps(Fields(m)[f[2][2] + 1], args) ELSE Nothing
      [] f[1] = "const" ->
            CASE IsKind(f[2], {"def", "thm"}) -> FoldlApps(Value(f[2], f[3]), args)
              [] IsKind(f[2], {"rec"}) -> Recurse(f, args)
              [] f[2] \in {"Quot.lift", "Quot.ind"} -> QuotStep(f, args)
              [] OTHER -> Nothing
      [] OTHER -> Nothing

LOCAL WeakHeadOf(e) ==
    LET n == HeadStep(Fun(e), Args(e)) IN IF n = Nothing THEN e ELSE WeakHead(n)

-----------------------------------------------------------------------------
(* Types, of terms that have one.                                          *)

LOCAL LevelOf(ty, k) == WeakHead(TheType(ty, k))[2]

RECURSIVE FieldAt(_, _, _, _)
LOCAL FieldAt(ty, e, ind, i) ==
    LET t == WeakHead(ty) IN
    IF i = e[2][2] THEN t[2] ELSE FieldAt(At(t[3], Proj(<<ind, i>>, e[3])), e, ind, i + 1)

RECURSIVE Instantiate(_, _)
LOCAL Instantiate(ty, args) ==
    IF args = <<>> THEN ty ELSE Instantiate(At(WeakHead(ty)[3], Head(args)), Tail(args))

LOCAL TypeAt(e, k) ==
    CASE e[1] = "local" -> e[4]
      [] e[1] = "sort" -> Sort(Succ(e[2]))
      [] IsNatLit(e) -> Const("Nat", <<>>)
      [] IsStrLit(e) -> Const("String", <<>>)
      [] e[1] = "const" -> TypeOf(e[2], e[3])
      [] e[1] = "app" -> At(WeakHead(TheType(e[2], k))[3], e[3])
      [] e[1] = "pi" -> LET x == NewLocal(k, e[2])
                        IN Sort(IMax(LevelOf(e[2], k), LevelOf(At(e[3], x), k + 1)))
      [] e[1] = "lam" -> LET x == NewLocal(k, e[2])
                         IN Bind("pi", e[2], AbstrFull(TheType(At(e[3], x), k + 1), <<x>>, 0))
      [] e[1] = "let" -> TheType(At(e[4], e[3]), k)
      [] e[1] = "proj" ->
            LET t == WeakHead(TheType(e[3], k))
                ind == Fun(t)[2]
            IN FieldAt(Instantiate(TypeOf(Env[ind].ctors[1], Fun(t)[3]), SubSeq(Args(t), 1, Env[ind].num_params)),
                       e, ind, 0)

-----------------------------------------------------------------------------
(* Conversion.                                                             *)

IsProposition(ty, k) == SameLevel(LevelOf(ty, k), Zero)

\* Neutral terms, constructors and types that are not sorts or products.
LOCAL ConvSpines(x, y, k) ==
    LET f == Fun(x)
        g == Fun(y)
    IN /\ Len(Args(x)) = Len(Args(y))
       /\ \/ f = g
          \/ f[1] = "const" /\ g[1] = "const" /\ f[2] = g[2] /\ SameLevels(f[3], g[3])
          \/ f[1] = "proj" /\ g[1] = "proj" /\ f[2] = g[2] /\ Conv(f[3], g[3], k)
       /\ \A i \in DOMAIN Args(x) : Conv(Args(x)[i], Args(y)[i], k)

LOCAL ConvTypesAt(a, b, k) ==
    LET x == WeakHead(a)
        y == WeakHead(b)
        v == NewLocal(k, x[2])
    IN CASE x[1] = "sort" /\ y[1] = "sort" -> SameLevel(x[2], y[2])
         [] x[1] = "pi" /\ y[1] = "pi" -> ConvTypes(x[2], y[2], k) /\ ConvTypes(At(x[3], v), At(y[3], v), k + 1)
         [] x[1] \notin {"sort", "pi"} /\ y[1] \notin {"sort", "pi"} -> ConvSpines(x, y, k)
         [] OTHER -> FALSE

\* Two terms of one type: functions by what they do, proofs always, values of
\* structures by their fields, the rest by their weak head normal forms.
LOCAL ConvAt(x, y, t, k) ==
    LET v == NewLocal(k, t[2])
        ind == Fun(t)[2]
    IN CASE t[1] = "sort" -> ConvTypes(x, y, k)
         [] IsProposition(t, k) -> TRUE
         [] t[1] = "pi" -> Conv(App(x, v), App(y, v), k + 1)
         [] Fun(t)[1] = "const" /\ IsStruct(ind) ->
               \A i \in 0 .. Env[Env[ind].ctors[1]].num_fields - 1 : Conv(Proj(<<ind, i>>, x), Proj(<<ind, i>>, y), k)
         [] OTHER -> ConvSpines(Evaluated(x), Evaluated(y), k)

LOCAL ConvTerms(x, y, k) ==
    LET t == TheType(x, k) IN
    x = y \/ (ConvTypes(t, TheType(y, k), k) /\ ConvAt(x, y, WeakHead(t), k))

\* Typing itself, for terms whose universe parameters are among those given.
LOCAL IsType(e, names, k) == Typed(e, names, k) /\ WeakHead(TheType(e, k))[1] = "sort"

LOCAL IsTyped(e, names, k) ==
    CASE IsLocal(e) \/ IsLit(e) -> TRUE
      [] e[1] = "sort" -> AllUParamsDefined(e[2], names)
      [] e[1] = "const" ->
            /\ e[2] \in DOMAIN Env
            /\ Len(e[3]) = Len(Env[e[2]].uparams)
            /\ \A i \in DOMAIN e[3] : AllUParamsDefined(e[3][i], names)
      [] e[1] = "app" ->
            /\ Typed(e[2], names, k) /\ Typed(e[3], names, k)
            /\ LET t == WeakHead(TheType(e[2], k)) IN t[1] = "pi" /\ ConvTypes(t[2], TheType(e[3], k), k)
      [] IsBinder(e) ->
            /\ IsType(e[2], names, k)
            /\ LET b == At(e[3], NewLocal(k, e[2]))
               IN IF e[1] = "pi" THEN IsType(b, names, k + 1) ELSE Typed(b, names, k + 1)
      [] e[1] = "let" ->
            /\ IsType(e[2], names, k) /\ Typed(e[3], names, k)
            /\ ConvTypes(e[2], TheType(e[3], k), k)
            /\ Typed(At(e[4], e[3]), names, k)
      [] e[1] = "proj" ->
            /\ Typed(e[3], names, k)
            /\ LET t == WeakHead(TheType(e[3], k))
                   n == Fun(t)[2]
               IN /\ Fun(t)[1] = "const" /\ IsKind(n, {"ind"})
                  /\ Len(Env[n].ctors) = 1 /\ Env[n].num_indices = 0
                  /\ e[2][2] < Env[Env[n].ctors[1]].num_fields
                  /\ IsProposition(t, k) =>
                        IsProposition(TheType(e, k), k) /\ Typed(TheType(e, k), names, k)
      [] OTHER -> FALSE

-----------------------------------------------------------------------------
(* The types of the quotient primitives, and of the equality they rest on. *)

LOCAL Apply(f, vars) == FoldlApps(f, [i \in DOMAIN vars |-> Var(vars[i])])
LOCAL Product(t, b) == Bind("pi", t, b)
LOCAL Prop == Sort(Zero)
LOCAL Relation == Product(Var(0), Product(Var(1), Prop))

\* Pi (a b : A), r a b -> f a = f b, under A, r, B and f.
LOCAL Respectful ==
    Product(Var(3), Product(Var(4), Product(Apply(Var(4), <<1, 0>>),
        FoldlApps(Const("Eq", <<Param("v")>>), <<Var(4), App(Var(3), Var(2)), App(Var(3), Var(1))>>))))

QuotType(name) ==
    LET S(u, b) == Product(Sort(Param(u)), b)
        Q(a, r) == Apply(Const("Quot", <<Param("u")>>), <<a, r>>)
    IN CASE name = "Quot" -> S("u", Product(Relation, Sort(Param("u"))))
         [] name = "Quot.mk" -> S("u", Product(Relation, Product(Var(1), Q(2, 1))))
         [] name = "Quot.lift" ->
               S("u", Product(Relation, S("v", Product(Product(Var(2), Var(1)),
                   Product(Respectful, Product(Q(4, 3), Var(3)))))))
         [] name = "Quot.ind" ->
               S("u", Product(Relation, Product(Product(Q(1, 0), Prop),
                   Product(Product(Var(2), App(Var(1), Apply(Const("Quot.mk", <<Param("u")>>), <<3, 2, 0>>))),
                           Product(Q(3, 2), App(Var(2), Var(0)))))))

EqType(u) == Product(Sort(Param(u)), Product(Var(0), Product(Var(1), Prop)))
EqReflType(u) == Product(Sort(Param(u)), Product(Var(0), Apply(Const("Eq", <<Param(u)>>), <<1, 0, 0>>)))

\* The environment has an equality, and reflexivity is all there is to it.
EqIsEquality ==
    /\ IsKind("Eq", {"ind"}) /\ IsKind("Eq.refl", {"ctor"})
    /\ Env["Eq"].ctors = <<"Eq.refl">> /\ Env["Eq"].num_params = 2
    /\ Env["Eq.refl"].uparams = Env["Eq"].uparams
    /\ \E u \in {"u", "v"} :
          /\ Env["Eq"].uparams = <<u>>
          /\ ConvTypes(Env["Eq"].ty, EqType(u), 0)
          /\ ConvTypes(Env["Eq.refl"].ty, EqReflType(u), 0)

Judge(judgement, a) ==
    CASE judgement = "weak_head" -> WeakHeadOf(a[1])
      [] judgement = "type" -> TypeAt(a[1], a[2])
      [] judgement = "conv" -> ConvTerms(a[1], a[2], a[3])
      [] judgement = "conv_types" -> ConvTypesAt(a[1], a[2], a[3])
      [] judgement = "typed" -> IsTyped(a[1], a[2], a[3])
      [] judgement = "same_level" -> EqAntisymm(a[1], a[2]) = "yes"
=============================================================================
