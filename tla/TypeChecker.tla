---------------------------- MODULE TypeChecker ----------------------------
(***************************************************************************)
(* TypeChecker (src/src/tc.rs): inference, weak head reduction and         *)
(* definitional equality, which call each other and share one set of       *)
(* caches, the counter of open binders and the eager mode.                 *)
(*                                                                         *)
(* An operation takes the state of the checker and returns its result with *)
(* the state it leaves, [r, s].  A panic ends the check: the state is      *)
(* marked and every operation that is entered in a marked state does       *)
(* nothing, so that what is computed from its result has no effect.        *)
(*                                                                         *)
(* The file names everything that literals are expanded with.  The u16     *)
(* bounds are left out, and so are the caches of the traversals of         *)
(* ExprTerms.                                                              *)
(***************************************************************************)
EXTENDS Environment, Bitwise

CONSTANTS
    DeclUparams,    \* the universe parameters of the declaration being checked
    NatExtension,   \* config.nat_extension
    StringExtension \* config.string_extension

SE == INSTANCE SequencesExt

None == <<"none">>
Bad == <<"panic">>
IsConst(e, n) == e[1] = "const" /\ e[2] = n

SubstLevels(e, ks, vs) == SubstExprLevels(e, [ks |-> ks, vs |-> vs])

Closed(e) == ~HasFVars(e) /\ NumLooseBVars(e) = 0

\* The product over a local, and over a list of them, outermost first.
AbstrPi(x, body) == Bind("pi", x[4], Abstr(body, <<x>>))
AbstrPis(xs, body) == SE!FoldRight(AbstrPi, xs, body)

NoEntries == [k \in {} |-> None]

NewCache == [infer_check |-> NoEntries, infer_no_check |-> NoEntries, whnf |-> NoEntries,
             whnf_no_unfolding |-> NoEntries, eq |-> {}, congr_fail |-> {}, defeq_fail |-> {}]

\* TypeChecker::new
NewChecker == [cache |-> NewCache, eager |-> FALSE, counter |-> 0, panicked |-> FALSE]

Ret(v, s) == [r |-> v, s |-> s]
Dead(s) == [s EXCEPT !.panicked = TRUE]
Panic(s) == Ret(Bad, Dead(s))

\* The operations that call each other, by name; defined at the end.
RECURSIVE Enter(_, _, _)
Infer(e, flag, s) == Enter("infer", <<e, flag>>, s)
Whnf(e, s) == Enter("whnf", <<e>>, s)
WhnfNoUnfoldingAux(e, cheap, s) == Enter("whnf_no_unfolding", <<e, cheap>>, s)
DefEq(x, y, s) == Enter("def_eq", <<x, y>>, s)

InferThenWhnf(e, flag, s) == LET t == Infer(e, flag, s) IN Whnf(t.r, t.s)

\* ensure_sort and ensure_pi reduce only what does not have the shape yet.
Ensure(e, tag, s) ==
    LET w == IF e[1] = tag THEN Ret(e, s) ELSE Whnf(e, s) IN
    IF w.r[1] = tag THEN w ELSE Panic(w.s)

EnsureSort(e, s) == Ensure(e, "sort", s)
EnsurePi(e, s) == Ensure(e, "pi", s)

\* The level of the sort e lives in.
InferSortOf(e, flag, s) ==
    LET w == InferThenWhnf(e, flag, s) IN
    IF w.r[1] = "sort" THEN Ret(w.r[2], w.s) ELSE Panic(w.s)

IsProp(e, s) ==
    LET l == InferSortOf(e, "infer_only", s) IN
    Ret(~l.s.panicked /\ IsZero(l.r) = "yes", l.s)

MayBeProp(e, s) ==
    LET l == InferSortOf(e, "infer_only", s) IN
    Ret(~l.s.panicked /\ ~IsNeverZero(l.r), l.s)

\* assert!(self.def_eq(x, y))
AssertDefEq(x, y, s) == LET q == DefEq(x, y, s) IN IF q.r THEN q.s ELSE Dead(q.s)

-----------------------------------------------------------------------------
(* Inference.                                                              *)

IsEagerReduceApp(e) == e[1] = "app" /\ e[2][1] = "app" /\ IsConst(e[2][2], "eagerReduce")

RestoreEager(s, outer) == [s EXCEPT !.eager = outer]

\* The Check arm of infer_app: the argument's type against the binder's, in
\* eager mode if the argument asks for it.
CheckArg(arg, ty, s) ==
    LET a == Infer(arg, "check", s)
        inner == IF IsEagerReduceApp(arg) THEN [a.s EXCEPT !.eager = TRUE] ELSE a.s
    IN RestoreEager(AssertDefEq(ty, a.r, inner), a.s.eager)

\* ctx.clear(): what ensure_pi returns has the arguments in it.
CtxAfterEnsurePi(ctx) == <<>>

\* The loop of infer_app: fun's loose variables stand for ctx.
RECURSIVE InferSpine(_, _, _, _, _)
InferSpine(fun, args, ctx, flag, s) ==
    IF s.panicked \/ args = <<>> THEN Ret(Inst(fun, ctx), s)
    ELSE IF fun[1] = "pi"
    THEN InferSpine(fun[3], Tail(args), Append(ctx, Head(args)), flag,
                    IF flag = "check" THEN CheckArg(Head(args), Inst(fun[2], ctx), s) ELSE s)
    ELSE LET p == EnsurePi(Inst(fun, ctx), s)
         IN InferSpine(p.r, args, CtxAfterEnsurePi(ctx), flag, p.s)

InferApp(e, flag, s) ==
    LET f == Infer(Fun(e), flag, s) IN InferSpine(f.r, Args(e), <<>>, flag, f.s)

\* The open binders are given back one at a time while the type is rebuilt.
RECURSIVE CloseLambdas(_, _, _, _)
CloseLambdas(locals, abstrd, start_pos, s) ==
    IF locals = <<>> THEN Ret(abstrd, s)
    ELSE LET c == s.counter - 1
             t == AbstrLevels(SE!Last(locals)[4], start_pos, c)
         IN CloseLambdas(SE!Front(locals), Bind("pi", t, abstrd), start_pos, [s EXCEPT !.counter = c])

RECURSIVE InferLambda(_, _, _, _, _)
InferLambda(e, locals, start_pos, flag, s) ==
    IF e[1] = "lam"
    THEN LET ty == Inst(e[2], locals)
             t == IF flag = "check" THEN InferSortOf(ty, flag, s).s ELSE s
         IN InferLambda(e[3], Append(locals, DbjLevel(t.counter, ty)), start_pos, flag,
                        [t EXCEPT !.counter = @ + 1])
    ELSE LET b == Infer(Inst(e, locals), flag, s)
         IN IF b.s.panicked THEN b
            ELSE CloseLambdas(locals, AbstrLevels(b.r, start_pos, b.s.counter), start_pos, b.s)

\* The product's sort; the locals are given back.
ClosePi(e, locals, universes, flag, s) ==
    LET b == InferSortOf(Inst(e, locals), flag, s) IN
    IF b.s.panicked THEN b
    ELSE Ret(Sort(SE!FoldRight(IMax, universes, b.r)), [b.s EXCEPT !.counter = @ - Len(locals)])

RECURSIVE InferPi(_, _, _, _, _)
InferPi(e, locals, universes, flag, s) ==
    IF e[1] = "pi"
    THEN LET ty == Inst(e[2], locals)
             u == InferSortOf(ty, flag, s)
         IN InferPi(e[3], Append(locals, DbjLevel(u.s.counter, ty)), Append(universes, u.r), flag,
                    [u.s EXCEPT !.counter = @ + 1])
    ELSE ClosePi(e, locals, universes, flag, s)

InferLet(e, flag, s) ==
    LET t == InferSortOf(e[2], flag, s).s
        v == Infer(e[3], flag, t)
        checked == IF flag = "check" THEN AssertDefEq(v.r, e[2], v.s) ELSE s
    IN Infer(Inst(e[4], <<e[3]>>), flag, checked)

InferSort(e, flag, s) ==
    IF flag = "check" /\ ~AllUParamsDefined(e[2], DeclUparams) THEN Panic(s)
    ELSE Ret(Sort(Succ(e[2])), s)

InferConst(e, flag, s) ==
    IF \/ e[2] \notin DOMAIN Env
       \/ flag = "check" /\ \E i \in DOMAIN e[3] : ~AllUParamsDefined(e[3][i], DeclUparams)
       \/ Len(Env[e[2]].uparams) # Len(e[3])
    THEN Panic(s)
    ELSE Ret(SubstLevels(Env[e[2]].ty, Env[e[2]].uparams, e[3]), s)

CanBeStruct(n, rec_ok) ==
    /\ IsKind(n, {"ind"})
    /\ Len(Env[n].ctors) = 1
    /\ Env[n].num_indices = 0
    /\ rec_ok \/ ~Env[n].is_recursive

\* A projection from what may be a proof has to be a proof itself.
ProjAllowed(binder_type, may_be_prop, s) ==
    IF ~may_be_prop THEN s
    ELSE LET p == IsProp(binder_type, s) IN IF p.r THEN p.s ELSE Dead(p.s)

\* The constructor's telescope, from its i-th field on, down to field idx.
RECURSIVE FieldType(_, _, _, _, _, _)
FieldType(ty, ind, i, e, may_be_prop, s) ==
    LET w == Whnf(ty, s)
        later == i < e[2][2]
        t == IF later /\ NumLooseBVars(w.r[3]) = 0 THEN w.s ELSE ProjAllowed(w.r[2], may_be_prop, w.s)
    IN IF w.s.panicked \/ w.r[1] # "pi" THEN Panic(w.s)
       ELSE IF later THEN FieldType(Inst(w.r[3], <<Proj(<<ind, i>>, e[3])>>), ind, i + 1, e, may_be_prop, t)
       ELSE Ret(w.r[2], t)

\* The parameters of the constructor's type are those of the structure's.
RECURSIVE ApplyParams(_, _, _)
ApplyParams(ty, args, s) ==
    LET w == Whnf(ty, s) IN
    IF args = <<>> THEN Ret(ty, s)
    ELSE IF w.s.panicked \/ w.r[1] # "pi" THEN Panic(w.s)
    ELSE ApplyParams(Inst(w.r[3], <<Head(args)>>), Tail(args), w.s)

InferProj(e, flag, s) ==
    LET st == InferThenWhnf(e[3], flag, s)
        p == MayBeProp(st.r, st.s)
        f == Fun(st.r)
        ind == f[2]
        ctor == Env[Env[ind].ctors[1]]
        ty == ApplyParams(SubstLevels(ctor.ty, ctor.uparams, f[3]),
                          SubSeq(Args(st.r), 1, Env[ind].num_params), p.s)
    IN IF \/ p.s.panicked \/ f[1] # "const"
          \/ ~CanBeStruct(ind, TRUE) \/ Len(ctor.uparams) # Len(f[3])
       THEN Panic(p.s)
       ELSE FieldType(ty.r, ind, 0, e, p.r, ty.s)

\* The types of literals.
NatType == Const("Nat", <<>>)
StringType == Const("String", <<>>)

InferAux(e, flag, s) ==
    CASE e[1] = "local" -> Ret(e[4], s)
      [] e[1] = "sort"  -> InferSort(e, flag, s)
      [] e[1] = "const" -> InferConst(e, flag, s)
      [] e[1] = "app"   -> InferApp(e, flag, s)
      [] e[1] = "pi"    -> InferPi(e, <<>>, <<>>, flag, s)
      [] e[1] = "lam"   -> InferLambda(e, <<>>, s.counter, flag, s)
      [] e[1] = "let"   -> InferLet(e, flag, s)
      [] e[1] = "proj"  -> InferProj(e, flag, s)
      [] IsNatLit(e) /\ NatExtension -> Ret(NatType, s)
      [] IsStrLit(e) /\ StringExtension -> Ret(StringType, s)
      [] OTHER -> Panic(s)

\* What one of the caches has for e, or None; and the cache with one more
\* fact.
Cached(e, facts) == IF e \in DOMAIN facts THEN facts[e] ELSE None
Caching(e, r, facts) == (e :> r) @@ facts

\* Mutant of CacheInfer: one cache for both flags.
CacheInferOnce(e, t, flag, s) == [s EXCEPT !.cache.infer_check = Caching(e, t, @)]

CacheInfer(e, t, flag, s) ==
    IF flag = "check" THEN [s EXCEPT !.cache.infer_check = Caching(e, t, @)]
    ELSE [s EXCEPT !.cache.infer_no_check = Caching(e, t, @)]

\* Mutant of KnownType: a type found without checking answers a checked call.
KnownTypeEither(e, flag, c) ==
    IF e \in DOMAIN c.infer_check THEN c.infer_check[e] ELSE Cached(e, c.infer_no_check)

KnownType(e, flag, c) ==
    LET checked == Cached(e, c.infer_check) IN
    IF checked # None \/ flag = "check" THEN checked ELSE Cached(e, c.infer_no_check)

InferCached(e, flag, s) ==
    LET known == KnownType(e, flag, s.cache)
        t == InferAux(e, flag, s)
    IN IF known # None THEN Ret(known, s)
       ELSE IF t.s.panicked THEN t
       ELSE Ret(t.r, CacheInfer(e, t.r, flag, t.s))

-----------------------------------------------------------------------------
(* Literals.                                                               *)

NatZero == Const("Nat.zero", <<>>)
NatSucc == Const("Nat.succ", <<>>)
BoolOf(b) == Const(IF b THEN "Bool.true" ELSE "Bool.false", <<>>)

NatBinOps == {"Nat.add", "Nat.sub", "Nat.mul", "Nat.div", "Nat.mod", "Nat.pow", "Nat.beq", "Nat.ble", "Nat.gcd",
              "Nat.land", "Nat.lor", "Nat.xor", "Nat.shiftLeft", "Nat.shiftRight"}

Gcd(m, n) ==
    IF m = 0 \/ n = 0 THEN m + n ELSE CHOOSE d \in 1 .. m : /\ m % d = 0 /\ n % d = 0
                                                       /\ \A c \in d + 1 .. m : m % c # 0 \/ n % c # 0

NatBin(op, m, n) ==
    CASE op = "Nat.add" -> NatLit(m + n)
      [] op = "Nat.sub" -> NatLit(IF n > m THEN 0 ELSE m - n)
      [] op = "Nat.mul" -> NatLit(m * n)
      [] op = "Nat.div" -> NatLit(IF n = 0 THEN 0 ELSE m \div n)
      [] op = "Nat.mod" -> NatLit(IF n = 0 THEN m ELSE m % n)
      [] op = "Nat.pow" -> NatLit(IF n = 0 THEN 1 ELSE m ^ n)
      [] op = "Nat.beq" -> BoolOf(m = n)
      [] op = "Nat.ble" -> BoolOf(m <= n)
      [] op = "Nat.gcd" -> NatLit(Gcd(m, n))
      [] op = "Nat.land" -> NatLit(m & n)
      [] op = "Nat.lor" -> NatLit(m | n)
      [] op = "Nat.xor" -> NatLit(m ^^ n)
      [] op = "Nat.shiftLeft" -> NatLit(m * 2 ^ n)
      [] op = "Nat.shiftRight" -> NatLit(m \div 2 ^ n)

IsBignum(e) == IsNatLit(e) \/ e = NatZero
Bignum(e) == IF IsNatLit(e) THEN e[2] ELSE 0
BignumSucc(e) == IF IsBignum(e) THEN NatLit(Bignum(e) + 1) ELSE None

DoNatBin(op, x, y, s) ==
    LET v == Whnf(x, s)
        w == Whnf(y, v.s)
    IN Ret(IF IsBignum(v.r) /\ IsBignum(w.r) THEN NatBin(op, Bignum(v.r), Bignum(w.r)) ELSE None, w.s)

\* The operations known by name.
ReduceNatOp(op, args, s) ==
    LET v == Whnf(args[1], s) IN
    IF Len(args) = 1 /\ op = "Nat.succ" THEN Ret(BignumSucc(v.r), v.s)
    ELSE IF Len(args) = 2 /\ op \in NatBinOps THEN DoNatBin(op, args[1], args[2], s)
    ELSE Ret(None, s)

\* try_reduce_nat: closed applications, of constants without levels.
TryReduceNat(e, s) ==
    LET f == Fun(e) IN
    IF ~NatExtension \/ HasFVars(e) \/ f[1] # "const" \/ f[3] # <<>> THEN Ret(None, s)
    ELSE ReduceNatOp(f[2], Args(e), s)

NatLitToConstructor(n) == IF n = 0 THEN NatZero ELSE App(NatSucc, NatLit(n - 1))

IsNatZero(e) == e = NatZero \/ e = NatLit(0)

PredOfNatSucc(e) ==
    IF e[1] = "app" /\ e[2] = NatSucc THEN e[3]
    ELSE IF IsNatLit(e) /\ e[2] > 0 THEN NatLit(e[2] - 1) ELSE None

\* String.ofList of the list of the characters, by their code points.
StrLitToConstructor(cs) ==
    LET char == Const("Char", <<>>)
        Cons(c, rest) ==
            FoldlApps(Const("List.cons", <<Zero>>), <<char, App(Const("Char.ofNat", <<>>), NatLit(c)), rest>>)
        list == SE!FoldRight(Cons, cs, App(Const("List.nil", <<Zero>>), char))
    IN IF NatExtension /\ StringExtension THEN App(Const("String.ofList", <<>>), list) ELSE None

StrLitToCtorReducing(cs, s) ==
    LET e == StrLitToConstructor(cs) IN IF e = None THEN Ret(None, s) ELSE Whnf(e, s)

-----------------------------------------------------------------------------
(* Weak head reduction.                                                    *)

\* get_declar_val, then the value with its parameters instantiated, applied.
UnfoldDef(e) ==
    LET f == Fun(e) IN
    IF f[1] = "const" /\ IsKind(f[2], {"def", "thm"}) /\ Len(f[3]) = Len(Env[f[2]].uparams)
    THEN FoldlApps(SubstLevels(Env[f[2]].val, Env[f[2]].uparams, f[3]), Args(e))
    ELSE None

\* A string literal that was reduced to, as the constructor it stands for.
CtorOfLit(w) ==
    LET c == StrLitToCtorReducing(w.r[2], w.s) IN IF IsStrLit(w.r) /\ c.r # None THEN c ELSE w

\* A cheap projection reduces its structure without unfolding definitions.
ReduceProj(e, cheap, s) ==
    LET w == IF cheap THEN WhnfNoUnfoldingAux(e[3], TRUE, s) ELSE Whnf(e[3], s)
        st == CtorOfLit(w)
        f == Fun(st.r)
        i == Env[f[2]].num_params + e[2][2] + 1
    IN IF f[1] # "const" \/ ~IsKind(f[2], {"ctor"}) THEN Ret(None, st.s)
       ELSE IF i > Len(Args(st.r)) THEN Panic(st.s)
       ELSE Ret(Args(st.r)[i], st.s)

RECURSIVE NthPiBinder(_, _)
NthPiBinder(ty, n) == IF ty[1] # "pi" THEN None ELSE IF n = 0 THEN ty[2] ELSE NthPiBinder(ty[3], n - 1)

MajorIdx(rec) == rec.num_params + rec.num_motives + rec.num_minors + rec.num_indices
MajorInduct(rec) == LET t == NthPiBinder(rec.ty, MajorIdx(rec)) IN Fun(t)[2]

\* The constructor without fields, at the parameters and levels of type ty.
MkNullaryCtor(ty, num_params) ==
    LET f == Fun(ty) IN
    FoldlApps(Const(Env[f[2]].ctors[1], f[3]), SubSeq(Args(ty), 1, num_params))

\* Mutant of ToCtorWhenK: the types are not compared.
ToCtorWhenKAnyIndex(major, rec, s) ==
    LET t == InferThenWhnf(major, "infer_only", s) IN
    IF ~rec.is_k \/ Fun(t.r)[1] # "const" THEN Ret(None, s)
    ELSE Ret(MkNullaryCtor(t.r, rec.num_params), t.s)

\* With K the major premise need not be a constructor: its type decides.
ToCtorWhenK(major, rec, s) ==
    LET t == InferThenWhnf(major, "infer_only", s)
        f == Fun(t.r)
        ctor == MkNullaryCtor(t.r, rec.num_params)
        u == Infer(ctor, "infer_only", t.s)
        q == DefEq(t.r, u.r, u.s)
        p == IsProp(t.r, q.s)
    IN IF ~rec.is_k THEN Ret(None, s)
       ELSE IF t.s.panicked \/ f[1] # "const" \/ f[2] # MajorInduct(rec) THEN Ret(None, t.s)
       ELSE IF ~q.r THEN Ret(None, q.s)
       ELSE Ret(IF p.r THEN ctor ELSE None, p.s)

EtaProjs(ind, num_fields, e) == [i \in 1 .. num_fields |-> Proj(<<ind, i - 1>>, e)]

\* A structure's value as its constructor applied to its projections.
ExpandEtaStruct(e_type, e) ==
    LET f == Fun(e_type)
        ctor == Env[f[2]].ctors[1]
    IN FoldlApps(Const(ctor, f[3]),
                 SubSeq(Args(e_type), 1, Env[ctor].num_params) \o EtaProjs(f[2], Env[ctor].num_fields, e))

IotaTryEtaStruct(ind, e, s) ==
    LET t == InferThenWhnf(e, "infer_only", s)
        f == Fun(t.r)
        p == MayBeProp(t.r, t.s)
    IN IF ~CanBeStruct(ind, FALSE) \/ IsCtorApp(e) THEN Ret(e, s)
       ELSE IF t.s.panicked \/ f[1] # "const" \/ f[2] # ind THEN Ret(e, t.s)
       ELSE Ret(IF p.s.panicked \/ p.r THEN e ELSE ExpandEtaStruct(t.r, e), p.s)

\* The rule of the constructor at the head of the major premise.
RuleFor(rec, major) == SE!SelectInSeq(rec.rec_rules, LAMBDA r : IsConst(Fun(major), r.ctor))

\* The rule's value at the parameters, motives and minor premises, the
\* constructor's fields, and what followed the major premise.
Iota(rec, levels, args, major) ==
    LET rule == rec.rec_rules[RuleFor(rec, major)]
        fields == Args(major)
        head == SubSeq(args, 1, rec.num_params + rec.num_motives + rec.num_minors)
        rest == SubSeq(args, MajorIdx(rec) + 2, Len(args))
    IN FoldlApps(SubstLevels(rule.val, rec.uparams, levels),
                 head \o SubSeq(fields, Len(fields) - rule.nfields + 1, Len(fields)) \o rest)

ReduceRec(f, args, s) ==
    LET rec == Env[f[2]]
        k == ToCtorWhenK(args[MajorIdx(rec) + 1], rec, s)
        w == Whnf(IF k.r = None THEN args[MajorIdx(rec) + 1] ELSE k.r, k.s)
        major == IF IsNatLit(w.r) THEN Ret(NatLitToConstructor(w.r[2]), w.s)
                 ELSE IF IsStrLit(w.r) THEN CtorOfLit(w)
                 ELSE IotaTryEtaStruct(MajorInduct(rec), w.r, w.s)
    IN IF ~IsKind(f[2], {"rec"}) THEN Ret(None, s)
       ELSE IF Len(args) <= MajorIdx(rec) THEN Ret(None, s)
       ELSE IF RuleFor(rec, major.r) = 0 \/ Len(rec.uparams) # Len(f[3]) THEN Ret(None, major.s)
       ELSE Ret(Iota(rec, f[3], args, major.r), major.s)

\* Quot.lift f h (Quot.mk a) is f a, and likewise for Quot.ind.
ReduceQuot(f, args, s) ==
    LET pos == IF f[2] = "Quot.lift" THEN 6 ELSE 5
        w == Whnf(args[pos], s)
    IN IF ~IsKind(f[2], {"quot"}) \/ f[2] \notin {"Quot.lift", "Quot.ind"} \/ Len(args) < pos THEN Ret(None, s)
       ELSE IF ~IsConst(Fun(w.r), "Quot.mk") \/ Len(Args(w.r)) # 3 THEN Ret(None, w.s)
       ELSE Ret(FoldlApps(App(args[4], w.r[3]), SubSeq(args, pos + 1, Len(args))), w.s)

RECURSIVE Body(_, _)
Body(e, n) == IF n = 0 THEN e ELSE Body(e[3], n - 1)

RECURSIVE Arity(_)
Arity(e) == IF e[1] = "lam" THEN 1 + Arity(e[3]) ELSE 0

\* Up to as many arguments as there are lambdas, in one instantiation.
Beta(f, args) ==
    LET n == IF Arity(f) < Len(args) THEN Arity(f) ELSE Len(args)
    IN FoldlApps(Inst(Body(f, n), SubSeq(args, 1, n)), SubSeq(args, n + 1, Len(args)))

\* One step at the head, or None.
ReduceHead(f, args, cheap, s) ==
    LET p == ReduceProj(f, cheap, s)
        q == ReduceQuot(f, args, s)
    IN CASE f[1] = "proj" -> Ret(IF p.r = None THEN None ELSE FoldlApps(p.r, args), p.s)
         [] f[1] = "lam" /\ args # <<>> -> Ret(Beta(f, args), s)
         [] f[1] = "let" -> Ret(FoldlApps(Inst(f[4], <<f[3]>>), args), s)
         [] f[1] = "const" -> IF q.r # None THEN q ELSE ReduceRec(f, args, q.s)
         [] OTHER -> Ret(None, s)

\* Mutant of CacheWhnfCore: what a cheap reduction stopped at is kept.
CacheWhnfCoreCheap(e, r, cheap, s) == [s EXCEPT !.cache.whnf_no_unfolding = Caching(e, r, @)]

CacheWhnfCore(e, r, cheap, s) ==
    IF cheap THEN s ELSE [s EXCEPT !.cache.whnf_no_unfolding = Caching(e, r, @)]

\* Only what took a step is cached, and only when nothing was left out.
WhnfCore(e, cheap, s) ==
    LET f == Fun(e)
        h == ReduceHead(f, Args(e), cheap, s)
        w == WhnfNoUnfoldingAux(h.r, cheap, h.s)
    IN
    IF Cached(e, s.cache.whnf_no_unfolding) # None THEN Ret(Cached(e, s.cache.whnf_no_unfolding), s)
    ELSE IF f[1] = "var" \/ (f[1] \in {"pi", "sort"} /\ f # e) THEN Panic(s)
    ELSE IF h.s.panicked THEN Panic(h.s)
    ELSE IF h.r = None THEN Ret(IF f[1] = "sort" THEN Sort(Simplify(f[2])) ELSE e, h.s)
    ELSE Ret(w.r, IF w.s.panicked THEN w.s ELSE CacheWhnfCore(e, w.r, cheap, w.s))

WhnfNoUnfolding(e, s) == WhnfNoUnfoldingAux(e, FALSE, s)
WhnfCheapProj(e, s) == WhnfNoUnfoldingAux(e, TRUE, s)

\* The loop of whnf: reduce, then compute with literals, then unfold.
RECURSIVE WhnfLoop(_, _, _)
WhnfLoop(e, cursor, s) ==
    LET w == WhnfNoUnfolding(cursor, s)
        n == TryReduceNat(w.r, w.s)
        u == UnfoldDef(w.r)
    IN IF w.s.panicked THEN w
       ELSE IF n.s.panicked THEN Panic(n.s)
       ELSE IF n.r # None THEN WhnfLoop(e, n.r, n.s)
       ELSE IF u # None THEN WhnfLoop(e, u, n.s)
       ELSE Ret(w.r, [n.s EXCEPT !.cache.whnf = Caching(e, w.r, @)])

WhnfCached(e, s) ==
    IF IsLit(e) THEN Ret(e, s)
    ELSE IF Cached(e, s.cache.whnf) # None THEN Ret(Cached(e, s.cache.whnf), s)
    ELSE WhnfLoop(e, e, s)

-----------------------------------------------------------------------------
(* Definitional equality.  A test that may not apply answers "yes", "no"   *)
(* or "none".                                                              *)

CachedEq(x, y, s) == {x, y} \in s.cache.eq
CacheEq(x, y, s) == [s EXCEPT !.cache.eq = @ \cup {{x, y}}]

Opt(q) == Ret(YesIf(q.r), q.s)

LeaveBinders(locals, s) == [s EXCEPT !.counter = @ - Len(locals)]

\* Two telescopes side by side: the domains are compared as they are opened,
\* and both sides get the local of the left domain.
RECURSIVE DefEqBinderAux(_, _, _, _)
DefEqBinderAux(x, y, locals, s) ==
    LET t == Inst(x[2], locals)
        q == DefEq(t, Inst(y[2], locals), s)
        b == DefEq(Inst(x, locals), Inst(y, locals), s)
    IN IF IsBinder(x) /\ x[1] = y[1]
       THEN IF q.r THEN DefEqBinderAux(x[3], y[3], Append(locals, DbjLevel(q.s.counter, t)),
                                       [q.s EXCEPT !.counter = @ + 1])
            ELSE Ret("no", LeaveBinders(locals, q.s))
       ELSE Ret(YesIf(b.r), [b.s EXCEPT !.counter = @ - Len(locals)])

\* Two products or two lambdas.
DefEqBinderMulti(x, y, s) ==
    IF IsBinder(x) /\ x[1] = y[1] THEN DefEqBinderAux(x, y, <<>>, s) ELSE Ret("none", s)

DefEqSort(x, y) == YesIf(EqAntisymm(x[2], y[2]) = "yes")

\* def_eq_quick_check
QuickCheck(x, y, s) ==
    IF x = y \/ CachedEq(x, y, s) THEN Ret("yes", s)
    ELSE IF x[1] = "sort" /\ y[1] = "sort" THEN Ret(DefEqSort(x, y), s)
    ELSE DefEqBinderMulti(x, y, s)

DefEqConst(x, y) == x[1] = "const" /\ y[1] = "const" /\ x[2] = y[2] /\ EqAntisymmMany(x[3], y[3])

DefEqLocal(x, y, s) ==
    IF IsLocal(x) /\ IsLocal(y) /\ x[2] = y[2] /\ x[3] = y[3] THEN DefEq(x[4], y[4], s) ELSE Ret(FALSE, s)

SameField(x, y) == x[1] = "proj" /\ y[1] = "proj" /\ x[2] = y[2]

DefEqProj(x, y, s) == IF SameField(x, y) THEN DefEq(x[3], y[3], s) ELSE Ret(FALSE, s)

\* All of two lists of the same length, in order, up to the first difference.
RECURSIVE AllDefEq(_, _, _)
AllDefEq(xs, ys, s) ==
    LET q == DefEq(Head(xs), Head(ys), s) IN
    IF xs = <<>> THEN Ret(TRUE, s) ELSE IF q.r THEN AllDefEq(Tail(xs), Tail(ys), q.s) ELSE q

\* Arguments from left to right, then the functions.
DefEqApp(x, y, s) ==
    LET a == AllDefEq(Args(x), Args(y), s) IN
    IF Args(x) = <<>> \/ Len(Args(x)) # Len(Args(y)) THEN Ret(FALSE, s)
    ELSE IF a.r THEN DefEq(Fun(x), Fun(y), a.s) ELSE a

IsProof(e, s) ==
    LET t == Infer(e, "infer_only", s)
        p == IsProp(t.r, t.s)
    IN [r |-> p.r, ty |-> t.r, s |-> p.s]

\* Mutant of ProofIrrelEq: proofs of different propositions are equal.
ProofIrrelEqAny(x, y, s) ==
    LET p == IsProof(x, s)
        q == IsProof(y, p.s)
    IN IF p.r THEN Ret(q.r, q.s) ELSE Ret(FALSE, p.s)

\* Two proofs of the same proposition are equal.
ProofIrrelEq(x, y, s) ==
    LET p == IsProof(x, s)
        q == IsProof(y, p.s)
    IN IF ~p.r THEN Ret(FALSE, p.s) ELSE IF ~q.r THEN Ret(FALSE, q.s) ELSE DefEq(p.ty, q.ty, q.s)

EtaExpansionAux(x, y, s) ==
    LET t == InferThenWhnf(y, "infer_only", s) IN
    IF x[1] # "lam" THEN Ret(FALSE, s)
    ELSE IF t.r[1] = "pi" THEN DefEq(x, Bind("lam", t.r[2], App(y, Var(0))), t.s)
    ELSE Ret(FALSE, t.s)

\* A rule that is tried on both orders of its arguments.
EitherWay(Rule(_, _, _), x, y, s) == LET q == Rule(x, y, s) IN IF q.r THEN q ELSE Rule(y, x, q.s)

\* Mutant of TryEtaExpansion: only a lambda on the left is met.
TryEtaExpansionLeft(x, y, s) == EtaExpansionAux(x, y, s)

TryEtaExpansion(x, y, s) == EitherWay(EtaExpansionAux, x, y, s)

\* x against a structure's constructor, field by field.
EtaStructAux(x, y, s) ==
    LET f == Fun(y)
        ctor == Env[f[2]]
        args == Args(y)
        n == ctor.num_params
        t == Infer(x, "infer_only", s)
        u == Infer(y, "infer_only", t.s)
        q == DefEq(t.r, u.r, u.s)
        projs == EtaProjs(ctor.inductive, ctor.num_fields, x)
    IN IF ~IsCtorApp(y) THEN Ret(FALSE, s)
       ELSE IF Len(args) # n + ctor.num_fields \/ ~CanBeStruct(ctor.inductive, FALSE) THEN Ret(FALSE, s)
       ELSE IF q.r THEN AllDefEq(projs, SubSeq(args, n + 1, Len(args)), q.s)
       ELSE q

TryEtaStruct(x, y, s) == EitherWay(EtaStructAux, x, y, s)

\* Any two values of a structure without fields.
DefEqUnit(x, y, s) ==
    LET t == InferThenWhnf(x, "infer_only", s)
        f == Fun(t.r)
        u == Infer(y, "infer_only", t.s)
    IN IF t.s.panicked \/ f[1] # "const" \/ ~CanBeStruct(f[2], FALSE) THEN Ret(FALSE, t.s)
       ELSE IF Env[Env[f[2]].ctors[1]].num_fields # 0 THEN Ret(FALSE, t.s)
       ELSE DefEq(t.r, u.r, u.s)

-----------------------------------------------------------------------------
(* Lazy unfolding.                                                         *)

\* The hint of the definition at the head of e.
AppliedHint(e) ==
    LET f == Fun(e) IN
    IF f[1] # "const" \/ ~IsKind(f[2], {"def", "thm"}) THEN "none"
    ELSE IF Env[f[2]].kind = "thm" THEN "opaque" ELSE Env[f[2]].hint

Height(e) == Env[Fun(e)[2]].h

\* ReducibilityHint::is_lt
IsLt(x, y) ==
    CASE AppliedHint(y) = "opaque" \/ AppliedHint(x) = "abbrev" -> FALSE
      [] AppliedHint(x) = "opaque" \/ AppliedHint(y) = "abbrev" -> TRUE
      [] OTHER -> Height(x) < Height(y)

Delta(e, s) == IF s.panicked \/ UnfoldDef(e) = None THEN Panic(s) ELSE WhnfCheapProj(UnfoldDef(e), s)

\* Mutant of SameHead: the levels of the head are not compared.
SameHeadAnyLevels(x, y) == TRUE

SameHead(x, y) == EqAntisymmMany(Fun(x)[3], Fun(y)[3])

\* Before two applications of one definition are unfolded, their arguments are
\* compared, last first; a failure is remembered for the pair.
TryEqConstApp(x, y, s) ==
    LET a == AllDefEq(SE!Reverse(Args(x)), SE!Reverse(Args(y)), s)
        q == IF Len(Args(x)) = Len(Args(y)) THEN a ELSE Ret(FALSE, s)
    IN IF \/ Fun(x)[2] # Fun(y)[2] \/ AppliedHint(x) # "regular"
          \/ {x, y} \in s.cache.congr_fail \/ x[1] # "app" \/ y[1] # "app"
       THEN Ret("none", s)
       ELSE IF q.r /\ SameHead(x, y) THEN Ret("yes", q.s)
       ELSE Ret("none", [q.s EXCEPT !.cache.congr_fail = @ \cup {{x, y}}])

\* A projection that is stuck only because reduction was cheap.
TryUnfoldProjApp(e, s) ==
    LET w == WhnfNoUnfolding(e, s) IN
    IF Fun(e)[1] # "proj" THEN Ret(None, s) ELSE Ret(IF w.r = e THEN None ELSE w.r, w.s)

DefEqNat(x, y, s) ==
    IF IsNatZero(x) /\ IsNatZero(y) THEN Ret("yes", s)
    ELSE IF IsNatLit(x) /\ IsNatLit(y) THEN Ret(YesIf(x = y), s)
    ELSE IF PredOfNatSucc(x) # None /\ PredOfNatSucc(y) # None
    THEN Opt(DefEq(PredOfNatSucc(x), PredOfNatSucc(y), s))
    ELSE Ret("none", s)

DeltaTryNat(x, y, s) ==
    LET n == DefEqNat(x, y, s)
        v == TryReduceNat(x, n.s)
        w == TryReduceNat(y, v.s)
    IN IF n.r # "none" THEN n
       ELSE IF (HasFVars(x) \/ HasFVars(y)) /\ ~s.eager THEN n
       ELSE IF v.r # None THEN Opt(DefEq(v.r, y, v.s))
       ELSE IF w.r # None THEN Opt(DefEq(x, w.r, w.s))
       ELSE Ret("none", w.s)

\* One side against a definition: a projection that can go on goes first.
UnfoldAgainst(stuck, def, s) ==
    LET p == TryUnfoldProjApp(stuck, s)
        d == Delta(def, p.s)
    IN IF p.r # None THEN [stuck |-> p.r, def |-> def, s |-> p.s]
       ELSE [stuck |-> stuck, def |-> d.r, s |-> d.s]

\* The higher of two definitions, or both.
UnfoldOne(x, y, s) ==
    LET d == Delta(x, s)
        e == Delta(y, IF IsLt(x, y) THEN s ELSE d.s)
    IN IF IsLt(x, y) THEN [x |-> x, y |-> e.r, s |-> e.s]
       ELSE IF IsLt(y, x) THEN [x |-> d.r, y |-> y, s |-> d.s]
       ELSE [x |-> d.r, y |-> e.r, s |-> e.s]

\* lazy_delta_step: "yes" or "no", or "exhausted" with the terms reached.
RECURSIVE LazyDeltaStep(_, _, _)
LazyDeltaStep(x, y, s) ==
    LET n == DeltaTryNat(x, y, s)
        xdef == AppliedHint(x) # "none"
        ydef == AppliedHint(y) # "none"
        tie == xdef /\ ydef /\ ~IsLt(x, y) /\ ~IsLt(y, x)
        c == IF tie THEN TryEqConstApp(x, y, n.s) ELSE Ret("none", n.s)
        l == UnfoldAgainst(x, y, c.s)
        r == UnfoldAgainst(y, x, c.s)
        u == IF ~xdef THEN [x |-> l.stuck, y |-> l.def, s |-> l.s]
             ELSE IF ~ydef THEN [x |-> r.def, y |-> r.stuck, s |-> r.s]
             ELSE UnfoldOne(x, y, c.s)
        q == QuickCheck(u.x, u.y, u.s)
        Answer(o) == [r |-> o.r, x |-> x, y |-> y, s |-> o.s]
    IN
    IF s.panicked \/ n.s.panicked THEN Answer(Ret("no", Dead(n.s)))
    ELSE IF n.r # "none" THEN Answer(n)
    ELSE IF ~xdef /\ ~ydef THEN Answer(Ret("exhausted", n.s))
    ELSE IF c.r # "none" \/ c.s.panicked THEN Answer(c)
    ELSE IF u.s.panicked THEN Answer(Ret("no", u.s))
    ELSE IF q.r # "none" \/ q.s.panicked THEN Answer(q)
    ELSE LazyDeltaStep(u.x, u.y, q.s)

-----------------------------------------------------------------------------
(* def_eq.                                                                 *)

Either(first, Then(_)) == IF first.r \/ first.s.panicked THEN first ELSE Then(first.s)

\* try_string_lit_expansion_aux: a literal against the function it is made with.
ExpandAgainst(x, y, s) ==
    LET l == StrLitToCtorReducing(x[2], s) IN
    IF ~(IsStrLit(x) /\ y[1] = "app" /\ IsConst(y[2], "String.ofList")) THEN Ret(FALSE, s)
    ELSE IF l.r = None THEN Ret(FALSE, l.s) ELSE DefEq(l.r, y, l.s)

TryStringLitExpansion(x, y, s) ==
    LET Turned(t) == ExpandAgainst(y, x, t) IN
    IF StringExtension THEN Either(ExpandAgainst(x, y, s), Turned) ELSE Ret(FALSE, s)

\* What is left once neither side unfolds: the shapes the code tries in turn.
Exhausted(x, y, s) ==
    LET AtUnit(t) == DefEqUnit(x, y, t)
        AtString(t) == Either(TryStringLitExpansion(x, y, t), AtUnit)
        AtStruct(t) == Either(TryEtaStruct(x, y, t), AtString)
        AtEta(t) == Either(TryEtaExpansion(x, y, t), AtStruct)
        AtApp(t) ==
            LET xw == WhnfNoUnfolding(x, t)
                yw == WhnfNoUnfolding(y, xw.s)
            IN IF xw.r # x \/ yw.r # y THEN DefEq(xw.r, yw.r, yw.s) ELSE Either(DefEqApp(x, y, yw.s), AtEta)
        AtProj(t) == Either(DefEqProj(x, y, t), AtApp)
        AtLocal(t) == Either(DefEqLocal(x, y, t), AtProj)
    IN Either(Ret(DefEqConst(x, y), s), AtLocal)

\* Only closed terms are run towards Bool.true, or all of them in eager mode.
BoolTrueShortcut(x, y, s) ==
    LET w == Whnf(x, s) IN
    IF (~HasFVars(x) \/ s.eager) /\ y = BoolOf(TRUE) THEN Ret(w.r = BoolOf(TRUE), w.s) ELSE Ret(FALSE, s)

DefEqCore(x, y, s) ==
    LET p == ProofIrrelEq(x, y, s)
        d == LazyDeltaStep(x, y, p.s)
    IN IF p.r \/ p.s.panicked THEN p
       ELSE IF d.r = "exhausted" THEN Exhausted(d.x, d.y, d.s)
       ELSE Ret(d.r = "yes", d.s)

\* A failure is remembered for the order and the mode it was found in.
Remember(x, y, eager, q) ==
    Ret(q.r, IF q.r THEN CacheEq(x, y, q.s) ELSE [q.s EXCEPT !.cache.defeq_fail = @ \cup {<<x, y, eager>>}])

DefEqSteps(x, y, s) ==
    LET k == QuickCheck(x, y, s)
        xw == WhnfCheapProj(x, k.s)
        yw == WhnfCheapProj(y, xw.s)
        b == BoolTrueShortcut(xw.r, yw.r, yw.s)
        k2 == QuickCheck(xw.r, yw.r, b.s)
        c == DefEqCore(xw.r, yw.r, k2.s)
    IN
    IF k.r # "none" THEN Ret(k.r = "yes", k.s)
    ELSE IF <<x, y, s.eager>> \in k.s.cache.defeq_fail THEN Ret(FALSE, k.s)
    ELSE IF yw.s.panicked THEN Ret(FALSE, yw.s)
    ELSE IF b.r \/ b.s.panicked THEN b
    ELSE IF k2.r # "none" THEN Ret(k2.r = "yes", k2.s)
    ELSE IF c.s.panicked THEN Ret(FALSE, c.s)
    ELSE Remember(x, y, s.eager, c)

Enter(op, a, s) ==
    CASE s.panicked -> Ret(IF op = "def_eq" THEN FALSE ELSE Bad, s)
      [] ~s.panicked /\ op = "infer" -> InferCached(a[1], a[2], s)
      [] ~s.panicked /\ op = "whnf" -> WhnfCached(a[1], s)
      [] ~s.panicked /\ op = "whnf_no_unfolding" -> WhnfCore(a[1], a[2], s)
      [] ~s.panicked /\ op = "def_eq" -> DefEqSteps(a[1], a[2], s)
=============================================================================
