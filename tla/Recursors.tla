------------------------------ MODULE Recursors -----------------------------
(***************************************************************************)
(* The recursors of a block without nesting (src/src/inductive.rs): the    *)
(* sort they eliminate into, their motives and minor premises, their types *)
(* and their rules.                                                        *)
(***************************************************************************)
EXTENDS BlockChecks

-----------------------------------------------------------------------------
(* The elimination level.                                                  *)

\* gen_elim_level: u, or the first u_i the block does not use.
GenElimLevel(uparams) ==
    LET Used(u) == ContainsParam(Params(uparams), u)
        numbered == CHOOSE i \in 1 .. Len(uparams) + 1 :
                        /\ ~Used(AppendIndexAfter("u", i))
                        /\ \A j \in 1 .. i - 1 : Used(AppendIndexAfter("u", j))
    IN IF Used("u") THEN AppendIndexAfter("u", numbered) ELSE "u"

\* The fields that are not proofs, and the type the constructor returns.
RECURSIVE RelevantFields(_, _, _, _)
RelevantFields(e, params, relevant, s) ==
    LET x == Fresh(e[2], s)
        l == EnsureInfersAsSort(e[2], x.s)
        rest == Inst(e[3], <<x.r>>)
    IN IF s.panicked THEN Panic(s)
       ELSE IF e[1] # "pi" THEN Ret([fields |-> relevant, result |-> e], s)
       ELSE IF params > 0 THEN RelevantFields(rest, params - 1, relevant, x.s)
       ELSE RelevantFields(rest, 0, IF IsZero(l.r) = "yes" THEN relevant ELSE Append(relevant, x.r), l.s)

\* Mutant of LargeElimTestAux: no field is looked at.
LargeElimTestAuxAny(ty, n, s) == Ret(TRUE, s)

\* Each of them has to be an argument of that type.
LargeElimTestAux(ty, n, s) ==
    LET f == RelevantFields(ty, n, <<>>, Clear(s)) IN
    IF f.s.panicked THEN f ELSE Ret(SE!ToSet(f.r.fields) \subseteq SE!ToSet(Args(f.r.result)), f.s)

LargeElimTest(st, s) ==
    LET ctors == st.types[1].ctors IN
    IF BlockIsNonzero(st) THEN Ret(TRUE, s)
    ELSE IF Len(st.types) # 1 \/ Len(ctors) > 1 THEN Ret(FALSE, s)
    ELSE IF ctors = <<>> THEN Ret(TRUE, s)
    ELSE LargeElimTestAux(ctors[1].ty, Len(st.params), s)

MkElimLevel(st, s) ==
    LET large == LargeElimTest(st, s)
        u == GenElimLevel(st.uparams)
    IN IF large.s.panicked THEN large
       ELSE Ret(IF large.r THEN [st EXCEPT !.elim = Param(u), !.rec_uparams = <<u>> \o st.uparams]
                ELSE [st EXCEPT !.elim = Zero, !.rec_uparams = st.uparams], large.s)

\* A proposition with one constructor that has no fields.
InitKTarget(st) ==
    [st EXCEPT !.is_k = /\ BlockIsProp(st)
                        /\ Len(st.types) = 1
                        /\ Len(st.types[1].ctors) = 1
                        /\ PiTelescopeSize(st.types[1].ctors[1].ty) = Len(st.params)]

-----------------------------------------------------------------------------
(* Major premises, motives and minor premises.                             *)

MkMajors(st, s) ==
    LET m == Each(LAMBDA i, t : Fresh(FoldlApps(FoldlApps(st.consts[i], st.params), st.indices[i]), t),
                  [i \in DOMAIN st.consts |-> i], s)
    IN Ret([st EXCEPT !.majors = m.r], m.s)

MkMotiveDep(i, st, s) == Fresh(AbstrPis(Append(st.indices[i], st.majors[i]), Sort(st.elim)), s)

MkMotives(st, s) ==
    LET m == Each(LAMBDA i, t : MkMotiveDep(i, st, t), [i \in DOMAIN st.consts |-> i], s)
    IN Ret([st EXCEPT !.motives = m.r], m.s)

\* The type of the block a field ends in, or 0.
RECURSIVE IsRecArgument(_, _, _)
IsRecArgument(e, st, s) ==
    LET w == Whnf(e, s)
        x == Fresh(w.r[2], w.s)
    IN IF w.r[1] = "pi" THEN IsRecArgument(Inst(w.r[3], <<x.r>>), st, x.s) ELSE Ret(WhichValidIndApp(st, w.r), w.s)

RECURSIVE ApplyToParams(_, _)
ApplyToParams(ty, params) == IF params = <<>> THEN ty ELSE ApplyToParams(Inst(ty[3], <<Head(params)>>), Tail(params))

\* Locals for the fields of a constructor's type, those that recurse, and the
\* type it returns.
RECURSIVE SepFields(_, _, _, _, _)
SepFields(e, all, recs, st, s) ==
    LET x == Fresh(e[2], s)
        i == IsRecArgument(e[2], st, x.s)
    IN IF s.panicked THEN Panic(s)
       ELSE IF e[1] # "pi" THEN Ret([all |-> all, recs |-> recs, result |-> e], s)
       ELSE SepFields(Inst(e[3], <<x.r>>), Append(all, x.r), IF i.r = 0 THEN recs ELSE Append(recs, x.r), st, i.s)

SepNonrecRecCtorArgs(ty, st, s) ==
    IF PiTelescopeSize(ty) < Len(st.params) THEN Panic(s)
    ELSE SepFields(ApplyToParams(ty, st.params), <<>>, <<>>, st, Clear(s))

\* handle_rec_args_aux: locals for the arguments of a recursive field, and what
\* it returns.
RECURSIVE OpenRecArg(_, _, _)
OpenRecArg(e, xs, s) ==
    LET x == Fresh(e[2], s)
        w == Whnf(Inst(e[3], <<x.r>>), x.s)
    IN IF s.panicked THEN Panic(s)
       ELSE IF e[1] = "pi" THEN OpenRecArg(w.r, Append(xs, x.r), w.s)
       ELSE Ret([e |-> e, xs |-> xs], s)

\* The arguments of the field u, and the type of the block and the indices of
\* what it returns.
RecArg(u, st, s) ==
    LET t == InferThenWhnf(u, "infer_only", Clear(s))
        o == OpenRecArg(t.r, <<>>, t.s)
        i == GetIIndices(st, o.r.e, o.s)
    IN IF o.s.panicked THEN o
       ELSE IF i.s.panicked THEN i
       ELSE Ret([xs |-> o.r.xs, ty |-> i.r.ty, indices |-> i.r.indices], i.s)

\* The hypothesis for one recursive field.
HandleRecArgMinor(u, st, s) ==
    LET a == RecArg(u, st, s)
        claim == App(FoldlApps(st.motives[a.r.ty], a.r.indices), FoldlApps(u, a.r.xs))
    IN IF a.s.panicked THEN a ELSE Fresh(AbstrPis(a.r.xs, claim), a.s)

MkMinor(ctor, st, s) ==
    LET c == SepNonrecRecCtorArgs(ctor.ty, st, s)
        i == GetIIndices(st, c.r.result, c.s)
        v == Each(LAMBDA u, t : HandleRecArgMinor(u, st, t), c.r.recs, i.s)
        value == FoldlApps(FoldlApps(BlockConst(ctor.name, st), st.params), c.r.all)
        claim == App(FoldlApps(st.motives[i.r.ty], i.r.indices), value)
    IN IF c.s.panicked \/ i.s.panicked \/ v.s.panicked THEN Panic(s)
       ELSE Fresh(AbstrPis(c.r.all, AbstrPis(v.r, claim)), v.s)

MkMinors1Group(ctors, st, s) == Each(LAMBDA c, t : MkMinor(c, st, t), ctors, s)

MkMinors(st, s) ==
    LET m == Each(LAMBDA ty, t : MkMinors1Group(ty.ctors, st, t), st.types, s) IN Ret([st EXCEPT !.minors = m.r], m.s)

FlattenMinors(st) == SE!FlattenSeq(st.minors)

-----------------------------------------------------------------------------
(* Rules and recursors.                                                    *)

\* Mutant of RecursiveCall: the call is made by the recursor of the first type.
RecursiveCallMain(ty, st) == Const(RecName(st.types[1].name), Params(st.rec_uparams))

RecursiveCall(ty, st) == Const(RecName(st.types[ty].name), Params(st.rec_uparams))

\* The value of the recursion on one field.
HandleRecCtorArgRecRule(u, st, s) ==
    LET a == RecArg(u, st, s)
        rec == FoldlApps(RecursiveCall(a.r.ty, st), st.params \o st.motives \o FlattenMinors(st) \o a.r.indices)
    IN IF a.s.panicked THEN a ELSE Ret(AbstrLambdas(a.r.xs, App(rec, FoldlApps(u, a.r.xs))), a.s)

MkRecRuleVal(minor, all, handled, st) ==
    AbstrLambdas(st.params \o st.motives \o FlattenMinors(st) \o all, FoldlApps(minor, all \o handled))

MkRecRule1(ctor, minor, st, s) ==
    LET c == SepNonrecRecCtorArgs(ctor.ty, st, s)
        v == Each(LAMBDA u, t : HandleRecCtorArgRecRule(u, st, t), c.r.recs, c.s)
    IN IF c.s.panicked \/ v.s.panicked THEN Panic(s)
       ELSE Ret([ctor |-> ctor.name, nfields |-> PiTelescopeSize(ctor.ty) - Len(st.params),
                 val |-> MkRecRuleVal(minor, c.r.all, v.r, st)], v.s)

MinorOf(i, j, st) == st.minors[i][j]

\* The rules of every type of the block.
MkRecRules(st, s) ==
    Each(LAMBDA i, t : Each(LAMBDA j, v : MkRecRule1(st.types[i].ctors[j], MinorOf(i, j, st), st, v),
                            [j \in DOMAIN st.types[i].ctors |-> j], t),
         [i \in DOMAIN st.types |-> i], s)

MkRecursorTy(i, st) ==
    AbstrPis(st.params \o st.motives \o FlattenMinors(st) \o Append(st.indices[i], st.majors[i]),
             App(FoldlApps(st.motives[i], st.indices[i]), st.majors[i]))

MkRecursorAux(i, rules, st) ==
    [kind |-> "rec", uparams |-> st.rec_uparams, ty |-> MkRecursorTy(i, st),
     all |-> [j \in DOMAIN st.types |-> st.types[j].name],
     num_params |-> Len(st.params), num_indices |-> Len(st.indices[i]),
     num_motives |-> Len(st.motives), num_minors |-> Len(FlattenMinors(st)), rec_rules |-> rules, is_k |-> st.is_k]

\* mk_recursors: one for every type, each [name, d].
MkRecursors(st, s) ==
    LET r == MkRecRules(st, s) IN
    IF r.s.panicked THEN r
    ELSE Ret([i \in DOMAIN st.types |-> [name |-> RecName(st.types[i].name), d |-> MkRecursorAux(i, r.r[i], st)]], r.s)
=============================================================================
