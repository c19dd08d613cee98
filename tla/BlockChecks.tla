---------------------------- MODULE BlockChecks -----------------------------
(***************************************************************************)
(* The checks of a block's headers and constructors, and the declarations  *)
(* made from them (src/src/inductive.rs).                                  *)
(***************************************************************************)
EXTENDS BlockTerms

-----------------------------------------------------------------------------
(* Headers.                                                                *)

\* The binders of a header from the i-th on: the first ones take the block's
\* parameters, the others are indices.  Only the first header's parameters are
\* compared with the block's.
RECURSIVE WalkBinders(_, _, _, _, _, _)
WalkBinders(e, i, indices, first, st, s) ==
    LET is_param == i <= Len(st.params)
        q == IF first /\ is_param THEN AssertDefEq(e[2], st.params[i][4], Clear(s)) ELSE s
        x == IF is_param THEN Ret(st.params[i], q) ELSE Fresh(e[2], s)
        w == Whnf(Inst(e[3], <<x.r>>), x.s)
    IN IF s.panicked THEN Panic(s)
       ELSE IF e[1] # "pi" THEN Ret([e |-> e, indices |-> indices], s)
       ELSE WalkBinders(w.r, i + 1, IF is_param THEN indices ELSE Append(indices, x.r), first, st, w.s)

\* The indices of a header and the level of its sort.
WalkHeader(ty, first, st, s) ==
    LET w == Whnf(ty, Clear(s))
        b == WalkBinders(w.r, 1, <<>>, first, st, w.s)
        l == EnsureSort(b.r.e, b.s)
    IN IF b.s.panicked THEN b
       ELSE IF l.s.panicked THEN l
       ELSE Ret([indices |-> b.r.indices, codom |-> l.r[2]], l.s)

AddHeader(i, h, st) ==
    [st EXCEPT !.indices = Append(@, h.indices), !.consts = Append(@, BlockConst(st.types[i].name, st))]

CheckInductiveSpec0th(st, s) ==
    LET h == WalkHeader(st.types[1].ty, TRUE, st, s) IN
    IF h.s.panicked THEN h ELSE Ret([AddHeader(1, h.r, st) EXCEPT !.codom = h.r.codom], h.s)

SameCodom(l, st) == EqAntisymm(l, st.codom) = "yes"

CheckInductiveSpecMutual1(i, st, s) ==
    LET h == WalkHeader(st.types[i].ty, FALSE, st, s) IN
    IF h.s.panicked THEN h
    ELSE Ret(AddHeader(i, h.r, st), Require(SameCodom(h.r.codom, st), h.s))

CheckInductiveSpec(i, st, s) ==
    IF i = 1 THEN CheckInductiveSpec0th(st, s) ELSE CheckInductiveSpecMutual1(i, st, s)

-----------------------------------------------------------------------------
(* Constructors.                                                           *)

\* The constructor's parameters are the block's.
RECURSIVE MatchParams(_, _, _, _)
MatchParams(e, i, st, s) ==
    IF s.panicked THEN Panic(s)
    ELSE IF i > Len(st.params) THEN Ret(e, s)
    ELSE IF e[1] # "pi" THEN Panic(s)
    ELSE MatchParams(Inst(e[3], <<st.params[i]>>), i + 1, st, AssertDefEq(e[2], st.params[i][4], s))

\* The types of the block occur in a field's type only at the end of its
\* products, and there validly.
RECURSIVE CheckPositivity1(_, _, _)
CheckPositivity1(e, st, s) ==
    LET w == Whnf(e, s)
        x == Fresh(w.r[2], w.s)
    IN IF w.s.panicked \/ ~HasIndOcc(w.r, st) THEN w.s
       ELSE IF w.r[1] # "pi" THEN Require(WhichValidIndApp(st, w.r) # 0, w.s)
       ELSE IF HasIndOcc(w.r[2], st) THEN Dead(w.s)
       ELSE CheckPositivity1(Inst(w.r[3], <<x.r>>), st, x.s)

EnsureInfersAsSort(e, s) ==
    LET t == Infer(e, "check", s)
        l == EnsureSort(t.r, t.s)
    IN IF l.s.panicked THEN l ELSE Ret(l.r[2], l.s)

\* Mutant of FieldFits: a field may be as large as the type that holds the
\* block.
FieldFitsNextSort(l, st) == BlockIsProp(st) \/ Leq(l, Succ(st.codom)) = "yes"

FieldFits(l, st) == BlockIsProp(st) \/ Leq(l, st.codom) = "yes"

CheckField(ty, st, s) ==
    LET l == EnsureInfersAsSort(ty, s) IN
    IF l.s.panicked THEN l.s
    ELSE IF ~FieldFits(l.r, st) THEN Dead(l.s)
    ELSE CheckPositivity1(ty, st, l.s)

\* The fields, then the type the constructor returns.
RECURSIVE CheckFields(_, _, _, _)
CheckFields(e, parent, st, s) ==
    LET x == Fresh(e[2], CheckField(e[2], st, s)) IN
    IF s.panicked THEN s
    ELSE IF e[1] = "pi" THEN CheckFields(Inst(e[3], <<x.r>>), parent, st, x.s)
    ELSE Require(IsValidIndApp(st, parent, e), s)

CheckCtor(parent, ty, st, s) ==
    LET m == MatchParams(ty, 1, st, Clear(s)) IN CheckFields(m.r, parent, st, m.s)

-----------------------------------------------------------------------------
(* The declarations that shadow the file's while the block is checked.     *)

Extend(ext, name, d) == (name :> d) @@ ext

IndDeclar(i, st) ==
    [kind |-> "ind", uparams |-> st.uparams, ty |-> st.types[i].ty,
     num_params |-> Len(st.params), num_indices |-> Len(st.indices[i]),
     ctors |-> [j \in DOMAIN st.types[i].ctors |-> st.types[i].ctors[j].name],
     all |-> [j \in DOMAIN st.types |-> st.types[j].name],
     is_recursive |-> FALSE, is_nested |-> IsNested(st)]

MkIndTysEnvExt(st) ==
    SE!FoldLeft(LAMBDA ext, i : Extend(ext, st.types[i].name, IndDeclar(i, st)), <<>>, [i \in DOMAIN st.types |-> i])

CtorDeclar(i, j, st) ==
    LET ctor == st.types[i].ctors[j] IN
    [kind |-> "ctor", uparams |-> st.uparams, ty |-> ctor.ty, inductive |-> st.types[i].name, idx |-> j - 1,
     num_params |-> Len(st.params), num_fields |-> PiTelescopeSize(ctor.ty) - Len(st.params)]

\* The positions of the block's constructors, type by type.
CtorPositions(st) ==
    SE!FlattenSeq([i \in DOMAIN st.types |-> [j \in DOMAIN st.types[i].ctors |-> <<i, j>>]])

\* Every constructor's type spells at least the parameters.
CtorsSpellParams(st) ==
    \A p \in SE!ToSet(CtorPositions(st)) : PiTelescopeSize(st.types[p[1]].ctors[p[2]].ty) >= Len(st.params)

MkCtorsEnvExt(st, ext, s) ==
    IF ~CtorsSpellParams(st) THEN Panic(s)
    ELSE Ret(SE!FoldLeft(LAMBDA acc, p : Extend(acc, st.types[p[1]].ctors[p[2]].name, CtorDeclar(p[1], p[2], st)),
                         ext, CtorPositions(st)), s)
=============================================================================
