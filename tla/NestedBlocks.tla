---------------------------- MODULE NestedBlocks ----------------------------
(***************************************************************************)
(* Nested occurrences (src/src/inductive.rs): a type that occurs in the    *)
(* parameters of another, earlier one (List Tree) is replaced by a copy of *)
(* that type made for the block, under a name of its own, so that what is  *)
(* checked is a mutual block without nesting.  What is made from the       *)
(* mutual block is then translated back and compared with the file.        *)
(*                                                                         *)
(* A step of the replacement returns the term, the state of the block and  *)
(* the state of the checker, [r, st, s].                                   *)
(***************************************************************************)
EXTENDS BlockTerms

Found3(r, st, s) == [r |-> r, st |-> st, s |-> s]

-----------------------------------------------------------------------------
(* Replacing nested occurrences.                                           *)

\* e's head is an inductive type all of whose parameters are there, and a type
\* of the block occurs in one of them.
IsNestedIndApp(st, e) ==
    LET f == Fun(e)
        n == Env[f[2]].num_params
    IN /\ e[1] = "app" /\ f[1] = "const" /\ IsKind(f[2], {"ind"})
       /\ n <= Len(Args(e))
       /\ \E i \in 1 .. n : FindConstNamed(Args(e)[i], TypeNames(st.types))

\* Mutant of TakenNames: only the names of the block itself are avoided.
TakenNamesOfBlock(st) == TypeNames(st.types)

\* The names a new type of the block may not have.
TakenNames(st) == DOMAIN Env

\* mk_unique_name: the first number whose name is free.
UniqueIndex(n, st) ==
    CHOOSE i \in st.ngen .. st.ngen + Cardinality(TakenNames(st)) :
        /\ AppendIndexAfter(n, i) \notin TakenNames(st)
        /\ \A j \in st.ngen .. i - 1 : AppendIndexAfter(n, j) \in TakenNames(st)

\* The type of a declaration at levels ls, with its first n parameters replaced
\* and the block's parameters in front.
AuxType(d, n, ls, args, outgoing, s) ==
    LET t == InstForallParams(SubstLevels(d.ty, d.uparams, ls), n, args, s) IN
    IF Len(d.uparams) # Len(ls) \/ HasFVars(d.ty) \/ t.s.panicked THEN Panic(s) ELSE Ret(AbstrPis(outgoing, t.r), s)

AuxCtors(J, aux, n, ls, args, outgoing, s) ==
    Each(LAMBDA c, t : LET o == AuxType(Env[c], n, ls, args, outgoing, t)
                       IN Ret([name |-> ReplacePfx(c, J, aux), ty |-> o.r], o.s),
         Env[J].ctors, s)

\* A copy of the type J for the occurrence f args, whose container has n
\* parameters, and its entry in the table that leads back.
AddContainer(J, n, f, args, outgoing, acc) ==
    LET st == acc.st
        i == UniqueIndex(ConcatName(NestedPfx, J), st)
        aux == AppendIndexAfter(ConcatName(NestedPfx, J), i)
        js == FoldlApps(Const(J, f[3]), SubSeq(args, 1, n))
        ty == AuxType(Env[J], n, f[3], args, outgoing, acc.s)
        ctors == AuxCtors(J, aux, n, f[3], args, outgoing, ty.s)
    IN IF acc.s.panicked \/ ctors.s.panicked THEN Found3(Bad, st, Dead(acc.s))
       ELSE Found3(IF J = f[2] THEN aux ELSE acc.r,
                   [st EXCEPT !.ngen = i + 1,
                              !.wfvars = Append(@, <<aux, ReplaceParams(js, st.params, outgoing)>>),
                              !.types = Append(@, [name |-> aux, ty |-> ty.r, ctors |-> ctors.r])],
                   ctors.s)

\* Mutant of KnownOccurrence: an occurrence is never met again.
KnownOccurrenceNever(e, st) == 0

\* The copy made before for the same container at the same parameters, or 0.
KnownOccurrence(e, st) == SE!SelectInSeq(st.wfvars, LAMBDA p : p[2] = e)

\* The occurrence e, whose parameters are closed but for the locals outgoing,
\* becomes its copy at the block's levels, applied to outgoing and e's indices.
\* The containers of Env are declared with all their types and constructors, so
\* that the lookups of get_inductive and get_constructor always find them; their
\* early None would leave the occurrence as it is.
ReplaceIfNested(e, st, outgoing, s) ==
    LET f == Fun(e)
        args == Args(e)
        n == Env[f[2]].num_params
        known == KnownOccurrence(ReplaceParams(FoldlApps(f, SubSeq(args, 1, n)), st.params, outgoing), st)
        made == SE!FoldLeft(LAMBDA acc, J : AddContainer(J, n, f, args, outgoing, acc), Found3(None, st, s), Env[f[2]].all)
        new == IF known # 0 THEN Found3(st.wfvars[known][1], st, s) ELSE made
    IN IF \E i \in 1 .. n : NumLooseBVars(args[i]) # 0 THEN Found3(Bad, st, Dead(s))
       ELSE Found3(FoldlApps(BlockConst(new.r, st), outgoing \o SubSeq(args, n + 1, Len(args))), new.st, new.s)

\* Outermost occurrences first, from left to right, without opening binders.
RECURSIVE ReplaceAllNested(_, _, _, _)
ReplaceAllNested(e, st, outgoing, s) ==
    LET At(x, o) == ReplaceAllNested(x, o.st, outgoing, o.s)
        start == Found3(e, st, s)
        first == At(e[2], start)
        second == At(e[3], first)
        third == At(e[4], second)
        inner == At(e[3], start)
    IN CASE s.panicked -> start
         [] ~s.panicked /\ IsNestedIndApp(st, e) -> ReplaceIfNested(e, st, outgoing, s)
         [] ~s.panicked /\ ~IsNestedIndApp(st, e) ->
              CASE e[1] = "app" \/ IsBinder(e) -> Found3(<<e[1], first.r, second.r>>, second.st, second.s)
                [] e[1] = "let" -> Found3(Let(first.r, second.r, third.r), third.st, third.s)
                [] e[1] = "proj" -> Found3(Proj(e[2], inner.r), inner.st, inner.s)
                [] OTHER -> start

\* One constructor, under parameters of its own.
SpecializeCtor(ctor, acc) ==
    LET p == GetLocalParams(ctor.ty, Len(acc.st.params), acc.s)
        n == ReplaceAllNested(p.r.e, acc.st, p.r.locals, p.s)
        ty == AbstrPis(p.r.locals, n.r)
    IN IF acc.s.panicked \/ ~Closed(ctor.ty) \/ p.s.panicked \/ n.s.panicked \/ HasFVars(ty)
       THEN Found3(Bad, acc.st, Dead(acc.s))
       ELSE Found3(Append(acc.r, [name |-> ctor.name, ty |-> ty]), n.st, n.s)

\* The body of specialize_nested_aux's loop: the types it adds come to the end
\* of the list and are met later.
SpecializeType(i, st, s) ==
    LET ctors == SE!FoldLeft(LAMBDA acc, c : SpecializeCtor(c, acc), Found3(<<>>, st, s), st.types[i].ctors) IN
    IF ctors.s.panicked THEN ctors
    ELSE Found3(None, [ctors.st EXCEPT !.types[i].ctors = ctors.r], ctors.s)

\* The table that leads back, with the block's parameters abstracted; every
\* type is closed.
EndSpecialize(st, s) ==
    LET closed == \A i \in DOMAIN st.types :
                     Closed(st.types[i].ty) /\ \A j \in DOMAIN st.types[i].ctors : Closed(st.types[i].ctors[j].ty)
        table == [k \in DOMAIN st.wfvars |-> <<st.wfvars[k][1], Abstr(st.wfvars[k][2], st.params)>>]
    IN Found3(None, [st EXCEPT !.nofvars = table], Require(closed, s))

\* The first header's parameters become the block's.
BeginSpecialize(uparams, num_params, types, s) ==
    LET p == GetLocalParams(types[1].ty, num_params, s) IN
    IF ~Closed(types[1].ty) \/ p.s.panicked THEN Found3(None, None, Dead(s))
    ELSE Found3(None, NewBlock(uparams, types, p.r.locals), p.s)

-----------------------------------------------------------------------------
(* Translating back.                                                       *)

TableEntry(n, st) == SE!SelectInSeq(st.nofvars, LAMBDA p : p[1] = n)

\* A constructor of a copy: the copy's entry in the table, or 0.
NestedOfAuxCtor(c, st) == IF IsKind(c, {"ctor"}) THEN TableEntry(Env[c].inductive, st) ELSE 0

\* A constructor of a copy under the container's name.
RestoreCtorName(c, st) == ReplacePfx(c, Env[c].inductive, Fun(st.nofvars[NestedOfAuxCtor(c, st)][2])[2])

RecEntry(n, recs) == SE!SelectInSeq(recs, LAMBDA p : p[1] = n)

\* A copy, or a constructor of one, applied to the block's parameters becomes
\* the occurrence it stands for, or the container's constructor; a copy's
\* recursor gets the name it has in the file.
ReplaceF(e, locals, st, recs) ==
    LET f == Fun(e)
        rest == SubSeq(Args(e), Len(st.params) + 1, Len(Args(e)))
        ty == TableEntry(f[2], st)
        ctor == NestedOfAuxCtor(f[2], st)
        occurrence == Inst(st.nofvars[ctor][2], locals)
    IN CASE f[1] # "const" -> None
         [] e[1] = "const" /\ RecEntry(f[2], recs) # 0 -> Const(recs[RecEntry(f[2], recs)][2], f[3])
         [] f[1] = "const" /\ ty # 0 -> FoldlApps(Inst(st.nofvars[ty][2], locals), rest)
         [] f[1] = "const" /\ ty = 0 /\ ctor # 0 ->
              FoldlApps(Const(RestoreCtorName(f[2], st), Fun(occurrence)[3]), Args(occurrence) \o rest)
         [] OTHER -> None

RECURSIVE RestoreReplace(_, _, _, _)
RestoreReplace(e, locals, st, recs) ==
    LET At(x) == RestoreReplace(x, locals, st, recs)
        r == ReplaceF(e, locals, st, recs)
    IN CASE r # None -> r
         [] r = None ->
              CASE e[1] = "app" \/ IsBinder(e) -> <<e[1], At(e[2]), At(e[3])>>
                [] e[1] = "let" -> Let(At(e[2]), At(e[3]), At(e[4]))
                [] e[1] = "proj" -> Proj(e[2], At(e[3]))
                [] OTHER -> e

\* Locals for the first n binders of either kind, and what is under them.
RECURSIVE OpenBinders(_, _, _)
OpenBinders(e, n, s) ==
    LET x == Fresh(e[2], s)
        rest == OpenBinders(Inst(e[3], <<x.r>>), n - 1, x.s)
    IN IF n = 0 THEN Ret([locals |-> <<>>, e |-> e], s)
       ELSE IF ~IsBinder(e) \/ s.panicked THEN Panic(s)
       ELSE IF rest.s.panicked THEN rest
       ELSE Ret([locals |-> <<x.r>> \o rest.r.locals, e |-> rest.r.e], rest.s)

RestoreE(e, st, recs, s) ==
    LET o == OpenBinders(e, Len(st.params), s)
        r == RestoreReplace(o.r.e, o.r.locals, st, recs)
    IN IF ~Closed(e) \/ o.s.panicked THEN Panic(s)
       ELSE Ret(IF e[1] = "pi" THEN AbstrPis(o.r.locals, r) ELSE AbstrLambdas(o.r.locals, r), o.s)

\* Mutant of RestoredRecName: the names are counted from 0.
RestoredRecNameFrom0(main, k) == AppendIndexAfter(RecName(main), k - 1)

\* The k-th copy's recursor is the main type's, numbered.
RestoredRecName(main, k) == AppendIndexAfter(RecName(main), k)

\* mk_specialized_rec_to_unspecialized_map, for a block of n types of the file.
SpecializedRecMap(types, n) ==
    [k \in 1 .. Len(types) - n |-> <<RecName(types[n + k].name), RestoredRecName(types[1].name, k)>>]

\* The recursor called name of the extended environment, translated back, for
\* a block whose types in the file are all.
RestoreRecursor1(name, all, st, recs, s) ==
    LET resolved == IF RecEntry(name, recs) = 0 THEN name ELSE recs[RecEntry(name, recs)][2]
        d == Env[name]
        ty == RestoreE(d.ty, st, recs, s)
        RestoreRule(rule, t) ==
            LET v == RestoreE(rule.val, st, recs, t) IN
            Ret([rule EXCEPT !.val = v.r, !.ctor = IF name = resolved THEN @ ELSE RestoreCtorName(@, st)], v.s)
        rules == Each(RestoreRule, d.rec_rules, ty.s)
    IN IF ~IsKind(name, {"rec"}) \/ rules.s.panicked THEN Panic(s)
       ELSE Ret([d EXCEPT !.ty = ty.r, !.all = all, !.rec_rules = rules.r], rules.s)
=============================================================================
