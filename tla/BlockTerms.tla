----------------------------- MODULE BlockTerms -----------------------------
(***************************************************************************)
(* What the checks of a block of inductive types share (src/src/inductive.rs *)
(* and the helpers of src/src/expr.rs it calls): telescopes of locals, the *)
(* search for constants, and the state of the check of one block.          *)
(*                                                                         *)
(* A local of these checks has a number of its own: the checker's state    *)
(* has one more field, uniq, the next one.  As in TypeChecker, what can    *)
(* panic returns its result with the state it leaves, [r, s].              *)
(***************************************************************************)
EXTENDS TypeChecker, Names

\* TypeChecker::new on the context of the check.
Checker(uniq) == NewChecker @@ [uniq |-> uniq]

\* TcCache::clear
Clear(s) == [s EXCEPT !.cache = NewCache]

\* mk_unique
Fresh(ty, s) ==
    IF NumLooseBVars(ty) # 0 THEN Panic(s)
    ELSE Ret(Unique(<<"id", s.uniq>>, ty), [s EXCEPT !.uniq = @ + 1])

\* assert!(holds)
Require(holds, s) == IF holds THEN s ELSE Dead(s)

\* All of a list in order, the state passed along: the results, or panicked.
Each(Op(_, _), xs, s) ==
    SE!FoldLeft(LAMBDA acc, x : LET o == Op(x, acc.s) IN
                                IF acc.s.panicked THEN acc ELSE Ret(Append(acc.r, o.r), o.s),
                Ret(<<>>, s), xs)

Params(us) == [i \in DOMAIN us |-> Param(us[i])]

-----------------------------------------------------------------------------
(* Telescopes.                                                             *)

RECURSIVE PiTelescopeSize(_)
PiTelescopeSize(e) == IF e[1] = "pi" THEN 1 + PiTelescopeSize(e[3]) ELSE 0

ApplyLambda(x, body) == Bind("lam", x[4], Abstr(body, <<x>>))

AbstrLambdas(xs, body) == SE!FoldRight(ApplyLambda, xs, body)

\* The body under n products, with the first n of args in place of their
\* variables.
InstForallParams(e, n, args, s) ==
    IF PiTelescopeSize(e) < n THEN Panic(s) ELSE Ret(Inst(Body(e, n), SubSeq(args, 1, n)), s)

\* outgoing's locals become ingoing's.
ReplaceParams(e, ingoing, outgoing) == Inst(Abstr(e, outgoing), ingoing)

\* Locals for the first n products of e, and what is under them; the rest is
\* reduced after each.
RECURSIVE GetLocalParams(_, _, _)
GetLocalParams(e, n, s) ==
    LET x == Fresh(e[2], s)
        w == Whnf(Inst(e[3], <<x.r>>), x.s)
        rest == GetLocalParams(w.r, n - 1, w.s)
    IN IF n = 0 \/ s.panicked THEN Ret([locals |-> <<>>, e |-> e], s)
       ELSE IF e[1] # "pi" THEN Panic(s)
       ELSE IF rest.s.panicked THEN Panic(rest.s)
       ELSE Ret([locals |-> <<x.r>> \o rest.r.locals, e |-> rest.r.e], rest.s)

-----------------------------------------------------------------------------
(* Constants in terms: the types of locals count, and the type a projection *)
(* names does not.                                                         *)

RECURSIVE FindConstNamed(_, _)
FindConstNamed(e, names) ==
    CASE e[1] = "const" -> e[2] \in names
      [] e[1] = "app" \/ IsBinder(e) -> FindConstNamed(e[2], names) \/ FindConstNamed(e[3], names)
      [] e[1] = "let" -> \E i \in 2 .. 4 : FindConstNamed(e[i], names)
      [] IsLocal(e) -> FindConstNamed(e[4], names)
      [] e[1] = "proj" -> FindConstNamed(e[3], names)
      [] OTHER -> FALSE

NestedPfx == "_nested"

RECURSIVE HasNestedPfx(_)
HasNestedPfx(e) ==
    CASE e[1] = "const" -> HasRoot(e[2], NestedPfx)
      [] e[1] = "app" \/ IsBinder(e) -> HasNestedPfx(e[2]) \/ HasNestedPfx(e[3])
      [] e[1] = "let" -> \E i \in 2 .. 4 : HasNestedPfx(e[i])
      [] IsLocal(e) -> HasNestedPfx(e[4])
      [] e[1] = "proj" -> HasRoot(e[2][1], NestedPfx) \/ HasNestedPfx(e[3])
      [] OTHER -> FALSE

-----------------------------------------------------------------------------
(* InductiveCheckState: the types of the block, each [name, ty, ctors] with *)
(* ctors a list of [name, ty], those made for nested occurrences at the     *)
(* end, and what the stages of the check find out about them.               *)

NewBlock(uparams, types, params) ==
    [uparams |-> uparams, types |-> types, params |-> params, ngen |-> 1, wfvars |-> <<>>, nofvars |-> <<>>,
     indices |-> <<>>, codom |-> None, consts |-> <<>>, rec_uparams |-> <<>>, elim |-> None, is_k |-> FALSE,
     majors |-> <<>>, motives |-> <<>>, minors |-> <<>>]

IsNested(st) == st.nofvars # <<>>
TypeNames(types) == {types[i].name : i \in DOMAIN types}
BlockConst(n, st) == Const(n, Params(st.uparams))

\* is_zero and is_nonzero, set from the codomain.
BlockIsProp(st) == IsZero(st.codom) = "yes"
BlockIsNonzero(st) == IsNonzero(st.codom) = "yes"

HasIndOcc(e, st) == FindConstNamed(e, {st.consts[i][2] : i \in DOMAIN st.consts})

PositionOf(name, st) == SE!SelectInSeq(st.consts, LAMBDA c : c[2] = name)

\* Pointer by pointer: no parameter is compared up to convertibility.
CtorAppParamsOk(args, params) == Len(args) >= Len(params) /\ \A i \in DOMAIN params : args[i] = params[i]

\* e is the type called name at the block's levels and parameters, its indices
\* free of the block.
IsValidIndApp(st, name, e) ==
    LET args == Args(e)
        n == Len(st.params)
    IN /\ IsConst(Fun(e), name)
       /\ EqAntisymmMany(Fun(e)[3], Params(st.uparams))
       /\ Len(args) = n + Len(st.indices[PositionOf(name, st)])
       /\ \A k \in n + 1 .. Len(args) : ~HasIndOcc(args[k], st)
       /\ CtorAppParamsOk(args, st.params)

\* The first type of the block e is a valid application of, or 0.
WhichValidIndApp(st, e) == SE!SelectInSeq(st.consts, LAMBDA c : IsValidIndApp(st, c[2], e))

\* get_i_indices: that type and its indices.
GetIIndices(st, e, s) ==
    LET i == WhichValidIndApp(st, e) IN
    IF i = 0 THEN Panic(s) ELSE Ret([ty |-> i, indices |-> SubSeq(Args(e), Len(st.params) + 1, Len(Args(e)))], s)
=============================================================================
