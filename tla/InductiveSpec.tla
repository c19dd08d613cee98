---------------------------- MODULE InductiveSpec ----------------------------
(***************************************************************************)
(* What the checks of inductive types are compared with: inductive types   *)
(* as a textbook has them.  A nested occurrence (List Tree) is not         *)
(* replaced by anything: it makes List Tree one more family of the block,  *)
(* with its own motive and recursor.  Env has the block in it, and levels  *)
(* are compared by their values.                                           *)
(*                                                                         *)
(* A family is a type at levels and parameters, as the term it is; a block *)
(* is the list of the names of its types.                                  *)
(***************************************************************************)
EXTENDS Typing, Names

SE == INSTANCE SequencesExt

\* Values large enough for the levels of the blocks, whose offsets are at
\* most 2.
AtMost(l, r) == \A rho \in [ParamNames(l) \cup ParamNames(r) -> 0 .. 2] : Interp(l, rho) <= Interp(r, rho)
AlwaysZero(l) == AtMost(l, Zero)
NeverZero(l) == AtMost(One, l)
SameSort(l, r) == AtMost(l, r) /\ AtMost(r, l)

AnyOf(ns) == [i \in DOMAIN ns |-> Param(ns[i])]
Distinct(ns) == \A i, j \in DOMAIN ns : ns[i] = ns[j] => i = j
First(xs, n) == SubSeq(xs, 1, n)
After(xs, n) == SubSeq(xs, n + 1, Len(xs))

-----------------------------------------------------------------------------
(* Telescopes: the binders as variables with a role and a number, and what *)
(* is under them.  A constructor's fields are those its type spells out.   *)

RECURSIVE Open(_, _, _), Spelled(_, _, _), Peel(_, _)
LOCAL Before(x, o) == [xs |-> <<x>> \o o.xs, end |-> o.end]

LOCAL OpenHead(t, role, i) ==
    LET x == Unique(<<role, i>>, t[2]) IN
    IF t[1] = "pi" THEN Before(x, Open(At(t[3], x), role, i + 1)) ELSE [xs |-> <<>>, end |-> t]

Open(ty, role, i) == OpenHead(WeakHead(ty), role, i)

Spelled(ty, role, i) ==
    LET x == Unique(<<role, i>>, ty[2]) IN
    IF ty[1] = "pi" THEN Before(x, Spelled(At(ty[3], x), role, i + 1)) ELSE [xs |-> <<>>, end |-> ty]

Peel(ty, args) == IF args = <<>> THEN ty ELSE Peel(At(WeakHead(ty)[3], Head(args)), Tail(args))

Over(tag, xs, body) == SE!FoldRight(LAMBDA x, e : Bind(tag, x[4], AbstrFull(e, <<x>>, 0)), xs, body)
LevelIn(ty) == WeakHead(TheType(ty, 0))[2]

-----------------------------------------------------------------------------
(* Families: each the term, its indices, its sort, and its constructors     *)
(* with their fields; of a field, what it returns and from which arguments. *)

\* A type of the block in e or in the type of a variable of e.
RECURSIVE Mentions(_, _)
Mentions(e, b) == \E x \in SubExprs(e) : (x[1] = "const" /\ x[2] \in SE!ToSet(b)) \/ (IsLocal(x) /\ Mentions(x[4], b))

TypeWith(n, ls) == SubstLevelsFull(Env[n].ty, [ks |-> Env[n].uparams, vs |-> ls])
OwnLevels(b) == AnyOf(Env[b[1]].uparams)
NumParams(b) == Env[b[1]].num_params
BlockParams(b) == First(Open(Env[b[1]].ty, "param", 1).xs, NumParams(b))

CtorNames(f) == Env[Fun(f)[2]].ctors
CtorType(f, c) == Peel(TypeWith(c, Fun(f)[3]), Args(f))

\* e without its indices, if e is a type all of whose parameters are there.
Applied(e) ==
    IF Fun(e)[1] = "const" /\ IsKind(Fun(e)[2], {"ind"}) /\ Len(Args(e)) >= Env[Fun(e)[2]].num_params
    THEN FoldlApps(Fun(e), First(Args(e), Env[Fun(e)[2]].num_params)) ELSE e

IsNestedIn(e, b) == Applied(e) # Fun(e) /\ IsKind(Fun(e)[2], {"ind"}) /\ Fun(e)[2] \notin SE!ToSet(b)
                    /\ \E i \in DOMAIN Args(Applied(e)) : Mentions(Args(e)[i], b)

\* The occurrences of types of the block in the parameters of other types.
RECURSIVE Nested(_, _)
Nested(e, b) ==
    IF e[1] = "app" /\ IsNestedIn(e, b) THEN <<Applied(e)>>
    ELSE CASE e[1] = "app" \/ IsBinder(e) -> Nested(e[2], b) \o Nested(e[3], b)
           [] e[1] = "let" -> Nested(e[2], b) \o Nested(e[3], b) \o Nested(e[4], b)
           [] e[1] = "proj" -> Nested(e[3], b)
           [] OTHER -> <<>>

\* A container comes with the types it is mutual with.
WithSiblings(fs, f) ==
    IF f \in SE!ToSet(fs) \/ Loose(f) # {} THEN fs
    ELSE fs \o [i \in DOMAIN Env[Fun(f)[2]].all |-> FoldlApps(Const(Env[Fun(f)[2]].all[i], Fun(f)[3]), Args(f))]

RECURSIVE Closure(_, _, _)
Closure(fs, i, b) ==
    IF i > Len(fs) THEN fs
    ELSE Closure(SE!FoldLeft(WithSiblings, fs,
                     SE!FlattenSeq([j \in DOMAIN CtorNames(fs[i]) |-> Nested(CtorType(fs[i], CtorNames(fs[i])[j]), b)])),
                 i + 1, b)

LOCAL Field(x) == [x |-> x] @@ Open(x[4], "arg", 1)
LOCAL Ctor(c, o) == [name |-> c, fields |-> [i \in DOMAIN o.xs |-> Field(o.xs[i])], end |-> o.end]
LOCAL Family(f, o) ==
    [f |-> f, indices |-> o.xs, sort |-> o.end[2],
     ctors |-> [j \in DOMAIN CtorNames(f) |->
                  Ctor(CtorNames(f)[j], Spelled(CtorType(f, CtorNames(f)[j]), "field", 1))]]
LOCAL Described(fs) ==
    [i \in DOMAIN fs |-> Family(fs[i], Open(Peel(TypeWith(Fun(fs[i])[2], Fun(fs[i])[3]), Args(fs[i])), "index", 1))]
LOCAL Own(b, params) == [i \in DOMAIN b |-> FoldlApps(Const(b[i], OwnLevels(b)), params)]

Families(b) == Described(Closure(Own(b, BlockParams(b)), 1, b))

\* The family e is an application of, to indices free of the block, or 0.
FamilyOf(e, fs, b) ==
    SE!SelectInSeq(fs, LAMBDA f : /\ Applied(e) = f.f
                                  /\ Len(Args(e)) = Len(Args(f.f)) + Env[Fun(e)[2]].num_indices
                                  /\ \A i \in Len(Args(f.f)) + 1 .. Len(Args(e)) : ~Mentions(Args(e)[i], b))

IndicesOf(e) == After(Args(e), Len(Args(Applied(e))))

-----------------------------------------------------------------------------
(* Well-formed blocks.                                                     *)

\* The headers: types over the same parameters, params.
LOCAL HeaderOK(d, o, params, b) ==
    /\ Distinct(d.uparams) /\ d.uparams = Env[b[1]].uparams
    /\ Typed(d.ty, STRING, 0)
    /\ SE!ToSet(d.all) = SE!ToSet(b)
    /\ o.end[1] = "sort"
    /\ d.num_params = Len(params) /\ Len(o.xs) = d.num_params + d.num_indices
    /\ \A j \in DOMAIN params : ConvTypes(o.xs[j][4], params[j][4], 0)

\* The types of the block occur only at the end of products.
RECURSIVE Positive(_, _, _)
LOCAL PositiveAt(w, fs, b) ==
    \/ ~Mentions(w, b)
    \/ FamilyOf(w, fs, b) # 0
    \/ w[1] = "pi" /\ ~Mentions(w[2], b) /\ Positive(At(w[3], Unique(<<"under", w[2]>>, w[2])), fs, b)
Positive(e, fs, b) == PositiveAt(WeakHead(e), fs, b)

\* A constructor of a family: small and positive fields, and its own family at
\* the end.
CtorOK(f, c, fs, b) ==
    /\ FamilyOf(c.end, fs, b) # 0 /\ fs[FamilyOf(c.end, fs, b)] = f
    /\ \A j \in DOMAIN c.fields : /\ Positive(c.fields[j].x[4], fs, b)
                                  /\ AlwaysZero(f.sort) \/ AtMost(LevelIn(c.fields[j].x[4]), f.sort)

\* What a type of the block says of its constructor, the j-th.
LOCAL CtorDeclared(c, o, n, j, params) ==
    /\ Distinct(c.uparams) /\ Typed(c.ty, SE!ToSet(c.uparams), 0)
    /\ c.inductive = n /\ c.idx = j - 1
    /\ c.num_params = Len(params) /\ Len(o.xs) = c.num_params + c.num_fields
    /\ \A k \in DOMAIN params : ConvTypes(o.xs[k][4], params[k][4], 0)

LOCAL Declared(b, params) ==
    \A i \in DOMAIN b :
        LET d == Env[b[i]] IN
        /\ HeaderOK(d, Open(d.ty, "param", 1), params, b)
        /\ \A j \in DOMAIN d.ctors :
              CtorDeclared(Env[d.ctors[j]], Spelled(Env[d.ctors[j]].ty, "param", 1), b[i], j, params)

IsRecursiveBlock(b) ==
    \E i \in DOMAIN b : \E c \in SE!ToSet(Env[b[i]].ctors) :
        LET o == Spelled(Env[c].ty, "field", 1) IN \E j \in DOMAIN o.xs : Mentions(o.xs[j][4], b)

\* One sort for all families.
LOCAL FamiliesOK(fs, b) ==
    /\ \A i \in DOMAIN fs : SameSort(fs[i].sort, fs[1].sort)
    /\ \A i \in DOMAIN fs : \A j \in DOMAIN fs[i].ctors : CtorOK(fs[i], fs[i].ctors[j], fs, b)
    /\ \A i \in DOMAIN b : /\ Env[b[i]].is_recursive = IsRecursiveBlock(b)
                           /\ Env[b[i]].is_nested = (Len(fs) > Len(b))

WellFormed(b) == Declared(b, BlockParams(b)) /\ FamiliesOK(Families(b), b)
=============================================================================
