---------------------------- MODULE RecursorSpec -----------------------------
(***************************************************************************)
(* The recursors of a block as a textbook has them, one for every family,  *)
(* and what the rules of a recursor owe its type.                          *)
(***************************************************************************)
EXTENDS InductiveSpec

\* A proposition is eliminated into data only if its values hold none: it has
\* at most one constructor, whose fields are proofs or can be read off its type.
Eliminates(fs) ==
    \/ NeverZero(fs[1].sort)
    \/ /\ Len(fs) = 1 /\ Len(fs[1].ctors) <= 1
       /\ \A c \in SE!ToSet(fs[1].ctors) : \A i \in DOMAIN c.fields :
             AlwaysZero(LevelIn(c.fields[i].x[4])) \/ c.fields[i].x \in SE!ToSet(Args(c.end))

\* Any two proofs are the one constructor, and it has no fields.
HasK(fs) == AlwaysZero(fs[1].sort) /\ Len(fs) = 1 /\ Len(fs[1].ctors) = 1 /\ fs[1].ctors[1].fields = <<>>

RecursorOf(b, i) == IF i <= Len(b) THEN RecName(b[i]) ELSE AppendIndexAfter(RecName(b[1]), i - Len(b))

Value(f, c, fields) == FoldlApps(FoldlApps(Const(c, Fun(f)[3]), Args(f)), fields)
Major(f) == Unique(<<"major", 1>>, FoldlApps(f.f, f.indices))
Xs(fields) == [i \in DOMAIN fields |-> fields[i].x]

\* The motives, and what the induction says of the field u, whose values are
\* values of a family.
Motives(fs, elim) ==
    [i \in DOMAIN fs |-> Unique(<<"motive", i>>, Over("pi", Append(fs[i].indices, Major(fs[i])), Sort(elim)))]

RecFields(c, fs, b) == SelectSeq(c.fields, LAMBDA u : FamilyOf(u.end, fs, b) # 0)

Hypothesis(u, fs, b, motives) ==
    Over("pi", u.xs, App(FoldlApps(motives[FamilyOf(u.end, fs, b)], IndicesOf(u.end)), FoldlApps(u.x, u.xs)))

Minor(i, j, fs, b, motives) ==
    LET c == fs[i].ctors[j]
        rs == RecFields(c, fs, b)
        hyps == [k \in DOMAIN rs |-> Unique(<<"hyp", k>>, Hypothesis(rs[k], fs, b, motives))]
    IN Unique(<<"minor", <<i, j>>>>,
              Over("pi", Xs(c.fields) \o hyps,
                   App(FoldlApps(motives[i], IndicesOf(c.end)), Value(fs[i].f, c.name, Xs(c.fields)))))

\* All recursors of the block b over the parameters ps; large if they eliminate
\* into Sort v.
Book(fs, large, ps, b, v) ==
    LET uparams == (IF large THEN <<v>> ELSE <<>>) \o Env[b[1]].uparams
        motives == Motives(fs, IF large THEN Param(v) ELSE Zero)
        minors == [i \in DOMAIN fs |-> [j \in DOMAIN fs[i].ctors |-> Minor(i, j, fs, b, motives)]]
        shared == ps \o motives \o SE!FlattenSeq(minors)
        Rec(i) == FoldlApps(Const(RecursorOf(b, i), AnyOf(uparams)), shared)
        Recurse(u) == Over("lam", u.xs, App(FoldlApps(Rec(FamilyOf(u.end, fs, b)), IndicesOf(u.end)), FoldlApps(u.x, u.xs)))
        Rule(i, j) ==
            LET c == fs[i].ctors[j]
                rs == RecFields(c, fs, b)
            IN [ctor |-> c.name, nfields |-> Len(c.fields),
                val |-> Over("lam", shared \o Xs(c.fields),
                             FoldlApps(minors[i][j], Xs(c.fields) \o [k \in DOMAIN rs |-> Recurse(rs[k])]))]
    IN [i \in DOMAIN fs |->
          [name |-> RecursorOf(b, i),
           d |-> [kind |-> "rec", uparams |-> uparams, all |-> b, num_params |-> Len(ps),
                  num_motives |-> Len(fs), num_minors |-> Len(SE!FlattenSeq(minors)), num_indices |-> Len(fs[i].indices),
                  ty |-> Over("pi", shared \o Append(fs[i].indices, Major(fs[i])),
                              App(FoldlApps(motives[i], fs[i].indices), Major(fs[i]))),
                  rec_rules |-> [j \in DOMAIN fs[i].ctors |-> Rule(i, j)], is_k |-> HasK(fs)]]]

LOCAL BookOf(fs, b, v) == Book(fs, Eliminates(fs), BlockParams(b), b, v)

Textbook(b, v) == BookOf(Families(b), b, v)

-----------------------------------------------------------------------------
(* A recursor of the environment is the textbook's t up to the names of its *)
(* universe parameters.                                                    *)

LOCAL Agrees(t) ==
    LET d == Env[t.name]
        Named(e) == SubstLevelsFull(e, [ks |-> d.uparams, vs |-> AnyOf(t.d.uparams)])
    IN /\ IsKind(t.name, {"rec"})
       /\ Distinct(d.uparams) /\ Len(d.uparams) = Len(t.d.uparams)
       /\ \A n \in {"num_params", "num_motives", "num_minors", "num_indices", "is_k"} : d[n] = t.d[n]
       /\ SE!ToSet(d.all) = SE!ToSet(t.d.all)
       /\ ConvTypes(Named(d.ty), t.d.ty, 0)
       /\ Len(d.rec_rules) = Len(t.d.rec_rules)
       /\ \A j \in DOMAIN d.rec_rules : /\ d.rec_rules[j].ctor = t.d.rec_rules[j].ctor
                                        /\ d.rec_rules[j].nfields = t.d.rec_rules[j].nfields
                                        /\ Conv(Named(d.rec_rules[j].val), t.d.rec_rules[j].val, 0)

LOCAL BookAgrees(book, names) ==
    names = {book[i].name : i \in DOMAIN book} /\ \A i \in DOMAIN book : Agrees(book[i])

\* names are the recursors the environment has for the block.
RecursorsAgree(b, names) == BookAgrees(Textbook(b, "elim"), names)

-----------------------------------------------------------------------------
(* Reduction by a rule keeps the type: read off the recursor's own type and *)
(* the constructor's, whatever the textbook says.                          *)

\* ty is the recursor's type, shared its parameters, motives and minor premises,
\* family the type it takes apart, fields those of the constructor.
LOCAL SameType(rule, ty, shared, family, fields) ==
    /\ rule.nfields = Len(fields.xs)
    /\ ConvTypes(TheType(FoldlApps(rule.val, shared \o fields.xs), 0),
                 Peel(ty, shared \o IndicesOf(fields.end) \o <<Value(family, rule.ctor, fields.xs)>>), 0)

LOCAL SameTypeAt(rule, d, shared, family) ==
    SameType(rule, d.ty, shared, family, Spelled(CtorType(family, rule.ctor), "field", 1))

LOCAL SameTypeUnder(rule, d, xs) ==
    LET n == d.num_params + d.num_motives + d.num_minors IN
    SameTypeAt(rule, d, First(xs, n), Applied(xs[n + d.num_indices + 1][4]))

RulePreservesType(r, rule) ==
    /\ Typed(rule.val, SE!ToSet(Env[r].uparams), 0)
    /\ SameTypeUnder(rule, Env[r], Open(Env[r].ty, "param", 1).xs)
=============================================================================
