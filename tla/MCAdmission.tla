---------------------------- MODULE MCAdmission -----------------------------
(* Small vocabularies of export-file lines for Admission.                   *)
EXTENDS Admission

\* A declaration with the fields its kind does not have left empty.
Plain(name, kind, uses, sound) ==
    [name |-> name, kind |-> kind, uses |-> uses, sound |-> sound,
     all |-> <<>>, ctors |-> {}, ind |-> "I", nested |-> FALSE]
Ind(name, all, ctors, nested) ==
    [Plain(name, "ind", {}, TRUE) EXCEPT !.all = all, !.ctors = ctors, !.nested = nested]
Ctor(name, ind, uses, nested) ==
    [Plain(name, "ctor", uses, TRUE) EXCEPT !.ind = ind, !.nested = nested]
Rec(name, all, sound) == [Plain(name, "rec", {"I"}, sound) EXCEPT !.all = all]

Single(d) == [inds |-> <<>>, ctors |-> <<>>, recs |-> <<>>, single |-> <<d>>, unsafe |-> FALSE]
BlockOf(inds, ctors, recs) ==
    [inds |-> inds, ctors |-> ctors, recs |-> recs, single |-> <<>>, unsafe |-> FALSE]
Unsafe(l) == [l EXCEPT !.unsafe = TRUE]

AllNames == {"I", "J", "c", "I.rec", "J.rec", "I.rec_1", "J.rec_1",
             "a", "b", "Eq", "Eq.refl", "Eq.rec", "Quot", "Quot.lift"}
MCRecName == [n \in {"I", "J"} |-> IF n = "I" THEN "I.rec" ELSE "J.rec"]
MCAuxRecName == [n \in {"I", "J"} |-> IF n = "I" THEN "I.rec_1" ELSE "J.rec_1"]
EqRecName == [n \in {"Eq"} |-> "Eq.rec"]
EqAuxRecName == [n \in {"Eq"} |-> "I.rec_1"]
MCQuots == {"Quot", "Quot.lift"}

-----------------------------------------------------------------------------
\* Axioms and values: each name, each kind, at most one constant used.
SmallSets(S) == {{}} \cup {{n} : n \in S}
PlainNames == {"a", "b", "c"}
PlainLines ==
    {Single(Plain(n, "axiom", u, TRUE)) : n \in PlainNames, u \in SmallSets(PlainNames)}
        \cup {Single(Plain(n, "def", u, s)) : n \in PlainNames, u \in SmallSets(PlainNames), s \in BOOLEAN}
        \cup {Single(Plain("a", "thm", {}, TRUE)),
              Unsafe(Single(Plain("a", "opaque", {}, TRUE))), Unsafe(Single(Plain("b", "axiom", {}, TRUE)))}

-----------------------------------------------------------------------------
\* Blocks of one or two types that are not nested, whole: whatever the file
\* says about who is in the group, whose constructor c is and which recursors
\* there are.
Alls == {<<"I">>, <<"J">>, <<"I", "J">>}
CtorSets == {{}, {"c"}}
IndsI == {Ind("I", a, k, FALSE) : a \in Alls, k \in CtorSets}
IndsJ == {Ind("J", a, {}, FALSE) : a \in Alls}
RecsI == {Rec("I.rec", a, s) : a \in Alls, s \in BOOLEAN}
RecsJ == {Rec("J.rec", a, TRUE) : a \in Alls}
Ctors == {Ctor("c", n, u, FALSE) : n \in {"I", "J"}, u \in SmallSets({"I"})}

UpTo2(S, T) == {<<>>} \cup {<<x>> : x \in S \cup T} \cup (S \X T)
WholeBlocks == {BlockOf(i, k, r) : i \in UpTo2(IndsI, IndsJ), k \in {<<>>} \cup {<<x>> : x \in Ctors},
                                   r \in UpTo2(RecsI, RecsJ)}

\* The same in pieces, for files that spread a block over several lines.
Pieces ==
    {BlockOf(<<Ind("I", a, k, FALSE)>>, <<>>, <<>>) : a \in Alls, k \in CtorSets}
        \cup {BlockOf(<<Ind("J", a, {}, FALSE)>>, <<>>, <<>>) : a \in Alls}
        \cup {BlockOf(<<Ind("I", a, {"c"}, FALSE), Ind("J", a, {}, FALSE)>>, <<Ctor("c", "I", {"I"}, FALSE)>>, r) :
                a \in Alls, r \in {<<>>} \cup {<<Rec("I.rec", b, TRUE), Rec("J.rec", b, TRUE)>> : b \in Alls}}
        \cup {BlockOf(<<Ind("I", <<"I">>, {"c"}, FALSE)>>, <<Ctor("c", "I", u, FALSE)>>, <<Rec("I.rec", <<"I">>, s)>>) :
                u \in SmallSets({"I"}), s \in BOOLEAN}
        \cup {BlockOf(<<>>, <<Ctor("c", n, {"I"}, FALSE)>>, <<>>) : n \in {"I", "J"}}
        \cup {BlockOf(<<>>, <<>>, <<r>>) : r \in RecsI \cup RecsJ}
        \cup {Unsafe(BlockOf(<<>>, <<>>, <<>>)), Single(Plain("J", "opaque", {"I.rec"}, TRUE))}

-----------------------------------------------------------------------------
\* A nested type I, alone or with J, and its recursors, in pieces.
NestedAlls == {<<"I">>, <<"I", "J">>, <<"J">>}
NestedRecs(s, a) == <<Rec("I.rec", a, s), Rec("I.rec_1", a, TRUE)>>
NestedLines ==
    {BlockOf(<<Ind("I", a, {"c"}, nst)>>, <<Ctor("c", "I", {"I"}, TRUE)>>, r) :
        a \in NestedAlls, nst \in BOOLEAN,
        r \in {<<>>} \cup {NestedRecs(s, b) : s \in BOOLEAN, b \in NestedAlls}}
        \cup {BlockOf(<<>>, <<>>, NestedRecs(s, a)) : s \in BOOLEAN, a \in NestedAlls}
        \cup {BlockOf(<<>>, <<>>, <<Rec("I.rec", a, s)>>) : s \in BOOLEAN, a \in NestedAlls}
        \cup {BlockOf(<<>>, <<>>, <<Rec("I.rec_1", a, TRUE)>>) : a \in NestedAlls}
        \cup {BlockOf(<<Ind("J", a, {}, nst)>>, <<>>, <<>>) : a \in NestedAlls, nst \in BOOLEAN}
        \cup {BlockOf(<<Ind("J", <<"J">>, {}, FALSE)>>, <<>>, <<Rec("J.rec", <<"J">>, TRUE)>>),
              BlockOf(<<Ind("I", <<"I", "J">>, {"c"}, TRUE), Ind("J", <<"I", "J">>, {}, TRUE)>>,
                      <<Ctor("c", "I", {"I"}, TRUE)>>,
                      NestedRecs(TRUE, <<"I", "J">>) \o <<Rec("J.rec", <<"I", "J">>, TRUE)>>),
              BlockOf(<<>>, <<>>, NestedRecs(TRUE, <<"I", "J">>) \o <<Rec("J.rec", <<"I", "J">>, TRUE)>>),
              Single(Plain("J", "def", {}, TRUE))}

-----------------------------------------------------------------------------
EqRecs == <<[Rec("Eq.rec", <<"Eq">>, TRUE) EXCEPT !.uses = {"Eq"}]>>
EqCtor(n) == [Ctor(n, "I", {"Eq"}, FALSE) EXCEPT !.ind = "Eq"]

\* The quotient primitives and the type Eq that Quot.lift needs.
QuotLines ==
    {Single(Plain(n, "quot", {}, s)) : n \in {"Quot", "Quot.lift", "a"}, s \in BOOLEAN}
        \cup {Single(Plain("Quot.lift", "quot", {"Quot"}, TRUE))}
        \cup {BlockOf(<<[Ind("Eq", <<"Eq">>, {k[i].name : i \in DOMAIN k}, FALSE) EXCEPT !.sound = s]>>,
                      k, EqRecs) :
                k \in {<<>>, <<EqCtor("Eq.refl")>>, <<EqCtor("c")>>, <<EqCtor("Eq.refl"), EqCtor("c")>>},
                s \in BOOLEAN}
        \cup {BlockOf(<<Ind("Eq", <<"Eq">>, {"Eq.refl"}, FALSE)>>, <<>>, EqRecs),
              BlockOf(<<>>, <<EqCtor("Eq.refl")>>, <<>>)}
        \cup {Single(Plain(n, "axiom", {m}, TRUE)) : n \in {"Eq", "Quot", "b"}, m \in {"Quot", "b"}}
=============================================================================
