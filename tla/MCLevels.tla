----------------------------- MODULE MCLevels ------------------------------
(* Small universes for Levels: terms over two parameters.                  *)
EXTENDS Levels

Grow(S) == S \cup {Succ(x) : x \in S} \cup {Max(x, y) : x, y \in S} \cup {IMax(x, y) : x, y \in S}

Depth0 == {Zero, Param("u"), Param("v")}
Depth1 == Grow(Depth0)
Depth2 == Grow(Depth1)

\* Deeper terms with an imax or a max on top.
Deep == Depth2 \cup {IMax(x, y) : x \in Depth1, y \in Depth2} \cup {Max(x, y) : x \in Depth0, y \in Depth2}

NoSubst == {[ks |-> <<>>, vs |-> <<>>]}

\* Lists of up to two parameters and of up to two levels, of any lengths.
Keys == {<<>>, <<"u">>, <<"v">>, <<"u", "v">>, <<"v", "u">>}
Replacements == Depth0 \cup {Succ(Param("u")), Max(Param("u"), Param("v"))}
AllSubsts ==
    [ks : Keys, vs : {<<>>} \cup {<<x>> : x \in Replacements} \cup (Replacements \X Replacements)]

\* Deeper terms on the right, over one parameter.
Narrow1 == Grow({Zero, Param("u")})
Narrow2 == Grow(Narrow1)
DeepRight ==
    {Max(x, y) : x \in Narrow2, y \in Narrow1} \cup
    {IMax(x, y) : x \in Narrow2, y \in Narrow1} \cup {IMax(x, y) : x \in Narrow1, y \in Narrow2}

\* Each operation on the universe it needs.
Ordered == [op : {"leq", "eq_antisymm"}, l : Depth2, r : Depth1, s : NoSubst]
Tested == [op : {"is_zero", "is_nonzero", "is_never_zero", "simplify"}, l : Deep, r : {Zero}, s : NoSubst]
Substituted == [op : {"subst_level"}, l : Depth1, r : {Zero}, s : AllSubsts]
OrderedDeep == [op : {"leq"}, l : Narrow1, r : DeepRight, s : NoSubst]
Calls == Ordered \cup OrderedDeep \cup Tested \cup Substituted
=============================================================================
