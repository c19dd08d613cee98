---------------------------- MODULE MCInductive -----------------------------
(* Blocks a file may have after some containers: good ones with their      *)
(* textbook recursors, and ones with a mistake each.                       *)
EXTENDS Inductive

TB(env) == INSTANCE RecursorSpec WITH Env <- env

K(n) == Const(n, <<>>)
Prop == Sort(Zero)
Type == Sort(One)
U == Param("u")
KU(n) == Const(n, <<U>>)
K1(n) == Const(n, <<One>>)
Pi(t, b) == Bind("pi", t, b)
Lam(t, b) == Bind("lam", t, b)
Ap2(f, x, y) == App(App(f, x), y)
Ap3(f, x, y, z) == App(Ap2(f, x, y), z)
A == K("A")
a == K("a")
NatT == K("Nat")
N0 == K("Nat.zero")
NSucc(n) == App(K("Nat.succ"), n)
Q(x) == App(K("q"), x)

-----------------------------------------------------------------------------
(* Declarations.                                                           *)

Axiom(ty) == [kind |-> "axiom", uparams |-> <<>>, ty |-> ty]
Def(ty, val) == [kind |-> "def", uparams |-> <<>>, ty |-> ty, val |-> val, hint |-> "regular", h |-> 1]

\* A type of a block, and a constructor with n fields.
Of0(name, ty, ctors) == [name |-> name, ty |-> ty, ni |-> 0, ctors |-> ctors]
OfN(name, ty, ni, ctors) == [name |-> name, ty |-> ty, ni |-> ni, ctors |-> ctors]
C(name, ty, n) == [name |-> name, ty |-> ty, n |-> n]

\* The types of a block with np parameters, and their constructors.
Decls(us, np, types, is_recursive, is_nested) ==
    LET all == [i \in DOMAIN types |-> types[i].name]
        Ctor(i, j) == LET c == types[i].ctors[j] IN
            [name |-> c.name,
             d |-> [kind |-> "ctor", uparams |-> us, ty |-> c.ty, inductive |-> all[i], idx |-> j - 1,
                    num_params |-> np, num_fields |-> c.n]]
    IN [i \in DOMAIN types |->
          [name |-> all[i],
           d |-> [kind |-> "ind", uparams |-> us, ty |-> types[i].ty, num_params |-> np, num_indices |-> types[i].ni,
                  ctors |-> [j \in DOMAIN types[i].ctors |-> types[i].ctors[j].name], all |-> all,
                  is_recursive |-> is_recursive, is_nested |-> is_nested]]]
       \o SE!FlattenSeq([i \in DOMAIN types |-> [j \in DOMAIN types[i].ctors |-> Ctor(i, j)]])

EnvOf(decls) == [n \in {decls[i].name : i \in DOMAIN decls} |-> decls[CHOOSE i \in DOMAIN decls : decls[i].name = n].d]

-----------------------------------------------------------------------------
(* The declarations before the block.                                      *)

SU == Sort(Succ(U))
ListOf(t) == App(Const("List", <<Zero>>), t)

Axioms ==
    "A" :> Axiom(Type) @@ "a" :> Axiom(A) @@ "p" :> Axiom(Prop) @@ "q" :> Axiom(Pi(A, Prop))
    @@ "_nested.List_1" :> Axiom(Type)
    @@ "LT" :> Def(Pi(Type, Type), Lam(Type, ListOf(Var(0))))
    @@ "Fn" :> Def(Pi(Type, Pi(Type, Type)), Lam(Type, Lam(Type, Pi(Var(1), Var(1)))))

Containers ==
    <<Decls(<<>>, 0, <<Of0("Nat", Type, <<C("Nat.zero", NatT, 0), C("Nat.succ", Pi(NatT, NatT), 1)>>)>>, TRUE, FALSE),
      Decls(<<"u">>, 1,
            <<Of0("List", Pi(SU, SU),
                  <<C("List.nil", Pi(SU, App(KU("List"), Var(0))), 0),
                    C("List.cons", Pi(SU, Pi(Var(0), Pi(App(KU("List"), Var(1)), App(KU("List"), Var(2))))), 2)>>)>>,
            TRUE, FALSE),
      Decls(<<>>, 1, <<Of0("Box", Pi(Type, Type), <<C("Box.mk", Pi(Type, Pi(Var(0), App(K("Box"), Var(1)))), 1)>>)>>,
            FALSE, FALSE),
      Decls(<<>>, 1, <<Of0("Neg", Pi(Type, Type),
                           <<C("Neg.mk", Pi(Type, Pi(Pi(Var(0), A), App(K("Neg"), Var(1)))), 1)>>)>>, FALSE, FALSE),
      Decls(<<>>, 2, <<Of0("And", Pi(Prop, Pi(Prop, Prop)),
                           <<C("And.intro", Pi(Prop, Pi(Prop, Pi(Var(1), Pi(Var(1), Ap2(K("And"), Var(3), Var(2)))))), 2)>>)>>,
            FALSE, FALSE),
      Decls(<<>>, 1,
            <<OfN("Vec", Pi(Type, Pi(NatT, Type)), 1,
                  <<C("Vec.nil", Pi(Type, Ap2(K("Vec"), Var(0), N0)), 0),
                    C("Vec.cons", Pi(Type, Pi(NatT, Pi(Var(1), Pi(Ap2(K("Vec"), Var(2), Var(1)),
                                  Ap2(K("Vec"), Var(3), NSucc(Var(2))))))), 3)>>)>>, TRUE, FALSE),
      Decls(<<>>, 1,
            <<Of0("TreeOf", Pi(Type, Type),
                  <<C("TreeOf.node", Pi(Type, Pi(Var(0), Pi(App(K("ForestOf"), Var(1)), App(K("TreeOf"), Var(2))))), 2)>>),
              Of0("ForestOf", Pi(Type, Type),
                  <<C("ForestOf.nil", Pi(Type, App(K("ForestOf"), Var(0))), 0),
                    C("ForestOf.cons", Pi(Type, Pi(App(K("TreeOf"), Var(0)), Pi(App(K("ForestOf"), Var(1)),
                                       App(K("ForestOf"), Var(2))))), 2)>>)>>, TRUE, FALSE)>>

MCBase == EnvOf(SE!FlattenSeq(Containers)) @@ Axioms

-----------------------------------------------------------------------------
(* Blocks that pass.                                                       *)

One0(name, ty, ctors, is_recursive, is_nested) == Decls(<<>>, 0, <<Of0(name, ty, ctors)>>, is_recursive, is_nested)
Tree == K("T")
EvenT(n) == App(K("Even"), n)
OddT(n) == App(K("Odd"), n)

E0 == One0("E", Type, <<>>, FALSE, FALSE)
Bool2 == One0("B", Type, <<C("B.no", K("B"), 0), C("B.yes", K("B"), 0)>>, FALSE, FALSE)
Nat2 == One0("N", Type, <<C("N.o", K("N"), 0), C("N.s", Pi(K("N"), K("N")), 1)>>, TRUE, FALSE)
Holds == One0("H", Prop, <<C("H.mk", Pi(K("p"), K("H")), 1)>>, FALSE, FALSE)
Witness == One0("W", Prop, <<C("W.mk", Pi(A, Pi(Q(Var(0)), K("W"))), 2)>>, FALSE, FALSE)
Either == Decls(<<>>, 2, <<Of0("Or", Pi(Prop, Pi(Prop, Prop)),
                <<C("Or.inl", Pi(Prop, Pi(Prop, Pi(Var(1), Ap2(K("Or"), Var(2), Var(1))))), 1),
                  C("Or.inr", Pi(Prop, Pi(Prop, Pi(Var(0), Ap2(K("Or"), Var(2), Var(1))))), 1)>>)>>, FALSE, FALSE)
Equal == Decls(<<"u">>, 2, <<OfN("Eq", Pi(Sort(U), Pi(Var(0), Pi(Var(1), Prop))), 1,
               <<C("Eq.refl", Pi(Sort(U), Pi(Var(0), Ap3(KU("Eq"), Var(1), Var(0), Var(0)))), 0)>>)>>, FALSE, FALSE)
Unit2 == Decls(<<"u">>, 0, <<Of0("PU", Sort(U), <<C("PU.mk", KU("PU"), 0)>>)>>, FALSE, FALSE)
Seq2 == Decls(<<"u">>, 1,
              <<Of0("S", Pi(SU, SU),
                    <<C("S.nil", Pi(SU, App(KU("S"), Var(0))), 0),
                      C("S.cons", Pi(SU, Pi(Var(0), Pi(App(KU("S"), Var(1)), App(KU("S"), Var(2))))), 2)>>)>>, TRUE, FALSE)
\* Well-founded parts of a relation on A.
Rel == Pi(A, Pi(A, Prop))
Reach == Decls(<<>>, 1, <<OfN("Acc", Pi(Rel, Pi(A, Prop)), 1,
               <<C("Acc.intro", Pi(Rel, Pi(A, Pi(Pi(A, Pi(Ap2(Var(2), Var(0), Var(1)), Ap2(K("Acc"), Var(3), Var(1)))),
                                             Ap2(K("Acc"), Var(2), Var(1))))), 2)>>)>>, TRUE, FALSE)
Branching == One0("T", Type, <<C("T.node", Pi(Ap2(K("Fn"), NatT, Tree), Tree), 1)>>, TRUE, FALSE)
EvenOdd == Decls(<<>>, 0,
                 <<OfN("Even", Pi(NatT, Prop), 1,
                       <<C("Even.zero", EvenT(N0), 0),
                         C("Even.next", Pi(NatT, Pi(OddT(Var(0)), EvenT(NSucc(Var(1))))), 2)>>),
                   OfN("Odd", Pi(NatT, Prop), 1,
                       <<C("Odd.next", Pi(NatT, Pi(EvenT(Var(0)), OddT(NSucc(Var(1))))), 2)>>)>>, TRUE, FALSE)
TreeForest == Decls(<<>>, 0,
                    <<Of0("T", Type, <<C("T.node", Pi(K("F"), Tree), 1)>>),
                      Of0("F", Type, <<C("F.nil", K("F"), 0), C("F.cons", Pi(Tree, Pi(K("F"), K("F"))), 2)>>)>>,
                    TRUE, FALSE)
OverFamily == Decls(<<>>, 0, <<Of0("Con", Type, <<C("Con.nil", K("Con"), 0)>>), OfN("Ty", Pi(K("Con"), Type), 1, <<>>)>>,
                    FALSE, FALSE)

Plain == {E0, Bool2, Nat2, Holds, Witness, Either, Equal, Unit2, Seq2, Reach, Branching, EvenOdd, TreeForest, OverFamily}

\* Nested ones.
NodeOf(field) == One0("T", Type, <<C("T.leaf", Tree, 0), C("T.node", Pi(field, Tree), 1)>>, TRUE, TRUE)
TreeList == NodeOf(ListOf(Tree))
TreeListList == NodeOf(ListOf(ListOf(Tree)))
TreeBox == NodeOf(App(K("Box"), Tree))
TreeTwice == One0("T", Type, <<C("T.node", Pi(ListOf(Tree), Pi(ListOf(Tree), Tree)), 2)>>, TRUE, TRUE)
TreeTrees == NodeOf(App(K("TreeOf"), Tree))
TreeVec == One0("T", Type, <<C("T.node", Pi(NatT, Pi(Ap2(K("Vec"), Tree, Var(0)), Tree)), 2)>>, TRUE, TRUE)
Both == One0("P", Prop, <<C("P.mk", Pi(Ap2(K("And"), K("P"), K("P")), K("P")), 1)>>, TRUE, TRUE)
Rose == Decls(<<>>, 1, <<Of0("Rose", Pi(Type, Type),
              <<C("Rose.node", Pi(Type, Pi(Var(0), Pi(ListOf(App(K("Rose"), Var(1))), App(K("Rose"), Var(2))))), 2)>>)>>,
              TRUE, TRUE)
Lists2 == Decls(<<>>, 0, <<Of0("X", Type, <<C("X.mk", Pi(ListOf(K("Y")), K("X")), 1)>>),
                           Of0("Y", Type, <<C("Y.mk", Pi(ListOf(K("X")), K("Y")), 1)>>)>>, TRUE, TRUE)

NestedOnes == {TreeList, TreeListList, TreeBox, TreeTwice, TreeTrees, TreeVec, Both, Rose, Lists2}

Good == Plain \cup NestedOnes

-----------------------------------------------------------------------------
(* Types that are no inductive types: rejected before any recursor is      *)
(* looked at.                                                              *)

Mk(field) == One0("T", Type, <<C("T.mk", Pi(field, Tree), 1)>>, TRUE, FALSE)
NegativeT == Mk(Pi(Tree, A))
InNeg == One0("T", Type, <<C("T.mk", Pi(App(K("Neg"), Tree), Tree), 1)>>, TRUE, TRUE)
Unfolded == Mk(App(K("LT"), Tree))
IllTyped == One0("T", Type, <<C("T.mk", Pi(a, Tree), 1)>>, FALSE, FALSE)
Elsewhere == One0("T", Type, <<C("T.mk", A, 0)>>, FALSE, FALSE)
NotASort == One0("T", A, <<>>, FALSE, FALSE)
OtherParams == Decls(<<>>, 1, <<Of0("N", Pi(Type, Type),
                     <<C("N.mk", Pi(Type, Pi(App(K("N"), App(K("Box"), Var(0))), App(K("N"), Var(1)))), 1)>>)>>, TRUE, FALSE)
TwiceU == Decls(<<"u", "u">>, 0, <<Of0("T", Type, <<>>)>>, FALSE, FALSE)
LooseParam == One0("T", Type, <<C("T.mk", Pi(NatT, Pi(App(K("Box"), Ap2(K("Vec"), Tree, Var(0))), Tree)), 2)>>, TRUE, TRUE)
TwoSorts == Decls(<<>>, 0, <<Of0("T", Type, <<>>), Of0("F", Prop, <<>>)>>, FALSE, FALSE)
InOwnIndex == Decls(<<>>, 0, <<OfN("V", Pi(Type, Type), 1, <<C("V.mk", Pi(App(K("V"), App(K("V"), A)), App(K("V"), A)), 1)>>)>>,
                    TRUE, FALSE)

Malformed == {NegativeT, InNeg, Unfolded, IllTyped, Elsewhere, NotASort, OtherParams, TwiceU, LooseParam, InOwnIndex}

\* Too large, by one.
TooLarge == {One0("T", Type, <<C("T.mk", Pi(Type, Tree), 1)>>, FALSE, FALSE),
             Decls(<<"u">>, 0, <<Of0("T", SU, <<C("T.mk", Pi(SU, KU("T")), 1)>>)>>, FALSE, FALSE)}

-----------------------------------------------------------------------------
(* With their recursors, and then a mistake.                               *)

\* The recursors' sort, if any will do, has the name v; elim says whether it
\* does, or leaves it to the textbook.
Case(decls, v, elim, edit) == [decls |-> decls, v |-> v, elim |-> elim, edit |-> edit]
Written(decls, edit) == Case(decls, IF "u" \in ToSet(decls[1].d.uparams) THEN "u_1" ELSE "u", "right", edit)

Keep == [do |-> "keep"]
SetField(n, f, val) == [do |-> "set", name |-> n, field |-> f, to |-> val]
Drop(n) == [do |-> "drop", name |-> n]
Copy(n, to) == [do |-> "copy", name |-> n, to |-> to]
Rename(names) == [do |-> "rename", to |-> names]
\* The rules of n, and their values, in another order.
Rules(n, order) == [do |-> "rules", name |-> n, to |-> order]
Values(n, order) == [do |-> "values", name |-> n, to |-> order]
\* The rules call to where they should call from.
Calls(from, to) == [do |-> "calls", from |-> from, to |-> to]

RECURSIVE Calling(_, _, _)
Calling(e, from, to) ==
    CASE e[1] = "const" /\ e[2] = from -> Const(to, e[3])
      [] e[1] = "app" \/ IsBinder(e) -> <<e[1], Calling(e[2], from, to), Calling(e[3], from, to)>>
      [] OTHER -> e

Edited(decls, e) ==
    LET Set(f, Val(_)) == [i \in DOMAIN decls |-> IF decls[i].name = e.name THEN [decls[i] EXCEPT !.d[f] = Val(@)] ELSE decls[i]]
        Named(n) == SelectSeq(decls, LAMBDA x : x.name = n)[1].d
    IN CASE e.do = "keep" -> decls
         [] e.do = "set" -> Set(e.field, LAMBDA x : e.to)
         [] e.do = "drop" -> SelectSeq(decls, LAMBDA x : x.name # e.name)
         [] e.do = "copy" -> Append(decls, [name |-> e.to, d |-> Named(e.name)])
         [] e.do = "rename" -> [i \in DOMAIN decls |-> IF decls[i].name \in DOMAIN e.to THEN [decls[i] EXCEPT !.name = e.to[@]]
                                                       ELSE decls[i]]
         [] e.do = "rules" -> Set("rec_rules", LAMBDA rs : [i \in DOMAIN e.to |-> rs[e.to[i]]])
         [] e.do = "values" -> Set("rec_rules", LAMBDA rs : [i \in DOMAIN e.to |-> [rs[i] EXCEPT !.val = rs[e.to[i]].val]])
         [] e.do = "calls" ->
              [i \in DOMAIN decls |->
                 IF decls[i].d.kind = "rec"
                 THEN [decls[i] EXCEPT !.d.rec_rules = [k \in DOMAIN @ |-> [@[k] EXCEPT !.val = Calling(@, e.from, e.to)]]]
                 ELSE decls[i]]

RecursorsFor(fs, c, b, env) ==
    TB(env)!Book(fs, IF c.elim = "right" THEN TB(env)!Eliminates(fs) ELSE c.elim = "large", TB(env)!BlockParams(b), b, c.v)
RecursorsIn(c, b, env) == RecursorsFor(TB(env)!Families(b), c, b, env)
BlockOf(c) == Edited(c.decls \o RecursorsIn(c, c.decls[1].d.all, EnvOf(c.decls) @@ MCBase), c.edit)

Accepted == {Written(b, Keep) : b \in Good} \cup {Case(Seq2, "w", "right", Keep)}
Rejected ==
    {Written(b, Keep) : b \in TooLarge \cup {TwoSorts}}
    \* Proofs told apart, and data kept from its recursor.
    \cup {Case(Witness, "u", "large", Keep), Case(Either, "u", "large", Keep), Case(Equal, "u_1", "small", Keep)}
    \cup {Written(Bool2, e) :
            e \in {SetField("B", "is_recursive", TRUE), SetField("B", "is_nested", TRUE), SetField("B.yes", "idx", 0),
                   SetField("B.rec", "uparams", <<"v", "w">>), SetField("B.rec", "num_minors", 1),
                   Values("B.rec", <<2, 1>>), Rules("B.rec", <<2, 1>>), Rules("B.rec", <<1>>),
                   Drop("B.rec"), Copy("B.rec", "B.rec_2"), Rename("B.rec" :> "B.recursor")}}
    \cup {Written(Nat2, SetField("N.s", "num_fields", 0)), Written(Equal, SetField("Eq.rec", "is_k", FALSE)),
          Written(Holds, SetField("H.rec", "is_k", TRUE)), Written(TreeList, SetField("T", "is_nested", FALSE))}
    \cup {Written(TreeForest, e) : e \in {Rename("T.rec" :> "F.rec" @@ "F.rec" :> "T.rec"), SetField("F.rec", "all", <<"F">>),
                                            Calls("F.rec", "T.rec")}}
    \cup {Written(TreeListList, e) : e \in {Rename("T.rec_1" :> "T.rec_2" @@ "T.rec_2" :> "T.rec_1"), Drop("T.rec_2")}}

MCBlocks == {BlockOf(c) : c \in Accepted \cup Rejected} \cup Malformed
=============================================================================
