------------------------------ MODULE MCExprs -------------------------------
(* Expressions for Exprs.                                                  *)
EXTENDS Exprs

U == Param("u")
S0 == Sort(Zero)
C == Const("c", <<Zero>>)
C1 == Const("c", <<U>>)

\* A value with its parameter in a binder's type and below it.
TheValue == Bind("lam", Sort(U), App(Const("d", <<U>>), Var(0)))
TheUparams == <<"u">>

\* Terms with n loose variables.
Leaves(n) == {Var(i) : i \in 0 .. n - 1} \cup {S0}
Apps(S) == {App(f, a) : f, a \in S}
Under1(n) == Leaves(n) \cup Apps(Leaves(n))

\* Telescopes whose types depend on earlier binders, with a body that uses them
\* at different depths, and one that ends where a product follows a lambda.
Dependent ==
    {Bind(gh[1], S0, Bind(gh[2], Var(0), b)) :
        gh \in {<<"lam", "lam">>, <<"pi", "pi">>, <<"lam", "pi">>},
        b \in {App(Var(0), Var(1)), App(Bind("lam", Var(1), App(Var(0), Var(2))), Var(1)),
               Let(S0, Var(1), App(Var(0), Var(2))), Let(S0, Var(1), Var(0)), Proj(0, App(Var(1), Bind("pi", Var(1), Var(2)))),
               Bind("pi", Var(0), Bind("lam", Var(2), App(Var(1), Var(3))))}}

\* The same part at two depths, where a cache must not mix them up, below a
\* telescope of one kind and one that ends where a lambda follows a product.
Shared(g) == {App(Bind(g, S0, x), x) : x \in {Var(0), App(Var(0), Var(1)), Bind("lam", S0, Var(1))}}

OverShared == UNION {{Bind(g, S0, Bind("lam", Var(0), x)) : x \in Shared(g)} : g \in {"lam", "pi"}}

\* Redexes over opened locals, with fewer, as many and more arguments than
\* lambdas.
Redexes ==
    LET body == App(Var(3), Bind("lam", Var(1), App(Var(0), Var(2))))
        fun == Bind("lam", S0, Bind("lam", Var(0), body))
    IN {Bind("lam", S0, Bind("pi", Var(0), Applied(fun, args))) :
           args \in {<<Var(0)>>, <<Var(0), Var(1)>>, <<App(Var(1), Var(0)), Var(0), Var(1)>>}}

\* Constants with different levels.
Unfoldings ==
    {Bind("lam", C, App(App(Const("e", <<>>), App(C, Var(0))), App(C1, Var(0))))} \cup
    {App(Const("c", <<l>>), App(Const("c", <<Succ(l)>>), S0)) : l \in {Zero, U}}

All == Dependent \cup OverShared \cup Redexes \cup Unfoldings
=============================================================================
