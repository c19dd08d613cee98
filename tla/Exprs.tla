------------------------------- MODULE Exprs --------------------------------
(***************************************************************************)
(* How the checker goes under binders (src/src/expr.rs, src/src/util.rs    *)
(* and their callers in src/src/tc.rs): the steps of Binders, each with    *)
(* the code's own traversals, which skip what need not be visited and keep *)
(* what they made in the caches of TcCtx.                                  *)
(***************************************************************************)
EXTENDS CachedTerms, Binders

CONSTANTS
    MaxSteps     \* bound on the steps that open or reduce

VARIABLES
    caches,      \* [inst, abstr, levels, subst], cleared by the next use
    dsubst,      \* dsubst_cache, never cleared
    steps

cachedVars == <<vars, caches, dsubst, steps>>

CachedInit ==
    /\ Init
    /\ caches = [inst |-> NoEntries, abstr |-> NoEntries, levels |-> NoEntries, subst |-> NoEntries]
    /\ dsubst = NoEntries
    /\ steps = 0

Step == steps < MaxSteps /\ steps' = steps + 1

-----------------------------------------------------------------------------
(* Opening a telescope: every binder of one kind at the head of at.        *)

\* The locals for the first binders of e, numbered from first on; the types of
\* a telescope mention the locals opened for its earlier binders.
Telescope(how, first, e, c) ==
    LET T[k \in Nat] ==
            IF k = 0 THEN [locals |-> <<>>, c |-> c]
            ELSE LET earlier == T[k - 1]
                     t == Inst(Down(e, 3)[k - 1][2], earlier.locals, earlier.c)
                 IN [locals |-> Append(earlier.locals, MkLocal(how, first + k - 1, t.e)), c |-> t.c]
    IN T

\* A type checker is made with its counter at 0 and runs within the other
\* modules, so that unique locals are opened outside all others.
Open(how) ==
    /\ IsBinder(at)
    /\ how = "unique" => dbjLevelCounter = 0
    /\ Step
    /\ frames' = Append(frames, [tag |-> at[1], how |-> how, start |-> Len(opened), caller |-> at, meaning |-> plain])
    /\ LET n == RunLength(at, 3, at[1])
           first == IF how = "dbj" THEN dbjLevelCounter ELSE uniqueCounter
           tele == Telescope(how, first, at, caches.inst)[n]
           body == Inst(Down(at, 3)[n], tele.locals, tele.c)
       IN
       /\ at' = body.e
       /\ opened' = opened \o tele.locals
       /\ caches' = [caches EXCEPT !.inst = body.c]
       /\ IF how = "dbj" THEN dbjLevelCounter' = first + n /\ UNCHANGED uniqueCounter
          ELSE uniqueCounter' = first + n /\ UNCHANGED dbjLevelCounter
    /\ LET n == RunLength(plain, 3, plain[1]) IN
       plain' = Down(plain, 3)[n] /\ context' = context \o BinderTypes(plain, n)
    /\ at' \in ExprsTo[ExprDepth] /\ opened' \in Seq(ExprsTo[ExprDepth])
    /\ UNCHANGED dsubst

-----------------------------------------------------------------------------
(* Closing it.                                                             *)

\* The locals of a telescope, last first: each gives its number back, and then
\* its type is abstracted.
CloseByLevels(locals, startPos, body) ==
    LET B[k \in Nat] ==
            IF k = 0 THEN body
            ELSE LET i == Len(locals) - k + 1
                     below == B[k - 1]
                     t == AbstrLevels(locals[i][4], startPos, startPos + i - 1, below.c)
                 IN [e |-> Bind("pi", t.e, below.e), c |-> t.c]
    IN B[Len(locals)]

\* infer_lambda turns the type of the body into a function type.
CloseLambda ==
    /\ frames # <<>> /\ Top.how = "dbj" /\ Top.tag = "lam"
    /\ Pop
    /\ dbjLevelCounter' = StartPos /\ UNCHANGED uniqueCounter
    /\ LET body == AbstrLevels(at, StartPos, dbjLevelCounter, caches.levels)
           closed == CloseByLevels(TopLocals, StartPos, body)
       IN at' = closed.e /\ caches' = [caches EXCEPT !.levels = closed.c]
    /\ plain' = CloseTypes("pi", TopTypes, plain)
    /\ at' \in ExprsTo[ExprDepth]
    /\ UNCHANGED <<dsubst, steps>>

\* Mutant of CounterAfterLeave: only one level is given back.
CounterOneBack == dbjLevelCounter - 1

CounterAfterLeave == StartPos

\* infer_pi and def_eq_binder_aux leave a telescope without an expression made
\* of its locals, and their caller goes on with what it had.
Leave ==
    /\ frames # <<>> /\ Top.how = "dbj"
    /\ Pop
    /\ dbjLevelCounter' = CounterAfterLeave
    /\ at' = Top.caller /\ plain' = Top.meaning
    /\ UNCHANGED <<uniqueCounter, caches, dsubst, steps>>

\* abstr_pi_telescope and abstr_lambda_telescope abstract one local after the
\* other, so that its number of binders takes care of the types as well.
CloseByAbstr(tag, locals, e, c) ==
    LET B[k \in Nat] ==
            IF k = 0 THEN [e |-> e, c |-> c]
            ELSE LET x == locals[Len(locals) - k + 1]
                     below == B[k - 1]
                     b == Abstr(below.e, <<x>>, below.c)
                 IN [e |-> Bind(tag, x[4], b.e), c |-> b.c]
    IN B

CloseTelescope(tag) ==
    /\ frames # <<>> /\ Top.how = "unique"
    /\ Pop
    /\ LET closed == CloseByAbstr(tag, TopLocals, at, caches.abstr) IN
       /\ at' = closed[Len(TopLocals)].e
       /\ caches' = [caches EXCEPT !.abstr = closed[Len(TopLocals)].c]
       /\ \A k \in 0 .. Len(TopLocals) : closed[k].e \in ExprsTo[ExprDepth]
    /\ plain' = CloseTypes(tag, TopTypes, plain)
    /\ UNCHANGED <<dbjLevelCounter, uniqueCounter, dsubst, steps>>

\* A telescope that was opened twice, as the parameters of an inductive type and
\* of its constructors: replace_params moves what mentions one list of locals
\* over to the other.
ReplaceParams ==
    /\ frames # <<>> /\ Top.how = "unique"
    /\ Step
    /\ LET n == RunLength(Top.caller, 3, Top.tag)
           ingoing == Telescope("unique", uniqueCounter, Top.caller, caches.inst)[n]
           a == Abstr(at, TopLocals, caches.abstr)
           r == Inst(a.e, ingoing.locals, ingoing.c)
       IN
       /\ at' = r.e
       /\ opened' = SubSeq(opened, 1, Top.start) \o ingoing.locals
       /\ uniqueCounter' = uniqueCounter + n
       /\ caches' = [caches EXCEPT !.abstr = a.c, !.inst = r.c]
    /\ at' \in ExprsTo[ExprDepth] /\ opened' \in Seq(ExprsTo[ExprDepth])
    /\ UNCHANGED <<frames, dbjLevelCounter, dsubst, plain, context>>

-----------------------------------------------------------------------------
(* Going on with a part, and reducing.                                     *)

Focus == Narrow /\ UNCHANGED <<caches, dsubst, steps>>

\* Up to as many arguments as there are lambdas, in one instantiation.
Beta ==
    LET m == RunLength(at, 2, "app")
        fun == Down(at, 2)[m]
        lambdas == RunLength(fun, 3, "lam")
        n == IF m <= lambdas THEN m ELSE lambdas
        args == Args(at, m)
        body == Inst(Down(fun, 3)[n], SubSeq(args, 1, n), caches.inst)
        reduced == Reduced(Down(plain, 2)[m], Args(plain, m))
    IN
    /\ n > 0
    /\ Step
    /\ at' = Applied(body.e, SubSeq(args, n + 1, m))
    /\ caches' = [caches EXCEPT !.inst = body.c]
    /\ plain' = Applied(reduced[n], SubSeq(Args(plain, m), n + 1, m))
    /\ at' \in ExprsTo[ExprDepth] /\ \A k \in 0 .. n : reduced[k] \in ExprsTo[ExprDepth]
    /\ UNCHANGED <<dsubst, scope>>

Zeta ==
    LET m == RunLength(at, 2, "app")
        fun == Down(at, 2)[m]
        meaning == Down(plain, 2)[m]
        body == Inst(fun[4], <<fun[3]>>, caches.inst)
    IN
    /\ fun[1] = "let"
    /\ Step
    /\ at' = Applied(body.e, Args(at, m))
    /\ caches' = [caches EXCEPT !.inst = body.c]
    /\ plain' = Applied(Subst1Full(meaning[4], meaning[3]), Args(plain, m))
    /\ at' \in ExprsTo[ExprDepth]
    /\ UNCHANGED <<dsubst, scope>>

\* unfold_def, for a constant given as many levels as it has parameters.
Unfold ==
    LET m == RunLength(at, 2, "app")
        fun == Down(at, 2)[m]
        meaning == Down(plain, 2)[m]
        val == SubstExprLevels(Value, [ks |-> Uparams, vs |-> fun[3]], caches.subst, dsubst)
    IN
    /\ fun[1] = "const" /\ Len(fun[3]) = Len(Uparams)
    /\ Step
    /\ at' = Applied(val.e, Args(at, m))
    /\ caches' = [caches EXCEPT !.subst = val.c] /\ dsubst' = val.dsubst
    /\ plain' = Applied(PlugLevels(Value, [ks |-> Uparams, vs |-> meaning[3]]), Args(plain, m))
    /\ at' \in ExprsTo[ExprDepth]
    /\ UNCHANGED scope

CachedNext ==
    \/ Open("dbj") \/ Open("unique")
    \/ CloseLambda \/ Leave \/ CloseTelescope("pi") \/ CloseTelescope("lam") \/ ReplaceParams
    \/ Focus \/ Beta \/ Zeta \/ Unfold

CachedSpec == CachedInit /\ [][CachedNext]_cachedVars

-----------------------------------------------------------------------------
(* Properties.                                                             *)

\* The code's traversals, which skip what needs no visit, keep what they made and
\* use it again, do what Binders says: every step is one of its own.
ImplementsBinders == Spec
=============================================================================
