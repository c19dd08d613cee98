------------------------------- MODULE Checks -------------------------------
(***************************************************************************)
(* One TypeChecker and the calls made on it, in any order: what one call   *)
(* leaves in the caches, the counter and the mode is what the next one     *)
(* starts from.  Compared with Typing.                                     *)
(***************************************************************************)
EXTENDS TypeChecker, Typing

CONSTANTS
    Calls,      \* the calls that may come first: [op, ...]
    Later,      \* the calls that may follow
    MaxCalls    \* how many calls are made

ASSUME MaxCallsAssumption == MaxCalls \in Nat

VARIABLES
    tc,      \* the checker
    call,    \* the last call
    result,  \* what it returned
    calls    \* how many were made

vars == <<tc, call, result, calls>>

Init == tc = NewChecker /\ call = [op |-> "none"] /\ result = None /\ calls = 0

\* A call that did not panic leaves a checker the next one can use.
Make(op, Run(_, _)) ==
    /\ ~tc.panicked
    /\ calls < MaxCalls
    /\ \E c \in IF calls = 0 THEN Calls ELSE Later :
          /\ c.op = op
          /\ LET o == Run(c, tc) IN
             /\ call' = c
             /\ result' = IF o.s.panicked THEN Bad ELSE o.r
             /\ tc' = o.s
    /\ calls' = calls + 1

CallInfer == Make("infer", LAMBDA c, s : Infer(c.e, c.flag, s))
CallWhnf == Make("whnf", LAMBDA c, s : Whnf(c.e, s))
CallDefEq == Make("def_eq", LAMBDA c, s : DefEq(c.x, c.y, s))

\* check_declar_info_core: the type of a declaration has a type that is a sort,
\* and a theorem's is Prop.
CheckDeclarInfo(c, s) ==
    LET t == Infer(c.ty, "check", s)
        l == EnsureSort(t.r, t.s)
    IN IF ~l.s.panicked /\ c.is_theorem /\ IsZero(l.r[2]) # "yes" THEN Panic(l.s) ELSE l

\* The arms of check_declar for a definition and a theorem.
CheckDeclarValue(c, s) ==
    LET i == CheckDeclarInfo(c, s)
        v == Infer(c.val, "check", i.s)
    IN Ret(v.r, AssertDefEq(v.r, c.ty, v.s))

CallCheckDeclar == Make("check_declar", CheckDeclarValue)

\* The arm of check_declar for a quotient primitive.  The checkers it makes are
\* its own; with says which declarations of the environment are other ones.
Quot(with) == INSTANCE Quotients WITH Env <- with @@ Env
CheckQuot(c, s) == IF Quot(c.with)!CheckQuot(c.name, c.ty) THEN Ret(TRUE, s) ELSE Panic(s)

CallCheckQuot == Make("check_quot", CheckQuot)

\* The check is over, by a panic or because nothing more is asked.
Done == (tc.panicked \/ calls = MaxCalls) /\ UNCHANGED vars

Next == CallInfer \/ CallWhnf \/ CallDefEq \/ CallCheckDeclar \/ CallCheckQuot \/ Done

Spec == Init /\ [][Next]_vars
-----------------------------------------------------------------------------
(* Properties.                                                             *)

Names == DeclUparams

\* What def_eq calls equal is convertible, whatever was asked before.
DefEqSound ==
    call.op = "def_eq" /\ ~tc.panicked /\ result => Conv(call.x, call.y, 0)

\* def_eq finds every equality of the terms it is asked about, and never panics
\* on terms that are typed: a failure that was cached, or unfolding in the wrong
\* order, would lose one.
DefEqComplete ==
    call.op = "def_eq" => ~tc.panicked /\ (Conv(call.x, call.y, 0) => result)

\* A checked inference succeeds on the terms that are typed and on no other, one
\* that is not checked succeeds at least on those, and the type is the term's.
InferExact ==
    call.op = "infer" =>
        /\ call.flag = "check" => (tc.panicked <=> ~Typed(call.e, Names, 0))
        /\ Typed(call.e, Names, 0) => ~tc.panicked /\ ConvTypes(result, TheType(call.e, 0), 0)

\* whnf returns a weak head normal form of what it was given: what its head is
\* does not change by unfolding everything.
WhnfExact ==
    call.op = "whnf" =>
        /\ ~tc.panicked
        /\ Fun(WeakHead(result)) = Fun(result) \/ IsLit(result)
        /\ Conv(call.e, result, 0)

Textbook(with) == INSTANCE Typing WITH Env <- with @@ Env

\* A declaration passes exactly if its type is a type, a theorem's a
\* proposition, and its value has that type; a quotient primitive exactly if it
\* has the type its name stands for, and Quot.lift only if what the environment
\* calls Eq is equality.
DeclarExact ==
    /\ call.op = "check_declar" =>
         (~tc.panicked <=>
             /\ Typed(call.ty, Names, 0)
             /\ WeakHead(TheType(call.ty, 0))[1] = "sort"
             /\ call.is_theorem => IsProposition(call.ty, 0)
             /\ Typed(call.val, Names, 0)
             /\ ConvTypes(TheType(call.val, 0), call.ty, 0))
    /\ call.op = "check_quot" =>
         (~tc.panicked <=>
             /\ call.name \in {"Quot", "Quot.mk", "Quot.lift", "Quot.ind"}
             /\ call.name = "Quot.lift" => Textbook(call.with)!EqIsEquality
             /\ Textbook(call.with)!ConvTypes(call.ty, QuotType(call.name), 0))

\* The entries a cache has gained.
Added(c, d) == DOMAIN d \ DOMAIN c

\* Whatever a call adds to a cache is a fact: a checked type is the type of a
\* typed term, and a normal form or a pair of equals is convertible.  No later
\* call can be answered wrongly from it.  No binder stays open, and the mode is
\* as it was.
CallsLeaveOnlyFacts ==
    [][LET old == tc.cache
           new == tc'.cache
       IN ~tc'.panicked =>
            /\ tc'.counter = 0 /\ ~tc'.eager
            /\ \A e \in Added(old.infer_check, new.infer_check) :
                  Typed(e, Names, 0) /\ ConvTypes(new.infer_check[e], TheType(e, 0), 0)
            /\ \A e \in Added(old.infer_no_check, new.infer_no_check) :
                  ConvTypes(new.infer_no_check[e], TheType(e, 0), 0)
            /\ \A e \in Added(old.whnf, new.whnf) : Conv(e, new.whnf[e], 0)
            /\ \A e \in Added(old.whnf_no_unfolding, new.whnf_no_unfolding) :
                  Conv(e, new.whnf_no_unfolding[e], 0)
            /\ \A p \in new.eq \ old.eq : \A x, y \in p : Conv(x, y, 0)]_vars
=============================================================================
