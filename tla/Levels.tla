------------------------------- MODULE Levels -------------------------------
(***************************************************************************)
(* The operations on universe levels (src/src/level.rs), each a step on    *)
(* arguments chosen in the initial state, against the denotation of        *)
(* levels.                                                                 *)
(***************************************************************************)
EXTENDS LevelTerms

CONSTANTS
    Inputs,   \* the calls: records [op, l, r, s] of an operation, the levels it is
              \* applied to and a substitution [ks, vs]
    Values    \* the values assignments give to parameters

Substs == [ks : Seq(STRING), vs : Seq(Level)]
Operations == {"leq", "eq_antisymm", "is_zero", "is_nonzero", "is_never_zero", "simplify", "subst_level"}

\* Where levels are substituted there is room for the result.
ASSUME InputsAssumption ==
    /\ Inputs \subseteq [op : Operations, l : Level, r : Level, s : Substs]
    /\ \A i \in Inputs : i.op = "subst_level" => SubstLevel(i.l, i.s) \in Level
    /\ Values \subseteq Nat /\ 0 \in Values

Assignments(names) == [names -> Values]

LeqSem(l, r) ==
    \A rho \in Assignments(ParamNames(l) \cup ParamNames(r)) : Interp(l, rho) <= Interp(r, rho)

EqSem(l, r) ==
    \A rho \in Assignments(ParamNames(l) \cup ParamNames(r)) : Interp(l, rho) = Interp(r, rho)

\* No imax but where an imax has another on its right.
NoIMaxArm(l, No) ==
    CASE l[1] \in {"zero", "param"} -> TRUE
      [] Is(l, "succ") -> No[l[2]]
      [] Is(l, "max")  -> No[l[2]] /\ No[l[3]]
      [] Is(l, "imax") -> FALSE

NoIMax(l) == LET No[x \in Level] == NoIMaxArm(x, No) IN No[l]

IMaxOnSpineArm(l, On) == NoIMax(l) \/ (Is(l, "imax") /\ NoIMax(l[2]) /\ On[l[3]])

IMaxOnSpine(l) == LET On[x \in Level] == IMaxOnSpineArm(x, On) IN On[l]

-----------------------------------------------------------------------------
(* One call of an operation, on arguments the initial state picks.         *)

VARIABLES input, result

vars == <<input, result>>

lhs == input.l
rhs == input.r
subst == input.s

Init == input \in Inputs /\ result = [op |-> "none"]

Call(op, Value(_)) ==
    /\ result.op = "none"
    /\ input.op = op
    /\ result' = [op |-> op, value |-> Value(input)]
    /\ UNCHANGED input

CallLeq == Call("leq", LAMBDA i : Leq(i.l, i.r))
CallEqAntisymm == Call("eq_antisymm", LAMBDA i : EqAntisymm(i.l, i.r))
CallIsZero == Call("is_zero", LAMBDA i : IsZero(i.l))
CallIsNonzero == Call("is_nonzero", LAMBDA i : IsNonzero(i.l))
CallIsNeverZero == Call("is_never_zero", LAMBDA i : IsNeverZero(i.l))
CallSimplify == Call("simplify", LAMBDA i : Simplify(i.l))
CallSubstLevel == Call("subst_level", LAMBDA i : SubstLevel(i.l, i.s))

Returned == result.op # "none" /\ UNCHANGED vars

Next == \/ CallLeq \/ CallEqAntisymm \/ CallIsZero \/ CallIsNonzero
        \/ CallIsNeverZero \/ CallSimplify \/ CallSubstLevel \/ Returned

Spec == Init /\ [][Next]_vars
-----------------------------------------------------------------------------
(* Properties.                                                             *)

\* A "yes" is for levels whose denotations are so under every assignment, which
\* is what the checker needs of leq, of eq_antisymm, which is it both ways, and of
\* the tests for zero; is_never_zero, which only looks at the shape of the term,
\* also misses nothing.  The last arm of leq_core, a panic, is never taken.
LeqSound ==
    /\ result.op = "leq" /\ result.value = "yes" => LeqSem(lhs, rhs)
    /\ result.op = "eq_antisymm" /\ result.value = "yes" => EqSem(lhs, rhs)
    /\ result.op = "is_zero" /\ result.value = "yes" => EqSem(lhs, Zero)
    /\ result.op = "is_nonzero" /\ result.value = "yes" => LeqSem(One, lhs)
    /\ result.op = "is_never_zero" => (result.value <=> LeqSem(One, lhs))
    /\ result.op \in {"leq", "eq_antisymm", "is_zero", "is_nonzero"} => result.value # "panic"

\* The other way round, the tests for zero miss nothing, and leq misses a pair
\* only if the level on the right has an imax under a max or on the left of
\* another: u + 1 <= max(imax(u + 1, u), 1) holds, by the one side where u is zero
\* and by the other elsewhere, and leq_core tries the sides of a max for all at once.
LeqComplete ==
    /\ result.op \in {"leq", "eq_antisymm", "is_zero", "is_nonzero"} => result.value \in {"yes", "no"}
    /\ result.op = "leq" /\ IMaxOnSpine(rhs) /\ LeqSem(lhs, rhs) => result.value = "yes"
    /\ result.op = "eq_antisymm" /\ IMaxOnSpine(lhs) /\ IMaxOnSpine(rhs) /\ EqSem(lhs, rhs) => result.value = "yes"
    /\ result.op = "is_zero" /\ EqSem(lhs, Zero) => result.value = "yes"
    /\ result.op = "is_nonzero" /\ LeqSem(One, lhs) => result.value = "yes"

\* leq and the tests made of it answer what holds of the denotations.
LeqExact == LeqSound /\ LeqComplete

\* simplify keeps what a level denotes, and leaves no imax that leq_core has no
\* arm for.
SimplifyExact ==
    result.op = "simplify" => EqSem(lhs, result.value) /\ IMaxNormal(result.value)

\* Substituting and then evaluating is evaluating with the parameters bound to
\* the values of what replaces them, all at once; no other parameter is left.
SubstExact ==
    result.op = "subst_level" =>
        LET replaced == {n \in ParamNames(lhs) : Matches(n, subst) # {}}
            put == UNION {ParamNames(subst.vs[FirstMatch(n, subst)]) : n \in replaced}
            kept == ParamNames(lhs) \ replaced
            After(rho) == [n \in ParamNames(lhs) |->
                              IF n \in kept THEN rho[n] ELSE Interp(subst.vs[FirstMatch(n, subst)], rho)]
        IN
        /\ \A rho \in Assignments(put \cup kept) : Interp(result.value, rho) = Interp(lhs, After(rho))
        /\ AllUParamsDefined(result.value, put \cup kept)
=============================================================================
