----------------------------- MODULE LevelTerms -----------------------------
(***************************************************************************)
(* Universe levels as terms (src/src/level.rs): simplification,            *)
(* substitution and the order leq_core decides.  A level denotes a         *)
(* function from assignments of naturals to its parameters to a natural    *)
(* (interp in src/src/level_model.rs); the checker never computes it and   *)
(* decides everything on terms.  Levels are hash-consed, so that comparing *)
(* pointers is comparing terms, and a term stands for its pointer here.    *)
(*                                                                         *)
(* What recurs on a level is a function on the levels up to a depth, whose *)
(* arm says what it does with one node, given what it did with the parts.  *)
(* What recurs otherwise, leq_core and simplify through one another, is a  *)
(* function of how deep the calls may still go.                            *)
(***************************************************************************)
EXTENDS Integers, Sequences

CONSTANTS
    LevelDepth,   \* bound on how deep levels nest
    CallDepth     \* bound on how deep leq_core and simplify call one another

\* Room for a one and for a call.
ASSUME DepthsAssumption == LevelDepth \in Nat \ {0, 1} /\ CallDepth \in Nat \ {0}

Zero == <<"zero">>
Succ(l) == <<"succ", l>>
Max(l, r) == <<"max", l, r>>
IMax(l, r) == <<"imax", l, r>>
Param(n) == <<"param", n>>

One == Succ(Zero)
Is(l, tag) == l[1] = tag
IsAnyMax(l) == l[1] \in {"max", "imax"}

\* The levels of depth up to n.
LevelsTo[n \in Nat] ==
    IF n = 0 THEN {}
    ELSE LET parts == LevelsTo[n - 1] IN
         {Zero} \cup ({"param"} \X STRING) \cup ({"succ"} \X parts) \cup ({"max", "imax"} \X parts \X parts)

Level == LevelsTo[LevelDepth]

-----------------------------------------------------------------------------
(* The reference.                                                          *)

ParamNamesArm(l, Names) ==
    CASE Is(l, "zero")  -> {}
      [] Is(l, "param") -> {l[2]}
      [] Is(l, "succ")  -> Names[l[2]]
      [] IsAnyMax(l)    -> Names[l[2]] \cup Names[l[3]]

ParamNames(l) == LET Names[x \in Level] == ParamNamesArm(x, Names) IN Names[l]

Maximum(a, b) == IF a >= b THEN a ELSE b

InterpArm(rho, l, I) ==
    CASE Is(l, "zero")  -> 0
      [] Is(l, "param") -> rho[l[2]]
      [] Is(l, "succ")  -> I[l[2]] + 1
      [] Is(l, "max")   -> Maximum(I[l[2]], I[l[3]])
      [] Is(l, "imax")  -> IF I[l[3]] = 0 THEN 0 ELSE Maximum(I[l[2]], I[l[3]])

Interp(l, rho) == LET I[x \in Level] == InterpArm(rho, x, I) IN I[l]

\* No imax has zero or a successor on the right: what simplify establishes and
\* leq_core needs.
IMaxNormalArm(l, N) ==
    CASE l[1] \in {"zero", "param"} -> TRUE
      [] Is(l, "succ") -> N[l[2]]
      [] Is(l, "max")  -> N[l[2]] /\ N[l[3]]
      [] Is(l, "imax") -> N[l[2]] /\ N[l[3]] /\ l[3][1] \notin {"zero", "succ"}

IMaxNormal(l) == LET N[x \in Level] == IMaxNormalArm(x, N) IN N[l]

-----------------------------------------------------------------------------
(* Substitution.                                                           *)

\* The positions at which the lists of parameters and levels, zipped, have n.
Matches(n, s) ==
    {i \in DOMAIN s.ks \cap DOMAIN s.vs : s.ks[i] = n}

FirstMatch(n, s) == CHOOSE i \in Matches(n, s) : \A j \in Matches(n, s) : i <= j

\* Mutant of SubstParam: a parameter that replaces another is looked up again.
SubstParamAgain(n, s) ==
    IF Matches(n, s) = {} THEN Param(n)
    ELSE LET v == s.vs[FirstMatch(n, s)] IN
         IF Is(v, "param") /\ Matches(v[2], s) # {} THEN s.vs[FirstMatch(v[2], s)] ELSE v

\* The first match wins; a parameter without one stays.
SubstParam(n, s) == IF Matches(n, s) = {} THEN Param(n) ELSE s.vs[FirstMatch(n, s)]

SubstLevelArm(s, l, By) ==
    CASE Is(l, "zero")  -> l
      [] Is(l, "param") -> SubstParam(l[2], s)
      [] Is(l, "succ")  -> Succ(By[l[2]])
      [] IsAnyMax(l)    -> <<l[1], By[l[2]], By[l[3]]>>

SubstLevel(l, s) == LET By[x \in Level] == SubstLevelArm(s, x, By) IN By[l]

SubstLevelList(ls, s) == [i \in DOMAIN ls |-> SubstLevel(ls[i], s)]

-----------------------------------------------------------------------------
(* What leq_core and simplify ask of one another, answered by a record    *)
(* run of two functions, as far as the bounds reach.                       *)

TooDeep == <<"deep">>

Ask(run, l, r, diff) == IF l \in Level /\ r \in Level THEN run.core[<<l, r, diff>>] ELSE "deep"
SimplifyBy(run, l) == IF l \in Level THEN run.simplify[l] ELSE TooDeep

\* The result of a comparison is "yes", "no" or "panic"; && and || look at the
\* second operand only if the first does not decide.
LeqBy(run, l, r) == Ask(run, SimplifyBy(run, l), SimplifyBy(run, r), 0)

IsZeroBy(run, l) == LeqBy(run, l, Zero)
IsOneBy(run, l) == IF Is(l, "succ") THEN IsZeroBy(run, l[2]) ELSE "no"
IsZeroOrOneBy(run, l) == IsZeroBy(run, l) = "yes" \/ IsOneBy(run, l) = "yes"

-----------------------------------------------------------------------------
(* Simplification.                                                         *)

CombiningArm(l, r, Combined) ==
    IF Is(l, "zero") THEN r
    ELSE IF Is(r, "zero") THEN l
    ELSE IF Is(l, "succ") /\ Is(r, "succ") THEN Succ(Combined[<<l[2], r[2]>>])
    ELSE Max(l, r)

Combining(l, r) ==
    LET Combined[p \in Level \X Level] == CombiningArm(p[1], p[2], Combined) IN Combined[<<l, r>>]

\* Mutant of SimplifyIMax: a successor on the right is left there.
SimplifyIMaxKeepingSucc(run, l, r) ==
    IF IsZeroOrOneBy(run, l) \/ Is(r, "zero") THEN r ELSE IMax(l, r)

SimplifyIMax(run, l, r) ==
    IF IsZeroOrOneBy(run, l) \/ Is(r, "zero") THEN r
    ELSE IF Is(r, "succ") THEN Combining(l, r)
    ELSE IMax(l, r)

SimplifyArm(run, l, Simple) ==
    CASE l[1] \in {"zero", "param"} -> l
      [] Is(l, "succ") -> Succ(Simple[l[2]])
      [] Is(l, "max")  -> Combining(Simple[l[2]], Simple[l[3]])
      [] Is(l, "imax") -> SimplifyIMax(run, Simple[l[2]], Simple[l[3]])

SubstSimp(run, l, p, v) == SimplifyBy(run, SubstLevel(l, [ks |-> <<p[2]>>, vs |-> <<v>>]))

-----------------------------------------------------------------------------
(* leq_core(l, r, diff) decides l <= r + diff, by the first arm that fits.  *)

\* Mutant of LeqIMaxByCases: the parameter is only tried at 0.
LeqIMaxAtZero(run, p, l, r, diff) == Ask(run, SubstSimp(run, l, p, Zero), SubstSimp(run, r, p, Zero), diff)

\* Either the parameter is 0 or it is a successor.
LeqIMaxByCases(run, p, l, r, diff) ==
    LET atZero == Ask(run, SubstSimp(run, l, p, Zero), SubstSimp(run, r, p, Zero), diff) IN
    IF atZero # "yes" THEN atZero
    ELSE Ask(run, SubstSimp(run, l, p, Succ(p)), SubstSimp(run, r, p, Succ(p)), diff)

\* imax(a, b) for b an imax or a max, as a max.
PushIMax(run, a, b) ==
    IF Is(b, "imax") THEN Max(IMax(a, b[3]), IMax(b[2], b[3]))
    ELSE SimplifyBy(run, Max(IMax(a, b[2]), IMax(a, b[3])))

YesIf(b) == IF b THEN "yes" ELSE "no"

\* The arms for imax, which split on the parameter on its right or push it in.
LeqCoreIMax(run, l, r, diff) ==
    IF Is(l, "imax") /\ l = r /\ diff >= 0 THEN "yes"
    ELSE IF Is(l, "imax") /\ Is(l[3], "param") THEN LeqIMaxByCases(run, l[3], l, r, diff)
    ELSE IF Is(r, "imax") /\ Is(r[3], "param") THEN LeqIMaxByCases(run, r[3], l, r, diff)
    ELSE IF Is(l, "imax") /\ IsAnyMax(l[3]) THEN Ask(run, PushIMax(run, l[2], l[3]), r, diff)
    ELSE IF Is(r, "imax") /\ IsAnyMax(r[3]) THEN Ask(run, l, PushIMax(run, r[2], r[3]), diff)
    ELSE "panic"

LeqCore(run, l, r, diff) ==
    IF Is(l, "zero") /\ diff >= 0 THEN "yes"
    ELSE IF Is(r, "zero") /\ diff < 0 THEN "no"
    ELSE IF Is(l, "param") /\ Is(r, "param") THEN YesIf(l = r /\ diff >= 0)
    ELSE IF Is(l, "param") /\ Is(r, "zero") THEN "no"
    ELSE IF Is(l, "zero") /\ Is(r, "param") THEN YesIf(diff >= 0)
    ELSE IF Is(l, "succ") THEN Ask(run, l[2], r, diff - 1)
    ELSE IF Is(r, "succ") THEN Ask(run, l, r[2], diff + 1)
    ELSE IF Is(l, "max") THEN
        LET first == Ask(run, l[2], r, diff) IN
        IF first = "yes" THEN Ask(run, l[3], r, diff) ELSE first
    ELSE IF l[1] \in {"param", "zero"} /\ Is(r, "max") THEN
        LET first == Ask(run, l, r[2], diff) IN
        IF first = "no" THEN Ask(run, l, r[3], diff) ELSE first
    ELSE LeqCoreIMax(run, l, r, diff)

-----------------------------------------------------------------------------
(* The recursion.                                                          *)

\* What leq_core may be asked: l, r and diff.
Questions == Level \X Level \X Int

\* Out of depth, no question has an answer.
NoAnswers ==
    [core |-> [q \in Questions |-> "deep"],
     simplify |-> [l \in Level |-> TooDeep]]

\* One call more than run.
Answers(run) ==
    [core |-> [q \in Questions |-> LeqCore(run, q[1], q[2], q[3])],
     simplify |-> LET Simple[l \in Level] == SimplifyArm(run, l, Simple) IN Simple]

\* What n calls deep can answer.
Runs[n \in Nat] == IF n = 0 THEN NoAnswers ELSE Answers(Runs[n - 1])

FullRun == Runs[CallDepth]

Simplify(l) == SimplifyBy(FullRun, l)
Leq(l, r) == LeqBy(FullRun, l, r)
IsZero(l) == IsZeroBy(FullRun, l)
IsNonzero(l) == Leq(One, l)

EqAntisymm(l, r) == IF Leq(l, r) = "yes" THEN Leq(r, l) ELSE Leq(l, r)

EqAntisymmMany(ls, rs) == Len(ls) = Len(rs) /\ \A i \in DOMAIN ls : EqAntisymm(ls[i], rs[i]) = "yes"

IsNeverZeroArm(l, Never) ==
    CASE l[1] \in {"zero", "param"} -> FALSE
      [] Is(l, "succ") -> TRUE
      [] Is(l, "max")  -> Never[l[2]] \/ Never[l[3]]
      [] Is(l, "imax") -> Never[l[3]]

IsNeverZero(l) == LET Never[x \in Level] == IsNeverZeroArm(x, Never) IN Never[l]

-----------------------------------------------------------------------------
(* The universe parameters of a declaration.                               *)

NoDupesAllParams(ls) ==
    \A i \in DOMAIN ls : Is(ls[i], "param") /\ \A j \in 1 .. i - 1 : ls[j] # ls[i]

ContainsParam(uparams, candidate) == \E i \in DOMAIN uparams : uparams[i] = Param(candidate)

AllUParamsArm(names, l, Defined) ==
    CASE Is(l, "zero")  -> TRUE
      [] Is(l, "param") -> l[2] \in names
      [] Is(l, "succ")  -> Defined[l[2]]
      [] IsAnyMax(l)    -> Defined[l[2]] /\ Defined[l[3]]

AllUParamsDefined(l, names) == LET Defined[x \in Level] == AllUParamsArm(names, x, Defined) IN Defined[l]
=============================================================================
