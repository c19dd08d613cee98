------------------------------ MODULE Binders -------------------------------
(***************************************************************************)
(* What the checker's way under binders promises, on terms alone: no       *)
(* caches, nothing skipped, and every traversal the one the model          *)
(* functions of src/src/expr_model.rs and src/src/beta_model.rs describe.  *)
(* Exprs has the code's own traversals and implements this.                *)
(*                                                                         *)
(* The checker never works on loose variables: a binder is opened by       *)
(* putting a local for its variable, and closed by abstracting the local   *)
(* again.  Locals are of two kinds: those of the type checker are numbered *)
(* by how many are open (DbjLevel), so that the number is used again once  *)
(* the binder is closed; those of the inductive and quotient modules take  *)
(* a fresh number each (Unique).                                           *)
(*                                                                         *)
(* The state is the expression at hand and the locals open.  Beside it     *)
(* goes what the expression stands for: the same term with de Bruijn       *)
(* indices, on which each step does what the textbook says.                *)
(***************************************************************************)
EXTENDS Traversals

CONSTANTS
    Start,       \* the closed expressions the checker may begin with
    Uparams,     \* the universe parameters of a constant with a value
    Value        \* and its value, which is closed

-----------------------------------------------------------------------------
(* Leaves.                                                                 *)

\* The leaves of e, each with the offset it is at.
LeavesArm(x, L) ==
    LET e == x[1] IN
    IF Children(e) = {} THEN {x} ELSE UNION {L[<<e[i], Below(e, i, x[2])>>] : i \in Children(e)}

LeavesAt(e, offset) ==
    LET L[x \in ExprsTo[ExprDepth] \X Nat] == LeavesArm(x, L) IN L[<<e, offset>>]

\* No variable of e is loose beyond the first d.
LooseBelow(e, d) == \A x \in LeavesAt(e, 0) : x[1][1] = "var" => x[1][2] < x[2] + d

NoLoose(e) == LooseBelow(e, 0)

LocalsOf(e) == {x[1] : x \in {y \in LeavesAt(e, 0) : IsLocal(y[1])}}

IsClosed(e) == e \in ExprsTo[ExprDepth] /\ NoLoose(e) /\ LocalsOf(e) = {}

ASSUME InputsAssumption ==
    /\ \A e \in Start : IsClosed(e)
    /\ IsClosed(Value)

-----------------------------------------------------------------------------
(* What the traversals do with a leaf.                                     *)

\* A variable takes the substitute that many places from the end, if there is
\* one.
Filling(substs) ==
    [x \in ExprsTo[ExprDepth] \X Nat |->
        LET k == x[1][2] - x[2] IN
        IF x[1][1] = "var" /\ k \in 0 .. Len(substs) - 1 THEN substs[Len(substs) - k] ELSE x[1]]

InstFull(e, substs) == Traverse(Filling(substs), e, 0)

\* The last position of x in a list is the nearest binder.
IsLast(i, x, locals) == i \in 1 .. Len(locals) /\ locals[i] = x /\ \A j \in i + 1 .. Len(locals) : locals[j] # x

Closing(locals) ==
    [x \in ExprsTo[ExprDepth] \X Nat |->
        IF IsLocal(x[1]) /\ \E i \in 1 .. Len(locals) : IsLast(i, x[1], locals)
        THEN Var(Len(locals) - (CHOOSE i \in 1 .. Len(locals) : IsLast(i, x[1], locals)) + x[2])
        ELSE x[1]]

AbstrAt(e, locals, offset) == Traverse(Closing(locals), e, offset)
AbstrPlain(e, locals) == AbstrAt(e, locals, 0)

\* The locals of the type checker from a number on; the offset starts at how
\* many are open.
ClosingLevels(startPos) ==
    [x \in ExprsTo[ExprDepth] \X Nat |->
        IF IsLocal(x[1]) /\ x[1][2] = "dbj" /\ x[1][3] >= startPos THEN Var(x[2] - x[1][3] - 1) ELSE x[1]]

AbstrLevelsFull(e, startPos, numOpenBinders) == Traverse(ClosingLevels(startPos), e, numOpenBinders)

PluggingLevels(s) ==
    [x \in ExprsTo[ExprDepth] \X Nat |->
        LET e == x[1] IN
        CASE e[1] = "sort"  -> Sort(SubstLevel(e[2], s))
          [] e[1] = "const" -> Const(e[2], SubstLevelList(e[3], s))
          [] OTHER -> e]

PlugLevels(e, s) == Traverse(PluggingLevels(s), e, 0)

\* The loose variables of e, d further away.
Shifting(d) ==
    [x \in ExprsTo[ExprDepth] \X Nat |-> IF x[1][1] = "var" /\ x[1][2] >= x[2] THEN Var(x[1][2] + d) ELSE x[1]]

ShiftFull(d, e) == Traverse(Shifting(d), e, 0)

\* The nearest loose variable replaced, by what is moved under the binders
\* there, and the others one nearer.
Replacing(arg) ==
    [x \in ExprsTo[ExprDepth] \X Nat |->
        IF x[1][1] = "var" /\ x[1][2] = x[2] THEN ShiftFull(x[2], arg)
        ELSE IF x[1][1] = "var" /\ x[1][2] > x[2] THEN Var(x[1][2] - 1)
        ELSE x[1]]

Subst1Full(body, arg) == Traverse(Replacing(arg), body, 0)

-----------------------------------------------------------------------------
(* Telescopes and spines.                                                  *)

\* A local for each of the types, which mention the earlier ones.
LocalsFor(how, first, types) ==
    LET L[k \in Nat] ==
            IF k = 0 THEN <<>> ELSE Append(L[k - 1], MkLocal(how, first + k - 1, InstFull(types[k], L[k - 1])))
    IN L[Len(types)]

\* The binders of the types put around e, the last first.
Around(tag, types, e) ==
    LET B[k \in Nat] == IF k = 0 THEN e ELSE Bind(tag, types[Len(types) - k + 1], B[k - 1]) IN B

CloseTypes(tag, types, e) == Around(tag, types, e)[Len(types)]

\* The locals abstracted one after the other, the last first.
AroundLocals(tag, locals, e) ==
    LET B[k \in Nat] ==
            IF k = 0 THEN e
            ELSE LET x == locals[Len(locals) - k + 1] IN Bind(tag, x[4], AbstrPlain(B[k - 1], <<x>>))
    IN B

\* One argument after the other.
Reduced(f, args) == LET R[k \in Nat] == IF k = 0 THEN f ELSE Subst1Full(R[k - 1][3], args[k]) IN R

-----------------------------------------------------------------------------
(* The state.                                                              *)

VARIABLES
    at,          \* the expression at hand
    opened,      \* the open locals, outermost first
    frames,      \* the open telescopes: [tag, how, start, caller, meaning]
    dbjLevelCounter, uniqueCounter,
    plain,       \* what at stands for, under the binders of opened
    context      \* what the types of the open locals stand for

scope == <<opened, frames, dbjLevelCounter, uniqueCounter, context>>
vars == <<at, plain, scope>>

Init ==
    /\ at \in Start
    /\ plain = at
    /\ opened = <<>> /\ frames = <<>> /\ context = <<>>
    /\ dbjLevelCounter = 0 /\ uniqueCounter = 0

Top == frames[Len(frames)]
TopLocals == SubSeq(opened, Top.start + 1, Len(opened))
TopTypes == SubSeq(context, Top.start + 1, Len(context))
StartPos == dbjLevelCounter - Len(TopLocals)

Pop ==
    /\ opened' = SubSeq(opened, 1, Top.start)
    /\ context' = SubSeq(context, 1, Top.start)
    /\ frames' = SubSeq(frames, 1, Len(frames) - 1)

\* Every binder of one kind at the head of at is opened.  A type checker is made
\* with its counter at 0 and runs within the other modules, so that unique locals
\* are opened outside all others.
Enter(how) ==
    /\ IsBinder(at)
    /\ how = "unique" => dbjLevelCounter = 0
    /\ frames' = Append(frames, [tag |-> at[1], how |-> how, start |-> Len(opened), caller |-> at, meaning |-> plain])
    /\ LET n == RunLength(at, 3, at[1])
           first == IF how = "dbj" THEN dbjLevelCounter ELSE uniqueCounter
           locals == LocalsFor(how, first, BinderTypes(at, n))
       IN
       /\ at' = InstFull(Down(at, 3)[n], locals)
       /\ opened' = opened \o locals
       /\ IF how = "dbj" THEN dbjLevelCounter' = first + n /\ UNCHANGED uniqueCounter
          ELSE uniqueCounter' = first + n /\ UNCHANGED dbjLevelCounter
    /\ LET n == RunLength(plain, 3, plain[1]) IN
       plain' = Down(plain, 3)[n] /\ context' = context \o BinderTypes(plain, n)
    /\ at' \in ExprsTo[ExprDepth] /\ opened' \in Seq(ExprsTo[ExprDepth])

\* The type of the body of a lambda becomes a function type.
Generalize ==
    /\ frames # <<>> /\ Top.how = "dbj" /\ Top.tag = "lam"
    /\ Pop
    /\ dbjLevelCounter' = StartPos /\ UNCHANGED uniqueCounter
    /\ LET type(i) == AbstrLevelsFull(TopLocals[i][4], StartPos, StartPos + i - 1) IN
       at' = CloseTypes("pi", [i \in 1 .. Len(TopLocals) |-> type(i)],
                        AbstrLevelsFull(at, StartPos, dbjLevelCounter))
    /\ plain' = CloseTypes("pi", TopTypes, plain)
    /\ at' \in ExprsTo[ExprDepth]

\* A telescope is left, for the expression it was entered with.
GoBack ==
    /\ frames # <<>> /\ Top.how = "dbj"
    /\ Pop
    /\ dbjLevelCounter' = StartPos /\ UNCHANGED uniqueCounter
    /\ at' = Top.caller /\ plain' = Top.meaning

\* The binders are put back around what is at hand now.
Discharge(tag) ==
    /\ frames # <<>> /\ Top.how = "unique"
    /\ Pop /\ UNCHANGED <<dbjLevelCounter, uniqueCounter>>
    /\ LET closed == AroundLocals(tag, TopLocals, at) IN
       /\ at' = closed[Len(TopLocals)]
       /\ \A k \in 0 .. Len(TopLocals) : closed[k] \in ExprsTo[ExprDepth]
    /\ plain' = CloseTypes(tag, TopTypes, plain)

\* What mentions the locals of one opening of a telescope is moved over to those
\* of another.
Rename ==
    /\ frames # <<>> /\ Top.how = "unique"
    /\ UNCHANGED <<frames, dbjLevelCounter, plain, context>>
    /\ LET n == RunLength(Top.caller, 3, Top.tag)
           ingoing == LocalsFor("unique", uniqueCounter, BinderTypes(Top.caller, n))
       IN
       /\ uniqueCounter' = uniqueCounter + n
       /\ opened' = SubSeq(opened, 1, Top.start) \o ingoing
       /\ at' = InstFull(AbstrPlain(at, TopLocals), ingoing)
    /\ at' \in ExprsTo[ExprDepth] /\ opened' \in Seq(ExprsTo[ExprDepth])

\* The parts that have no loose variables.
Parts(e) ==
    CASE e[1] = "app"  -> {2, 3}
      [] IsBinder(e)   -> {2}
      [] e[1] = "let"  -> {2, 3}
      [] e[1] = "proj" -> {3}
      [] OTHER         -> {}

Narrow ==
    /\ UNCHANGED scope
    /\ \E i \in Parts(at) : at' = at[i] /\ plain' = plain[i]

\* Up to as many arguments as there are lambdas, in one instantiation.
Contract ==
    LET m == RunLength(at, 2, "app")
        fun == Down(at, 2)[m]
        lambdas == RunLength(fun, 3, "lam")
        n == IF m <= lambdas THEN m ELSE lambdas
        args == Args(at, m)
        reduced == Reduced(Down(plain, 2)[m], Args(plain, m))
    IN
    /\ n > 0
    /\ UNCHANGED scope
    /\ at' = Applied(InstFull(Down(fun, 3)[n], SubSeq(args, 1, n)), SubSeq(args, n + 1, m))
    /\ plain' = Applied(reduced[n], SubSeq(Args(plain, m), n + 1, m))
    /\ at' \in ExprsTo[ExprDepth] /\ \A k \in 0 .. n : reduced[k] \in ExprsTo[ExprDepth]

ContractLet ==
    LET m == RunLength(at, 2, "app")
        fun == Down(at, 2)[m]
        meaning == Down(plain, 2)[m]
    IN
    /\ fun[1] = "let"
    /\ UNCHANGED scope
    /\ at' = Applied(InstFull(fun[4], <<fun[3]>>), Args(at, m))
    /\ plain' = Applied(Subst1Full(meaning[4], meaning[3]), Args(plain, m))
    /\ at' \in ExprsTo[ExprDepth]

\* A constant given as many levels as it has parameters.
UnfoldConst ==
    LET m == RunLength(at, 2, "app")
        fun == Down(at, 2)[m]
        meaning == Down(plain, 2)[m]
    IN
    /\ fun[1] = "const" /\ Len(fun[3]) = Len(Uparams)
    /\ UNCHANGED scope
    /\ at' = Applied(PlugLevels(Value, [ks |-> Uparams, vs |-> fun[3]]), Args(at, m))
    /\ plain' = Applied(PlugLevels(Value, [ks |-> Uparams, vs |-> meaning[3]]), Args(plain, m))
    /\ at' \in ExprsTo[ExprDepth]

Next ==
    \/ Enter("dbj") \/ Enter("unique")
    \/ Generalize \/ GoBack \/ Discharge("pi") \/ Discharge("lam") \/ Rename
    \/ Narrow \/ Contract \/ ContractLet \/ UnfoldConst

Spec == Init /\ [][Next]_vars

-----------------------------------------------------------------------------
(* Properties.                                                             *)

\* The types of the open locals, closed and over earlier locals alone, stand for
\* the types of the binders that were opened.
ContextDenotes ==
    /\ Len(opened) = Len(context)
    /\ \A i \in 1 .. Len(opened) :
          AbstrPlain(opened[i][4], SubSeq(opened, 1, i - 1)) = context[i] /\ NoLoose(opened[i][4])

\* Whatever was opened, reduced, closed or left, the expression at hand stands
\* for what the textbook's term is at that point: no number of a closed local
\* is taken for another's, no cached result is used where it does not belong,
\* nothing is skipped that should have been visited, and substituting several
\* arguments at once is substituting them one by one.  The same goes for the
\* types of the open locals, and at hand there is never a loose variable, on
\* which infer and whnf panic.
Denotes == AbstrPlain(at, opened) = plain /\ ContextDenotes /\ NoLoose(at)

\* The locals in e, those in their types, and so on.
LocalsInArm(e, L) == LocalsOf(e) \cup UNION {L[x[4]] : x \in LocalsOf(e)}
LocalsIn(e) == LET L[x \in ExprsTo[ExprDepth]] == LocalsInArm(x, L) IN L[e]

\* Every local that occurs at hand, be it in the type of another, is one of
\* those that are open now: not one that had the same number before, or the
\* same number with another type.  Those of the type checker are the innermost,
\* numbered in order from 0 to below its counter, which fvar_to_bvar counts on
\* and replace_dbj_level asserts; no number of a unique local is given twice.
InScope ==
    LET uniques == Len(opened) - dbjLevelCounter IN
    /\ LocalsIn(at) \subseteq {opened[i] : i \in 1 .. Len(opened)}
    /\ uniques >= 0
    /\ \A i \in uniques + 1 .. Len(opened) : opened[i] = DbjLevel(i - uniques - 1, opened[i][4])
    /\ \A i \in 1 .. uniques : opened[i] = Unique(opened[i][3], opened[i][4])
    /\ \A i, j \in 1 .. uniques : i < j => opened[i][3] < opened[j][3]
=============================================================================
