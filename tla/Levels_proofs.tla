--------------------------- MODULE Levels_proofs ---------------------------
(***************************************************************************)
(* What the operations on universe levels do to the denotation of levels,  *)
(* for all levels, assignments and bounds.                                 *)
(*                                                                         *)
(* Levels come in stages, by depth, and what recurs on a level has a value *)
(* on each: it follows the rules of its arm (InterpRules, SubstRules...).  *)
(* leq_core and simplify call one another; Sound(run) says that answers of *)
(* n calls deep are right, and an induction on n carries it to FullRun.    *)
(***************************************************************************)
EXTENDS Levels, TLAPS

-----------------------------------------------------------------------------
(* Levels come in stages.                                                  *)

NoLevels(s) == {}
NextLevels(s, n, parts) ==
    {Zero} \cup ({"param"} \X STRING) \cup ({"succ"} \X parts) \cup ({"max", "imax"} \X parts \X parts)

Stages == INSTANCE Recursion WITH Base <- NoLevels, Step <- NextLevels

\* One stage is made of the one before.
LEMMA StageFacts ==
    LevelsTo[0] = {} /\ \A n \in Nat : LevelsTo[n + 1] = NextLevels(0, n + 1, LevelsTo[n])
  <1> DEFINE F(f) == [n \in Nat |-> IF n = 0 THEN {} ELSE NextLevels(0, n, f[n - 1])]
  <1>1. \E f : f = [n \in Nat |-> IF n = 0 THEN NoLevels(0) ELSE NextLevels(0, n, f[n - 1])]
    BY Stages!HasSolution
  <1>2. \E f : f = F(f) BY <1>1 DEF NoLevels
  <1>3. LevelsTo = CHOOSE f : f = F(f) BY DEF LevelsTo, NextLevels
  <1>4. LevelsTo = F(LevelsTo) BY <1>2, <1>3
  <1>5. F(LevelsTo)[0] = {} OBVIOUS
  <1>6. ASSUME NEW n \in Nat PROVE F(LevelsTo)[n + 1] = NextLevels(0, n + 1, LevelsTo[n])
    <2>1. n + 1 \in Nat /\ n + 1 # 0 /\ (n + 1) - 1 = n OBVIOUS
    <2> QED BY <2>1
  <1> HIDE DEF F
  <1> QED BY <1>4, <1>5, <1>6

\* The ways to make a level of parts in D.
MadeOf(D, l) ==
    \/ l = Zero
    \/ \E p \in STRING : l = Param(p)
    \/ \E x \in D : l = Succ(x)
    \/ \E x, y \in D : l = Max(x, y) \/ l = IMax(x, y)

\* The levels of a stage are those made of the stage before.
LEMMA Shapes == \A n \in Nat : \A l : l \in LevelsTo[n + 1] <=> MadeOf(LevelsTo[n], l)
  <1> SUFFICES ASSUME NEW n \in Nat, NEW l PROVE l \in LevelsTo[n + 1] <=> MadeOf(LevelsTo[n], l)
    OBVIOUS
  <1> DEFINE D == LevelsTo[n]
             T == STRING
  <1>1. LevelsTo[n + 1] = NextLevels(0, n + 1, D) BY StageFacts
  <1> HIDE DEF D, T
  <1>2. l \in {"param"} \X T <=> \E p \in T : l = Param(p) BY DEF Param
  <1>3. l \in {"succ"} \X D <=> \E x \in D : l = Succ(x) BY DEF Succ
  <1>4. l \in {"max", "imax"} \X D \X D <=> \E x, y \in D : l = Max(x, y) \/ l = IMax(x, y) BY DEF Max, IMax
  <1>5. l \in NextLevels(0, n + 1, D) <=>
           l = Zero \/ l \in {"param"} \X STRING \/ l \in {"succ"} \X D \/ l \in {"max", "imax"} \X D \X D
    BY DEF NextLevels
  <1> QED BY <1>1, <1>2, <1>3, <1>4, <1>5 DEF D, T, MadeOf

\* The parts of a node and its tag.
LEMMA Nodes ==
    ASSUME NEW x, NEW y
    PROVE  /\ Zero[1] = "zero" /\ Param(x)[1] = "param" /\ Param(x)[2] = x
           /\ Succ(x)[1] = "succ" /\ Succ(x)[2] = x
           /\ Max(x, y)[1] = "max" /\ Max(x, y)[2] = x /\ Max(x, y)[3] = y
           /\ IMax(x, y)[1] = "imax" /\ IMax(x, y)[2] = x /\ IMax(x, y)[3] = y
  BY DEF Zero, Param, Succ, Max, IMax

\* Stages only grow.
LEMMA StagesGrow == \A n \in Nat : LevelsTo[n] \subseteq LevelsTo[n + 1]
  <1> DEFINE S == {n \in Nat : LevelsTo[n] \subseteq LevelsTo[n + 1]}
  <1>1. 0 \in S BY StageFacts
  <1>2. ASSUME NEW n \in Nat, n \in S PROVE n + 1 \in S
    <2> SUFFICES ASSUME NEW l \in LevelsTo[n + 1] PROVE l \in LevelsTo[(n + 1) + 1] OBVIOUS
    <2>1. PICK m \in Nat : m = n + 1 OBVIOUS
    <2>2. LevelsTo[n] \subseteq LevelsTo[m] BY <1>2, <2>1
    <2>3. MadeOf(LevelsTo[n], l) BY Shapes
    <2>4. MadeOf(LevelsTo[m], l) BY <2>2, <2>3 DEF MadeOf
    <2>5. l \in LevelsTo[m + 1] BY <2>4, Shapes
    <2> QED BY <2>1, <2>5
  <1> HIDE DEF S
  <1>3. Nat \subseteq S BY <1>1, <1>2, Stages!Induction
  <1> QED BY <1>3 DEF S

\* When a node is of a stage: its parts are of the one before.
LEMMA Built ==
    ASSUME NEW n \in Nat
    PROVE  /\ Zero \in LevelsTo[n + 1]
           /\ \A p \in STRING : Param(p) \in LevelsTo[n + 1]
           /\ \A x : Succ(x) \in LevelsTo[n + 1] <=> x \in LevelsTo[n]
           /\ \A x, y : Max(x, y) \in LevelsTo[n + 1] <=> x \in LevelsTo[n] /\ y \in LevelsTo[n]
           /\ \A x, y : IMax(x, y) \in LevelsTo[n + 1] <=> x \in LevelsTo[n] /\ y \in LevelsTo[n]
  <1> DEFINE D == LevelsTo[n]
  <1>1. \A l : l \in LevelsTo[n + 1] <=> MadeOf(D, l) BY Shapes
  <1> HIDE DEF D
  <1>2. MadeOf(D, Zero) /\ \A p \in STRING : MadeOf(D, Param(p)) BY DEF MadeOf
  <1>3. \A x : MadeOf(D, Succ(x)) <=> x \in D BY DEF MadeOf, Zero, Param, Succ, Max, IMax
  <1>4. \A x, y : MadeOf(D, Max(x, y)) <=> x \in D /\ y \in D BY DEF MadeOf, Zero, Param, Succ, Max, IMax
  <1>5. \A x, y : MadeOf(D, IMax(x, y)) <=> x \in D /\ y \in D BY DEF MadeOf, Zero, Param, Succ, Max, IMax
  <1> QED BY <1>1, <1>2, <1>3, <1>4, <1>5 DEF D

\* Every stage up to the bound is of levels.
LEMMA StagesAreLevels == \A n \in 0 .. LevelDepth : LevelsTo[n] \subseteq Level
  <1> DEFINE S == {k \in Nat : k <= LevelDepth => LevelsTo[LevelDepth - k] \subseteq Level}
  <1>1. 0 \in S BY DepthsAssumption DEF Level
  <1>2. ASSUME NEW k \in Nat, k \in S PROVE k + 1 \in S
    <2> SUFFICES ASSUME k + 1 <= LevelDepth PROVE LevelsTo[LevelDepth - (k + 1)] \subseteq Level OBVIOUS
    <2>1. PICK m \in Nat : m = LevelDepth - (k + 1) BY DepthsAssumption
    <2>2. m + 1 = LevelDepth - k /\ k <= LevelDepth BY <2>1, DepthsAssumption
    <2>3. LevelsTo[m] \subseteq LevelsTo[m + 1] BY StagesGrow
    <2> QED BY <1>2, <2>1, <2>2, <2>3
  <1> HIDE DEF S
  <1>3. Nat \subseteq S BY <1>1, <1>2, Stages!Induction
  <1>4. ASSUME NEW n \in 0 .. LevelDepth PROVE LevelsTo[n] \subseteq Level
    <2>1. LevelDepth - n \in S /\ LevelDepth - (LevelDepth - n) = n BY <1>3, DepthsAssumption
    <2>2. LevelDepth - n <= LevelDepth BY DepthsAssumption
    <2> QED BY <2>1, <2>2 DEF S
  <1> QED BY <1>4

\* The parts of a level are levels.
LEMMA LevelFacts ==
    /\ \A l \in Level : MadeOf(Level, l)
    /\ Zero \in Level /\ One \in Level
    /\ \A p \in STRING : Param(p) \in Level /\ Succ(Param(p)) \in Level
    /\ \A x : Succ(x) \in Level => x \in Level
    /\ \A x, y : Max(x, y) \in Level => x \in Level /\ y \in Level
    /\ \A x, y : IMax(x, y) \in Level => x \in Level /\ y \in Level
  <1>1. PICK n \in Nat : LevelDepth = (n + 1) + 1
    <2>1. LevelDepth - 2 \in Nat BY DepthsAssumption
    <2>2. LevelDepth = ((LevelDepth - 2) + 1) + 1 BY DepthsAssumption
    <2> QED BY <2>1, <2>2
  <1>2. PICK m \in Nat : m = n + 1 /\ m \in 0 .. LevelDepth /\ LevelDepth = m + 1 BY <1>1
  <1>3. LevelsTo[m] \subseteq Level /\ Level = LevelsTo[m + 1] BY <1>2, StagesAreLevels DEF Level
  <1>4. \A l \in Level : MadeOf(LevelsTo[m], l) BY <1>3, Shapes
  <1>5. \A l \in Level : MadeOf(Level, l) BY <1>3, <1>4 DEF MadeOf
  <1>6. Zero \in LevelsTo[m] /\ \A p \in STRING : Param(p) \in LevelsTo[m] BY <1>2, Built
  <1>7. /\ \A x : Succ(x) \in Level <=> x \in LevelsTo[m]
        /\ \A x, y : Max(x, y) \in Level <=> x \in LevelsTo[m] /\ y \in LevelsTo[m]
        /\ \A x, y : IMax(x, y) \in Level <=> x \in LevelsTo[m] /\ y \in LevelsTo[m]
    BY <1>3, Built
  <1> QED BY <1>3, <1>5, <1>6, <1>7 DEF One

\* What holds of every level of whose parts it holds, holds of all.
LEMMA LevelInduction ==
    ASSUME NEW S, \A l \in Level : MadeOf(S \cap Level, l) => l \in S
    PROVE  Level \subseteq S
  <1> DEFINE T == {n \in Nat : n <= LevelDepth => LevelsTo[n] \subseteq S}
  <1>1. 0 \in T BY StageFacts
  <1>2. ASSUME NEW n \in Nat, n \in T PROVE n + 1 \in T
    <2> SUFFICES ASSUME n + 1 <= LevelDepth, NEW l \in LevelsTo[n + 1] PROVE l \in S OBVIOUS
    <2>1. n \in 0 .. LevelDepth /\ n + 1 \in 0 .. LevelDepth BY DepthsAssumption
    <2>2. LevelsTo[n] \subseteq S \cap Level /\ l \in Level BY <1>2, <2>1, StagesAreLevels
    <2>3. MadeOf(LevelsTo[n], l) BY Shapes
    <2>4. MadeOf(S \cap Level, l) BY <2>2, <2>3 DEF MadeOf
    <2> QED BY <2>2, <2>4
  <1> HIDE DEF T
  <1>3. Nat \subseteq T BY <1>1, <1>2, Stages!Induction
  <1>4. LevelDepth \in T BY <1>3, DepthsAssumption
  <1> QED BY <1>4, DepthsAssumption DEF T, Level

\* The same, one kind of node at a time.
LEMMA LevelCases ==
    ASSUME NEW S, Zero \in S, \A p \in STRING : Param(p) \in S,
           \A x \in S : Succ(x) \in Level => Succ(x) \in S,
           \A x, y \in S : Max(x, y) \in Level => Max(x, y) \in S,
           \A x, y \in S : IMax(x, y) \in Level => IMax(x, y) \in S
    PROVE  Level \subseteq S
  <1>1. ASSUME NEW l \in Level, MadeOf(S \cap Level, l) PROVE l \in S BY <1>1 DEF MadeOf
  <1> QED BY <1>1, LevelInduction

-----------------------------------------------------------------------------
(* What is defined by recursion on a level.                                *)

\* Every such function is on Level, and looks at a node and its parts.
LEMMA StagesOfLevels ==
    ASSUME NEW n \in Nat, NEW x \in LevelsTo[n + 1]
    PROVE  /\ x[1] \in {"zero", "param", "succ", "max", "imax"}
           /\ x[1] = "succ" => x[2] \in LevelsTo[n]
           /\ x[1] \in {"max", "imax"} => x[2] \in LevelsTo[n] /\ x[3] \in LevelsTo[n]
  <1>1. MadeOf(LevelsTo[n], x) BY Shapes
  <1> QED BY <1>1 DEF MadeOf, Zero, Param, Succ, Max, IMax

\* The stages as StructuralRecursion takes them.
LEMMA LevelsGrow == LevelsTo[0] = {} /\ \A n \in Nat : LevelsTo[n] \subseteq LevelsTo[n + 1]
  BY StageFacts, StagesGrow

Interpreting == INSTANCE StructuralRecursion WITH Arm <- InterpArm

\* Interp by cases.
LEMMA InterpUnfolds ==
    ASSUME NEW rho, NEW l \in Level
    PROVE  Interp(l, rho) = InterpArm(rho, l, [x \in Level |-> Interp(x, rho)])
  <1> DEFINE F(f) == [x \in Level |-> InterpArm(rho, x, f)]
             I == CHOOSE f : f = F(f)
  <1>1. Interpreting!Local(rho, LevelsTo) BY StagesOfLevels DEF Interpreting!Local, InterpArm, Is
  <1>2. \E f : f = F(f)
    <2>1. Interpreting!Solvable(rho, Level) BY <1>1, LevelsGrow, DepthsAssumption, Interpreting!HasFold DEF Level, Interpreting!Grows
    <2> QED BY <2>1 DEF Interpreting!Solvable
  <1>3. I = F(I) BY <1>2
  <1>4. \A x : Interp(x, rho) = I[x] BY DEF Interp
  <1> HIDE DEF I
  <1>5. I = [x \in Level |-> Interp(x, rho)] BY <1>3, <1>4
  <1> QED BY <1>3, <1>4, <1>5

\* Recursion without a parameter.
OfNames(s, l, f) == ParamNamesArm(l, f)
OfNormal(s, l, f) == IMaxNormalArm(l, f)
OfNever(s, l, f) == IsNeverZeroArm(l, f)

Naming == INSTANCE StructuralRecursion WITH Arm <- OfNames
Normalizing == INSTANCE StructuralRecursion WITH Arm <- OfNormal
NeverZero == INSTANCE StructuralRecursion WITH Arm <- OfNever
Substituting == INSTANCE StructuralRecursion WITH Arm <- SubstLevelArm
Defining == INSTANCE StructuralRecursion WITH Arm <- AllUParamsArm

\* ParamNames by cases.
LEMMA NamesUnfold ==
    ASSUME NEW l \in Level
    PROVE  ParamNames(l) = ParamNamesArm(l, [x \in Level |-> ParamNames(x)])
  <1> DEFINE F(f) == [x \in Level |-> ParamNamesArm(x, f)]
             I == CHOOSE f : f = F(f)
  <1>1. Naming!Local(0, LevelsTo) BY StagesOfLevels DEF Naming!Local, OfNames, ParamNamesArm, Is, IsAnyMax
  <1>2. Naming!Solvable(0, Level)
    BY <1>1, LevelsGrow, DepthsAssumption, Naming!HasFold DEF Level, Naming!Grows
  <1>3. I = F(I) BY <1>2 DEF Naming!Solvable, OfNames
  <1>4. \A x : ParamNames(x) = I[x] BY DEF ParamNames
  <1> HIDE DEF I
  <1>5. I = [x \in Level |-> ParamNames(x)] BY <1>3, <1>4
  <1> QED BY <1>3, <1>4, <1>5

\* IMaxNormal by cases.
LEMMA NormalUnfolds ==
    ASSUME NEW l \in Level
    PROVE  IMaxNormal(l) = IMaxNormalArm(l, [x \in Level |-> IMaxNormal(x)])
  <1> DEFINE F(f) == [x \in Level |-> IMaxNormalArm(x, f)]
             I == CHOOSE f : f = F(f)
  <1>1. Normalizing!Local(0, LevelsTo) BY StagesOfLevels DEF Normalizing!Local, OfNormal, IMaxNormalArm, Is
  <1>2. Normalizing!Solvable(0, Level)
    BY <1>1, LevelsGrow, DepthsAssumption, Normalizing!HasFold DEF Level, Normalizing!Grows
  <1>3. I = F(I) BY <1>2 DEF Normalizing!Solvable, OfNormal
  <1>4. \A x : IMaxNormal(x) = I[x] BY DEF IMaxNormal
  <1> HIDE DEF I
  <1>5. I = [x \in Level |-> IMaxNormal(x)] BY <1>3, <1>4
  <1> QED BY <1>3, <1>4, <1>5

\* IsNeverZero by cases.
LEMMA NeverUnfolds ==
    ASSUME NEW l \in Level
    PROVE  IsNeverZero(l) = IsNeverZeroArm(l, [x \in Level |-> IsNeverZero(x)])
  <1> DEFINE F(f) == [x \in Level |-> IsNeverZeroArm(x, f)]
             I == CHOOSE f : f = F(f)
  <1>1. NeverZero!Local(0, LevelsTo) BY StagesOfLevels DEF NeverZero!Local, OfNever, IsNeverZeroArm, Is
  <1>2. NeverZero!Solvable(0, Level)
    BY <1>1, LevelsGrow, DepthsAssumption, NeverZero!HasFold DEF Level, NeverZero!Grows
  <1>3. I = F(I) BY <1>2 DEF NeverZero!Solvable, OfNever
  <1>4. \A x : IsNeverZero(x) = I[x] BY DEF IsNeverZero
  <1> HIDE DEF I
  <1>5. I = [x \in Level |-> IsNeverZero(x)] BY <1>3, <1>4
  <1> QED BY <1>3, <1>4, <1>5

\* SubstLevel by cases.
LEMMA SubstUnfolds ==
    ASSUME NEW s, NEW l \in Level
    PROVE  SubstLevel(l, s) = SubstLevelArm(s, l, [x \in Level |-> SubstLevel(x, s)])
  <1> DEFINE F(f) == [x \in Level |-> SubstLevelArm(s, x, f)]
             I == CHOOSE f : f = F(f)
  <1>1. Substituting!Local(s, LevelsTo) BY StagesOfLevels DEF Substituting!Local, SubstLevelArm, Is, IsAnyMax
  <1>2. Substituting!Solvable(s, Level)
    BY <1>1, LevelsGrow, DepthsAssumption, Substituting!HasFold DEF Level, Substituting!Grows
  <1>3. I = F(I) BY <1>2 DEF Substituting!Solvable
  <1>4. \A x : SubstLevel(x, s) = I[x] BY DEF SubstLevel
  <1> HIDE DEF I
  <1>5. I = [x \in Level |-> SubstLevel(x, s)] BY <1>3, <1>4
  <1> QED BY <1>3, <1>4, <1>5

\* AllUParamsDefined by cases.
LEMMA DefinedUnfolds ==
    ASSUME NEW names, NEW l \in Level
    PROVE  AllUParamsDefined(l, names) = AllUParamsArm(names, l, [x \in Level |-> AllUParamsDefined(x, names)])
  <1> DEFINE F(f) == [x \in Level |-> AllUParamsArm(names, x, f)]
             I == CHOOSE f : f = F(f)
  <1>1. Defining!Local(names, LevelsTo) BY StagesOfLevels DEF Defining!Local, AllUParamsArm, Is, IsAnyMax
  <1>2. Defining!Solvable(names, Level)
    BY <1>1, LevelsGrow, DepthsAssumption, Defining!HasFold DEF Level, Defining!Grows
  <1>3. I = F(I) BY <1>2 DEF Defining!Solvable
  <1>4. \A x : AllUParamsDefined(x, names) = I[x] BY DEF AllUParamsDefined
  <1> HIDE DEF I
  <1>5. I = [x \in Level |-> AllUParamsDefined(x, names)] BY <1>3, <1>4
  <1> QED BY <1>3, <1>4, <1>5

\* Interp of each node.
InterpRules(rho) ==
    /\ Interp(Zero, rho) = 0
    /\ \A p \in STRING : Interp(Param(p), rho) = rho[p]
    /\ \A x : Succ(x) \in Level => Interp(Succ(x), rho) = Interp(x, rho) + 1
    /\ \A x, y : Max(x, y) \in Level => Interp(Max(x, y), rho) = Maximum(Interp(x, rho), Interp(y, rho))
    /\ \A x, y : IMax(x, y) \in Level =>
          Interp(IMax(x, y), rho) = IF Interp(y, rho) = 0 THEN 0 ELSE Maximum(Interp(x, rho), Interp(y, rho))

\* interp follows its rules, for every assignment.
LEMMA InterpOf == \A rho : InterpRules(rho)
  <1> SUFFICES ASSUME NEW rho PROVE InterpRules(rho) OBVIOUS
  <1> DEFINE I == [x \in Level |-> Interp(x, rho)]
  <1>1. \A l \in Level : Interp(l, rho) = InterpArm(rho, l, I) BY InterpUnfolds
  <1>2. \A l \in Level : I[l] = Interp(l, rho) OBVIOUS
  <1> HIDE DEF I
  <1>3. Interp(Zero, rho) = 0 BY <1>1, LevelFacts DEF InterpArm, Is, Zero
  <1>4. \A p \in STRING : Interp(Param(p), rho) = rho[p] BY <1>1, LevelFacts DEF InterpArm, Is, Param
  <1>5. \A x : Succ(x) \in Level => Interp(Succ(x), rho) = Interp(x, rho) + 1
    BY <1>1, <1>2, LevelFacts DEF InterpArm, Is, Succ
  <1>6. \A x, y : Max(x, y) \in Level => Interp(Max(x, y), rho) = Maximum(Interp(x, rho), Interp(y, rho))
    BY <1>1, <1>2, LevelFacts DEF InterpArm, Is, Max
  <1>7. \A x, y : IMax(x, y) \in Level =>
           Interp(IMax(x, y), rho) = IF Interp(y, rho) = 0 THEN 0 ELSE Maximum(Interp(x, rho), Interp(y, rho))
    BY <1>1, <1>2, LevelFacts DEF InterpArm, Is, IMax
  <1> QED BY <1>3, <1>4, <1>5, <1>6, <1>7 DEF InterpRules

\* The parameters of each node.
LEMMA NamesOf ==
    /\ ParamNames(Zero) = {}
    /\ \A p \in STRING : ParamNames(Param(p)) = {p}
    /\ \A x : Succ(x) \in Level => ParamNames(Succ(x)) = ParamNames(x)
    /\ \A x, y : Max(x, y) \in Level => ParamNames(Max(x, y)) = ParamNames(x) \cup ParamNames(y)
    /\ \A x, y : IMax(x, y) \in Level => ParamNames(IMax(x, y)) = ParamNames(x) \cup ParamNames(y)
  <1> DEFINE I == [x \in Level |-> ParamNames(x)]
  <1>1. \A l \in Level : ParamNames(l) = ParamNamesArm(l, I) BY NamesUnfold
  <1>2. \A l \in Level : I[l] = ParamNames(l) OBVIOUS
  <1> HIDE DEF I
  <1>3. ParamNames(Zero) = {} BY <1>1, LevelFacts DEF ParamNamesArm, Is, IsAnyMax, Zero
  <1>4. \A p \in STRING : ParamNames(Param(p)) = {p} BY <1>1, LevelFacts DEF ParamNamesArm, Is, IsAnyMax, Param
  <1>5. \A x : Succ(x) \in Level => ParamNames(Succ(x)) = ParamNames(x)
    BY <1>1, <1>2, LevelFacts DEF ParamNamesArm, Is, IsAnyMax, Succ
  <1>6. \A x, y : Max(x, y) \in Level => ParamNames(Max(x, y)) = ParamNames(x) \cup ParamNames(y)
    BY <1>1, <1>2, LevelFacts DEF ParamNamesArm, Is, IsAnyMax, Max
  <1>7. \A x, y : IMax(x, y) \in Level => ParamNames(IMax(x, y)) = ParamNames(x) \cup ParamNames(y)
    BY <1>1, <1>2, LevelFacts DEF ParamNamesArm, Is, IsAnyMax, IMax
  <1> QED BY <1>3, <1>4, <1>5, <1>6, <1>7

-----------------------------------------------------------------------------
(* Denotations.                                                            *)

AllAssignments == [STRING -> Nat]

\* A level denotes a natural number.
LEMMA InterpIsNat == \A rho \in AllAssignments : \A l \in Level : Interp(l, rho) \in Nat
  <1> SUFFICES ASSUME NEW rho \in AllAssignments PROVE \A l \in Level : Interp(l, rho) \in Nat OBVIOUS
  <1> DEFINE S == {l \in Level : Interp(l, rho) \in Nat}
  <1>1. InterpRules(rho) BY InterpOf
  <1>2. Zero \in S BY <1>1, LevelFacts DEF InterpRules
  <1>3. \A p \in STRING : Param(p) \in S
    <2> SUFFICES ASSUME NEW p \in STRING PROVE Param(p) \in S OBVIOUS
    <2>1. rho[p] \in Nat BY DEF AllAssignments
    <2> QED BY <1>1, <2>1, LevelFacts DEF InterpRules
  <1>4. ASSUME NEW x \in S, Succ(x) \in Level PROVE Succ(x) \in S BY <1>1, <1>4 DEF InterpRules
  <1>5. ASSUME NEW x \in S, NEW y \in S, Max(x, y) \in Level PROVE Max(x, y) \in S
    BY <1>1, <1>5 DEF InterpRules, Maximum
  <1>6. ASSUME NEW x \in S, NEW y \in S, IMax(x, y) \in Level PROVE IMax(x, y) \in S
    BY <1>1, <1>6 DEF InterpRules, Maximum
  <1> HIDE DEF S
  <1>7. Level \subseteq S BY <1>2, <1>3, <1>4, <1>5, <1>6, LevelCases
  <1> QED BY <1>7 DEF S

\* Only the parameters of a level matter to what it denotes.
LEMMA NamesMatter ==
    ASSUME NEW rho, NEW sigma
    PROVE  \A l \in Level : /\ ParamNames(l) \subseteq STRING
                            /\ (\A p \in ParamNames(l) : rho[p] = sigma[p]) => Interp(l, rho) = Interp(l, sigma)
  <1> DEFINE P(l) == /\ ParamNames(l) \subseteq STRING
                     /\ (\A p \in ParamNames(l) : rho[p] = sigma[p]) => Interp(l, rho) = Interp(l, sigma)
             S == {l \in Level : P(l)}
  <1>1. InterpRules(rho) /\ InterpRules(sigma) BY InterpOf
  <1>2. Zero \in S BY <1>1, LevelFacts, NamesOf DEF InterpRules
  <1>3. \A p \in STRING : Param(p) \in S
    <2> SUFFICES ASSUME NEW p \in STRING PROVE P(Param(p)) BY LevelFacts
    <2>1. ParamNames(Param(p)) = {p} BY NamesOf
    <2>2. Interp(Param(p), rho) = rho[p] /\ Interp(Param(p), sigma) = sigma[p] BY <1>1 DEF InterpRules
    <2> QED BY <2>1, <2>2
  <1>4. ASSUME NEW x \in S, Succ(x) \in Level PROVE Succ(x) \in S
    <2>1. ParamNames(Succ(x)) = ParamNames(x) BY <1>4, NamesOf
    <2> QED BY <1>1, <1>4, <2>1 DEF InterpRules
  <1>5. ASSUME NEW x \in S, NEW y \in S, Max(x, y) \in Level PROVE Max(x, y) \in S
    <2>1. ParamNames(Max(x, y)) = ParamNames(x) \cup ParamNames(y) BY <1>5, NamesOf
    <2> QED BY <1>1, <1>5, <2>1 DEF InterpRules
  <1>6. ASSUME NEW x \in S, NEW y \in S, IMax(x, y) \in Level PROVE IMax(x, y) \in S
    <2>1. ParamNames(IMax(x, y)) = ParamNames(x) \cup ParamNames(y) BY <1>6, NamesOf
    <2> QED BY <1>1, <1>6, <2>1 DEF InterpRules
  <1>7. Level \subseteq S
    <2> HIDE DEF S
    <2> QED BY <1>2, <1>3, <1>4, <1>5, <1>6, LevelCases
  <1> QED BY <1>7
-----------------------------------------------------------------------------
(* Simplification: the operations that do not compare.                     *)

\* What leq_core needs of each node.
NormalRules ==
    /\ IMaxNormal(Zero) /\ \A p \in STRING : IMaxNormal(Param(p))
    /\ \A x : Succ(x) \in Level => (IMaxNormal(Succ(x)) <=> IMaxNormal(x))
    /\ \A x, y : Max(x, y) \in Level => (IMaxNormal(Max(x, y)) <=> IMaxNormal(x) /\ IMaxNormal(y))
    /\ \A x, y : IMax(x, y) \in Level =>
          (IMaxNormal(IMax(x, y)) <=> IMaxNormal(x) /\ IMaxNormal(y) /\ y[1] \notin {"zero", "succ"})

\* IMaxNormal follows its rules.
LEMMA NormalOf == NormalRules
  <1> DEFINE I == [x \in Level |-> IMaxNormal(x)]
  <1>1. \A l \in Level : IMaxNormal(l) = IMaxNormalArm(l, I) BY NormalUnfolds
  <1>2. \A l \in Level : I[l] = IMaxNormal(l) OBVIOUS
  <1> HIDE DEF I
  <1>3. IMaxNormal(Zero) BY <1>1, LevelFacts DEF IMaxNormalArm, Is, Zero
  <1>4. \A p \in STRING : IMaxNormal(Param(p)) BY <1>1, LevelFacts DEF IMaxNormalArm, Is, Param
  <1>5. \A x : Succ(x) \in Level => (IMaxNormal(Succ(x)) <=> IMaxNormal(x))
    BY <1>1, <1>2, LevelFacts DEF IMaxNormalArm, Is, Succ
  <1>6. \A x, y : Max(x, y) \in Level => (IMaxNormal(Max(x, y)) <=> IMaxNormal(x) /\ IMaxNormal(y))
    BY <1>1, <1>2, LevelFacts DEF IMaxNormalArm, Is, Max
  <1>7. \A x, y : IMax(x, y) \in Level =>
           (IMaxNormal(IMax(x, y)) <=> IMaxNormal(x) /\ IMaxNormal(y) /\ y[1] \notin {"zero", "succ"})
    BY <1>1, <1>2, LevelFacts DEF IMaxNormalArm, Is, IMax
  <1> QED BY <1>3, <1>4, <1>5, <1>6, <1>7 DEF NormalRules

OfPairs(s, p, f) == CombiningArm(p[1], p[2], f)
Pairing == INSTANCE StructuralRecursion WITH Arm <- OfPairs

\* Combining by cases.
LEMMA CombiningUnfolds ==
    ASSUME NEW l \in Level, NEW r \in Level
    PROVE  Combining(l, r) = CombiningArm(l, r, [p \in Level \X Level |-> Combining(p[1], p[2])])
  <1> DEFINE F(f) == [p \in Level \X Level |-> CombiningArm(p[1], p[2], f)]
             C == CHOOSE f : f = F(f)
             D == [n \in Nat |-> LevelsTo[n] \X Level]
  <1>1. Pairing!Grows(D)
    <2>1. D[0] = {}
      <3>1. D[0] = LevelsTo[0] \X Level OBVIOUS
      <3> QED BY <3>1, LevelsGrow
    <2>2. ASSUME NEW n \in Nat PROVE D[n] \subseteq D[n + 1]
      <3>1. D[n] = LevelsTo[n] \X Level /\ D[n + 1] = LevelsTo[n + 1] \X Level OBVIOUS
      <3>2. LevelsTo[n] \subseteq LevelsTo[n + 1] BY LevelsGrow
      <3> HIDE DEF D
      <3> QED BY <3>1, <3>2
    <2> QED BY <2>1, <2>2 DEF Pairing!Grows
  <1>2. Pairing!Local(0, D)
    <2> SUFFICES ASSUME NEW n \in Nat, NEW f, NEW g, \A y \in D[n] : f[y] = g[y], NEW p \in D[n + 1]
                 PROVE  CombiningArm(p[1], p[2], f) = CombiningArm(p[1], p[2], g)
      BY DEF Pairing!Local, OfPairs
    <2>1. D[n] = LevelsTo[n] \X Level /\ p \in LevelsTo[n + 1] \X Level OBVIOUS
    <2> HIDE DEF D
    <2>2. p[1] \in LevelsTo[n + 1] /\ p[2] \in Level BY <2>1
    <2>3. Is(p[1], "succ") => p[1][2] \in LevelsTo[n] BY <2>2, StagesOfLevels DEF Is
    <2>4. Is(p[2], "succ") => p[2][2] \in Level BY <2>2, LevelFacts DEF Is, MadeOf, Zero, Param, Succ, Max, IMax
    <2>5. Is(p[1], "succ") /\ Is(p[2], "succ") => <<p[1][2], p[2][2]>> \in D[n] BY <2>1, <2>3, <2>4
    <2> QED BY <2>5 DEF CombiningArm
  <1>3. D[LevelDepth] = Level \X Level BY DepthsAssumption DEF Level
  <1> HIDE DEF D
  <1>4. Pairing!Solvable(0, Level \X Level)
    BY <1>1, <1>2, <1>3, DepthsAssumption, Pairing!HasFold
  <1>5. C = F(C) BY <1>4 DEF Pairing!Solvable, OfPairs
  <1>6. \A x, y : Combining(x, y) = C[<<x, y>>] BY DEF Combining
  <1> HIDE DEF C
  <1>7. C = [p \in Level \X Level |-> Combining(p[1], p[2])] BY <1>5, <1>6
  <1>8. C[<<l, r>>] = CombiningArm(l, r, C)
    <2>1. <<l, r>> \in Level \X Level OBVIOUS
    <2>2. F(C)[<<l, r>>] = CombiningArm(l, r, C) BY <2>1
    <2> QED BY <1>5, <2>2
  <1> QED BY <1>6, <1>7, <1>8

\* Combining of each two nodes.
LEMMA CombiningOf ==
    \A l, r \in Level :
       /\ l = Zero => Combining(l, r) = r
       /\ l # Zero /\ r = Zero => Combining(l, r) = l
       /\ \A x, y \in Level : l = Succ(x) /\ r = Succ(y) => Combining(l, r) = Succ(Combining(x, y))
       /\ \/ l = Zero \/ r = Zero
          \/ \E x, y \in Level : l = Succ(x) /\ r = Succ(y)
          \/ Combining(l, r) = Max(l, r)
  <1> SUFFICES ASSUME NEW l \in Level, NEW r \in Level
               PROVE  /\ l = Zero => Combining(l, r) = r
                      /\ l # Zero /\ r = Zero => Combining(l, r) = l
                      /\ \A x, y \in Level : l = Succ(x) /\ r = Succ(y) => Combining(l, r) = Succ(Combining(x, y))
                      /\ \/ l = Zero \/ r = Zero
                         \/ \E x, y \in Level : l = Succ(x) /\ r = Succ(y)
                         \/ Combining(l, r) = Max(l, r)
    OBVIOUS
  <1> DEFINE C == [p \in Level \X Level |-> Combining(p[1], p[2])]
  <1>1. Combining(l, r) = CombiningArm(l, r, C) BY CombiningUnfolds
  <1>2. \A x, y \in Level : C[<<x, y>>] = Combining(x, y) OBVIOUS
  <1> HIDE DEF C
  <1>3. MadeOf(Level, l) /\ MadeOf(Level, r) BY LevelFacts
  <1>4. /\ Is(l, "zero") <=> l = Zero
        /\ Is(r, "zero") <=> r = Zero
        /\ Is(l, "succ") <=> \E x \in Level : l = Succ(x)
        /\ Is(r, "succ") <=> \E x \in Level : r = Succ(x)
    BY <1>3 DEF MadeOf, Is, Zero, Param, Succ, Max, IMax
  <1>5. \A x, y \in Level : l = Succ(x) /\ r = Succ(y) => Combining(l, r) = Succ(Combining(x, y))
    <2> SUFFICES ASSUME NEW x \in Level, NEW y \in Level, l = Succ(x), r = Succ(y)
                 PROVE  Combining(l, r) = Succ(Combining(x, y))
      OBVIOUS
    <2>1. ~Is(l, "zero") /\ ~Is(r, "zero") /\ Is(l, "succ") /\ Is(r, "succ") /\ l[2] = x /\ r[2] = y
      BY Nodes DEF Is
    <2> QED BY <1>1, <1>2, <2>1 DEF CombiningArm
  <1>6. l = Zero => Combining(l, r) = r BY <1>1, <1>4 DEF CombiningArm
  <1>7. l # Zero /\ r = Zero => Combining(l, r) = l BY <1>1, <1>4 DEF CombiningArm
  <1>8. ~Is(l, "zero") /\ ~Is(r, "zero") /\ ~(Is(l, "succ") /\ Is(r, "succ")) => Combining(l, r) = Max(l, r)
    BY <1>1 DEF CombiningArm
  <1> QED BY <1>4, <1>5, <1>6, <1>7, <1>8

\* What combining must do: the larger of both, of a depth at most one more, and
\* normal if both are.
Combined(n, l, r, c) ==
    /\ c \in LevelsTo[n + 1]
    /\ \A rho \in AllAssignments : Interp(c, rho) = Maximum(Interp(l, rho), Interp(r, rho))
    /\ IMaxNormal(l) /\ IMaxNormal(r) => IMaxNormal(c)

\* combining two normal levels is their maximum, normal and no deeper than a max of them.
LEMMA CombiningFacts ==
    \A n \in 0 .. LevelDepth - 1 : \A l, r \in LevelsTo[n] : Combined(n, l, r, Combining(l, r))
  <1> DEFINE S == {n \in Nat : n <= LevelDepth - 1 =>
                      \A l, r \in LevelsTo[n] : Combined(n, l, r, Combining(l, r))}
  <1>1. 0 \in S BY LevelsGrow
  <1>2. ASSUME NEW k \in Nat, k \in S PROVE k + 1 \in S
    <2>1. PICK n \in Nat : n = k + 1 BY <1>2
    <2> SUFFICES ASSUME n <= LevelDepth - 1, NEW l \in LevelsTo[n], NEW r \in LevelsTo[n]
                 PROVE  Combined(n, l, r, Combining(l, r))
      BY <2>1
    <2>2. k \in 0 .. LevelDepth /\ n \in 0 .. LevelDepth /\ n + 1 \in 0 .. LevelDepth BY <2>1, DepthsAssumption
    <2>3. LevelsTo[k] \subseteq Level /\ LevelsTo[n] \subseteq Level /\ LevelsTo[n + 1] \subseteq Level
      BY <2>2, StagesAreLevels
    <2>4. LevelsTo[n] \subseteq LevelsTo[n + 1] BY LevelsGrow
    <2>5. \A rho \in AllAssignments : Interp(l, rho) \in Nat /\ Interp(r, rho) \in Nat BY <2>3, InterpIsNat
    <2>6. \A rho \in AllAssignments : InterpRules(rho) BY InterpOf
    <2>7. CASE l = Zero
      <3>1. Combining(l, r) = r BY <2>3, <2>7, CombiningOf
      <3>2. \A rho \in AllAssignments : Interp(l, rho) = 0 BY <2>6, <2>7 DEF InterpRules
      <3> QED BY <2>4, <2>5, <3>1, <3>2 DEF Combined, Maximum
    <2>8. CASE l # Zero /\ r = Zero
      <3>1. Combining(l, r) = l BY <2>3, <2>8, CombiningOf
      <3>2. \A rho \in AllAssignments : Interp(r, rho) = 0 BY <2>6, <2>8 DEF InterpRules
      <3> QED BY <2>4, <2>5, <3>1, <3>2 DEF Combined, Maximum
    <2>9. ASSUME NEW x \in Level, NEW y \in Level, l = Succ(x), r = Succ(y)
          PROVE  Combined(n, l, r, Combining(l, r))
      <3> DEFINE c == Combining(x, y)
      <3>1. Combining(l, r) = Succ(c) BY <2>3, <2>9, CombiningOf
      <3>2. x \in LevelsTo[k] /\ y \in LevelsTo[k] BY <2>1, <2>9, Built
      <3>3. k <= LevelDepth - 1 BY <2>1, DepthsAssumption
      <3>4. Combined(k, x, y, c) BY <1>2, <3>2, <3>3
      <3> HIDE DEF c
      <3>5. c \in LevelsTo[n] BY <2>1, <3>4 DEF Combined
      <3>6. Succ(c) \in LevelsTo[n + 1] BY <3>5, Built
      <3>7. Succ(c) \in Level /\ Succ(x) \in Level /\ Succ(y) \in Level BY <2>3, <2>9, <3>6
      <3>8. ASSUME NEW rho \in AllAssignments
            PROVE  Interp(Succ(c), rho) = Maximum(Interp(l, rho), Interp(r, rho))
        <4>1. /\ Interp(Succ(c), rho) = Interp(c, rho) + 1
              /\ Interp(l, rho) = Interp(x, rho) + 1 /\ Interp(r, rho) = Interp(y, rho) + 1
          BY <2>6, <2>9, <3>7 DEF InterpRules
        <4>2. Interp(c, rho) = Maximum(Interp(x, rho), Interp(y, rho)) BY <3>4 DEF Combined
        <4>3. Interp(x, rho) \in Nat /\ Interp(y, rho) \in Nat BY InterpIsNat
        <4> QED BY <4>1, <4>2, <4>3 DEF Maximum
      <3>9. IMaxNormal(l) /\ IMaxNormal(r) => IMaxNormal(Succ(c))
        BY <2>9, <3>4, <3>7, NormalOf DEF NormalRules, Combined
      <3> QED BY <3>1, <3>6, <3>8, <3>9 DEF Combined
    <2>10. CASE Combining(l, r) = Max(l, r)
      <3>1. Max(l, r) \in LevelsTo[n + 1] BY Built
      <3>2. Max(l, r) \in Level BY <2>3, <3>1
      <3>3. \A rho \in AllAssignments : Interp(Max(l, r), rho) = Maximum(Interp(l, rho), Interp(r, rho))
        BY <2>6, <3>2 DEF InterpRules
      <3>4. IMaxNormal(l) /\ IMaxNormal(r) => IMaxNormal(Max(l, r)) BY <3>2, NormalOf DEF NormalRules
      <3> QED BY <2>10, <3>1, <3>3, <3>4 DEF Combined
    <2> QED BY <2>3, <2>7, <2>8, <2>9, <2>10, CombiningOf
  <1> HIDE DEF S
  <1>3. Nat \subseteq S BY <1>1, <1>2, Stages!Induction
  <1>4. \A n \in 0 .. LevelDepth - 1 : n \in S /\ n <= LevelDepth - 1 BY <1>3, DepthsAssumption
  <1> QED BY <1>4 DEF S
-----------------------------------------------------------------------------
(* Comparison and simplification, given answers that are sound.            *)

Below(l, r, diff) == \A rho \in AllAssignments : Interp(l, rho) <= Interp(r, rho) + diff
Same(l, r) == \A rho \in AllAssignments : Interp(l, rho) = Interp(r, rho)

\* A "yes" is right, leq_core does not panic where every imax is normal, and
\* simplify keeps what a level denotes and makes it normal.
CoreSound(run) == \A l, r \in Level : \A diff \in Int : run.core[<<l, r, diff>>] = "yes" => Below(l, r, diff)
CoreQuiet(run) ==
    \A l, r \in Level : \A diff \in Int : IMaxNormal(l) /\ IMaxNormal(r) => run.core[<<l, r, diff>>] # "panic"
Simplified(l, s) == s \in Level /\ Same(s, l) /\ IMaxNormal(s)
SimplifySound(run) == \A l \in Level : run.simplify[l] = TooDeep \/ Simplified(l, run.simplify[l])

Sound(run) == CoreSound(run) /\ CoreQuiet(run) /\ SimplifySound(run)

\* The answer to a question that is too deep is no level.
LEMMA TooDeepIsNoLevel == TooDeep \notin Level
  <1>1. \A l \in Level : MadeOf(Level, l) BY LevelFacts
  <1>2. ~MadeOf(Level, TooDeep) BY DEF MadeOf, TooDeep, Zero, Param, Succ, Max, IMax
  <1> QED BY <1>1, <1>2

\* What holds of the functions of a run holds of what is asked of it.
LEMMA AskFacts ==
    ASSUME NEW run, Sound(run)
    PROVE  /\ \A l, r : \A diff \in Int : Ask(run, l, r, diff) = "yes" => l \in Level /\ r \in Level /\ Below(l, r, diff)
           /\ \A l, r : \A diff \in Int :
                 (l \in Level => IMaxNormal(l)) /\ (r \in Level => IMaxNormal(r)) => Ask(run, l, r, diff) # "panic"
           /\ \A l : SimplifyBy(run, l) \in Level => l \in Level /\ Simplified(l, SimplifyBy(run, l))
  <1>1. \A l, r : \A diff \in Int : Ask(run, l, r, diff) = "yes" => l \in Level /\ r \in Level /\ Below(l, r, diff)
    BY DEF Sound, CoreSound, Ask
  <1>2. \A l, r : \A diff \in Int :
           (l \in Level => IMaxNormal(l)) /\ (r \in Level => IMaxNormal(r)) => Ask(run, l, r, diff) # "panic"
    BY DEF Sound, CoreQuiet, Ask
  <1>3. \A l : SimplifyBy(run, l) \in Level => l \in Level /\ Simplified(l, SimplifyBy(run, l))
    BY TooDeepIsNoLevel DEF Sound, SimplifySound, SimplifyBy
  <1> QED BY <1>1, <1>2, <1>3

\* leq, with the simplifications it starts with.
LEMMA LeqByFacts ==
    ASSUME NEW run, Sound(run), NEW l, NEW r
    PROVE  /\ LeqBy(run, l, r) = "yes" => l \in Level /\ r \in Level /\ Below(l, r, 0)
           /\ LeqBy(run, l, r) # "panic"
  <1> DEFINE sl == SimplifyBy(run, l)
             sr == SimplifyBy(run, r)
  <1>1. LeqBy(run, l, r) = Ask(run, sl, sr, 0) BY DEF LeqBy
  <1>2. sl \in Level => l \in Level /\ Same(sl, l) /\ IMaxNormal(sl) BY AskFacts DEF Simplified
  <1>3. sr \in Level => r \in Level /\ Same(sr, r) /\ IMaxNormal(sr) BY AskFacts DEF Simplified
  <1> HIDE DEF sl, sr
  <1>4. Ask(run, sl, sr, 0) = "yes" => sl \in Level /\ sr \in Level /\ Below(sl, sr, 0) BY AskFacts
  <1>5. Ask(run, sl, sr, 0) # "panic" BY <1>2, <1>3, AskFacts
  <1>6. Same(sl, l) /\ Same(sr, r) /\ Below(sl, sr, 0) => Below(l, r, 0) BY DEF Same, Below
  <1> QED BY <1>1, <1>2, <1>3, <1>4, <1>5, <1>6

\* The tests simplify makes of the left side of an imax.
LEMMA ZeroOrOne ==
    ASSUME NEW run, Sound(run), NEW l \in Level, IsZeroOrOneBy(run, l), NEW rho \in AllAssignments
    PROVE  Interp(l, rho) <= 1
  <1>1. InterpRules(rho) /\ Interp(l, rho) \in Nat BY InterpOf, InterpIsNat
  <1>2. CASE IsZeroBy(run, l) = "yes"
    <2>1. Below(l, Zero, 0) BY <1>2, LeqByFacts DEF IsZeroBy
    <2>2. Interp(l, rho) <= Interp(Zero, rho) + 0 BY <2>1 DEF Below
    <2> QED BY <1>1, <2>2 DEF InterpRules
  <1>3. CASE IsOneBy(run, l) = "yes"
    <2>1. Is(l, "succ") /\ IsZeroBy(run, l[2]) = "yes" BY <1>3 DEF IsOneBy
    <2>2. PICK x \in Level : l = Succ(x)
      <3>1. MadeOf(Level, l) BY LevelFacts
      <3> QED BY <2>1, <3>1 DEF MadeOf, Is, Zero, Param, Succ, Max, IMax
    <2>3. l[2] = x BY <2>2 DEF Succ
    <2>4. Below(x, Zero, 0) BY <2>1, <2>3, LeqByFacts DEF IsZeroBy
    <2>5. Interp(x, rho) <= Interp(Zero, rho) + 0 BY <2>4 DEF Below
    <2>6. Interp(l, rho) = Interp(x, rho) + 1 /\ Interp(x, rho) \in Nat BY <1>1, <2>2, InterpIsNat DEF InterpRules
    <2> QED BY <1>1, <2>5, <2>6 DEF InterpRules
  <1> QED BY <1>2, <1>3 DEF IsZeroOrOneBy

\* The imax arm of simplify.
LEMMA SimplifyIMaxFacts ==
    ASSUME NEW run, Sound(run), NEW n \in 0 .. LevelDepth - 1,
           NEW l \in LevelsTo[n], NEW r \in LevelsTo[n], IMaxNormal(l), IMaxNormal(r)
    PROVE  /\ SimplifyIMax(run, l, r) \in LevelsTo[n + 1]
           /\ Same(SimplifyIMax(run, l, r), IMax(l, r)) /\ IMaxNormal(SimplifyIMax(run, l, r))
  <1> DEFINE s == SimplifyIMax(run, l, r)
  <1>1. n \in Nat /\ n \in 0 .. LevelDepth /\ n + 1 \in 0 .. LevelDepth BY DepthsAssumption
  <1>2. LevelsTo[n] \subseteq LevelsTo[n + 1] /\ LevelsTo[n + 1] \subseteq Level BY <1>1, LevelsGrow, StagesAreLevels
  <1>3. IMax(l, r) \in LevelsTo[n + 1] BY <1>1, Built
  <1>4. \A rho \in AllAssignments :
           /\ Interp(l, rho) \in Nat /\ Interp(r, rho) \in Nat
           /\ Interp(IMax(l, r), rho) = IF Interp(r, rho) = 0 THEN 0 ELSE Maximum(Interp(l, rho), Interp(r, rho))
    BY <1>2, <1>3, InterpIsNat, InterpOf DEF InterpRules
  <1>5. CASE IsZeroOrOneBy(run, l) \/ Is(r, "zero")
    <2>1. s = r BY <1>5 DEF SimplifyIMax
    <2>2. ASSUME NEW rho \in AllAssignments PROVE Interp(r, rho) = Interp(IMax(l, r), rho)
      <3>1. CASE IsZeroOrOneBy(run, l)
        <4>1. Interp(l, rho) <= 1 BY <1>2, <3>1, ZeroOrOne
        <4> QED BY <1>4, <4>1 DEF Maximum
      <3>2. CASE Is(r, "zero")
        <4>1. MadeOf(Level, r) BY <1>2, LevelFacts
        <4>2. r = Zero BY <3>2, <4>1 DEF MadeOf, Is, Zero, Param, Succ, Max, IMax
        <4>3. Interp(r, rho) = 0 BY <4>2, InterpOf DEF InterpRules
        <4> QED BY <1>4, <4>3
      <3> QED BY <1>5, <3>1, <3>2
    <2> QED BY <1>2, <2>1, <2>2 DEF Same
  <1>6. CASE ~(IsZeroOrOneBy(run, l) \/ Is(r, "zero")) /\ Is(r, "succ")
    <2>1. s = Combining(l, r) BY <1>6 DEF SimplifyIMax
    <2>2. Combined(n, l, r, s) BY <2>1, CombiningFacts
    <2>3. ASSUME NEW rho \in AllAssignments PROVE Interp(r, rho) # 0
      <3>1. MadeOf(Level, r) BY <1>2, LevelFacts
      <3>2. PICK x \in Level : r = Succ(x) BY <1>6, <3>1 DEF MadeOf, Is, Zero, Param, Succ, Max, IMax
      <3>3. Interp(r, rho) = Interp(x, rho) + 1 /\ Interp(x, rho) \in Nat
        BY <1>2, <3>2, InterpIsNat, InterpOf DEF InterpRules
      <3> QED BY <3>3
    <2>4. Same(s, IMax(l, r)) BY <1>4, <2>2, <2>3 DEF Same, Combined
    <2> QED BY <2>2, <2>4 DEF Combined
  <1>7. CASE ~(IsZeroOrOneBy(run, l) \/ Is(r, "zero")) /\ ~Is(r, "succ")
    <2>1. s = IMax(l, r) BY <1>7 DEF SimplifyIMax
    <2>2. IMaxNormal(s) BY <1>2, <1>3, <1>7, <2>1, NormalOf DEF NormalRules, Is
    <2> QED BY <1>3, <2>1, <2>2 DEF Same
  <1> QED BY <1>5, <1>6, <1>7

Simplifying == INSTANCE StructuralRecursion WITH Arm <- SimplifyArm

\* simplify by cases.
LEMMA SimplifyUnfolds ==
    ASSUME NEW run
    PROVE  Answers(run).simplify = [l \in Level |-> SimplifyArm(run, l, Answers(run).simplify)]
  <1> DEFINE F(f) == [l \in Level |-> SimplifyArm(run, l, f)]
             S == CHOOSE f : f = F(f)
  <1>1. Simplifying!Local(run, LevelsTo) BY StagesOfLevels DEF Simplifying!Local, SimplifyArm, Is
  <1>2. Simplifying!Solvable(run, Level)
    BY <1>1, LevelsGrow, DepthsAssumption, Simplifying!HasFold DEF Level, Simplifying!Grows
  <1>3. S = F(S) BY <1>2 DEF Simplifying!Solvable
  <1>4. Answers(run).simplify = S BY DEF Answers
  <1> QED BY <1>3, <1>4

\* One call more: simplify keeps the denotation, and does not nest deeper.
LEMMA SimplifyStage ==
    ASSUME NEW run, Sound(run)
    PROVE  \A l \in Level : Simplified(l, Answers(run).simplify[l])
  <1> DEFINE s == Answers(run).simplify
             S == {n \in Nat : n <= LevelDepth =>
                      \A l \in LevelsTo[n] : s[l] \in LevelsTo[n] /\ Same(s[l], l) /\ IMaxNormal(s[l])}
  <1>1. \A l \in Level : s[l] = SimplifyArm(run, l, s) BY SimplifyUnfolds
  <1> HIDE DEF s
  <1>2. 0 \in S BY LevelsGrow
  <1>3. ASSUME NEW n \in Nat, n \in S PROVE n + 1 \in S
    <2> SUFFICES ASSUME n + 1 <= LevelDepth, NEW l \in LevelsTo[n + 1]
                 PROVE  s[l] \in LevelsTo[n + 1] /\ Same(s[l], l) /\ IMaxNormal(s[l])
      OBVIOUS
    <2>1. n \in 0 .. LevelDepth /\ n + 1 \in 0 .. LevelDepth /\ n \in 0 .. LevelDepth - 1 /\ n <= LevelDepth
      BY DepthsAssumption
    <2>2. LevelsTo[n] \subseteq Level /\ LevelsTo[n + 1] \subseteq Level BY <2>1, StagesAreLevels
    <2>3. \A x \in LevelsTo[n] : s[x] \in LevelsTo[n] /\ Same(s[x], x) /\ IMaxNormal(s[x]) BY <1>3, <2>1
    <2>4. s[l] = SimplifyArm(run, l, s) BY <1>1, <2>2
    <2>5. \A rho \in AllAssignments : InterpRules(rho) BY InterpOf
    <2>6. MadeOf(LevelsTo[n], l) BY Shapes
    <2> HIDE DEF S
    <2>7. CASE l = Zero \/ \E p \in STRING : l = Param(p)
      <3>1. s[l] = l
        <4>1. l[1] \in {"zero", "param"} BY <2>7 DEF Zero, Param
        <4>2. SimplifyArm(run, l, s) = l
          <5>1. CASE l[1] = "zero" BY <5>1 DEF SimplifyArm, Is
          <5>2. CASE l[1] = "param" BY <5>2 DEF SimplifyArm, Is
          <5> QED BY <4>1, <5>1, <5>2
        <4> QED BY <2>4, <4>2
      <3> QED BY <2>7, <3>1, NormalOf DEF Same, NormalRules
    <2>8. ASSUME NEW x \in LevelsTo[n], l = Succ(x)
          PROVE  s[l] \in LevelsTo[n + 1] /\ Same(s[l], l) /\ IMaxNormal(s[l])
      <3>1. s[l] = Succ(s[x]) BY <2>4, <2>8, Nodes DEF SimplifyArm, Is
      <3>2. Succ(s[x]) \in LevelsTo[n + 1] /\ Succ(s[x]) \in Level BY <2>2, <2>3, Built
      <3>3. ASSUME NEW rho \in AllAssignments PROVE Interp(Succ(s[x]), rho) = Interp(l, rho)
        <4>1. Interp(Succ(s[x]), rho) = Interp(s[x], rho) + 1 BY <2>5, <3>2 DEF InterpRules
        <4>2. Interp(l, rho) = Interp(x, rho) + 1 BY <2>2, <2>5, <2>8 DEF InterpRules
        <4>3. Interp(s[x], rho) = Interp(x, rho) BY <2>3 DEF Same
        <4> QED BY <4>1, <4>2, <4>3
      <3>4. IMaxNormal(Succ(s[x])) BY <2>3, <3>2, NormalOf DEF NormalRules
      <3> QED BY <3>1, <3>2, <3>3, <3>4 DEF Same
    <2>9. ASSUME NEW x \in LevelsTo[n], NEW y \in LevelsTo[n], l = Max(x, y)
          PROVE  s[l] \in LevelsTo[n + 1] /\ Same(s[l], l) /\ IMaxNormal(s[l])
      <3>1. s[l] = Combining(s[x], s[y]) BY <2>4, <2>9, Nodes DEF SimplifyArm, Is
      <3>2. Combined(n, s[x], s[y], s[l]) BY <2>1, <2>3, <3>1, CombiningFacts
      <3>3. ASSUME NEW rho \in AllAssignments PROVE Interp(s[l], rho) = Interp(l, rho)
        <4>1. Interp(s[l], rho) = Maximum(Interp(s[x], rho), Interp(s[y], rho)) BY <3>2 DEF Combined
        <4>2. Interp(l, rho) = Maximum(Interp(x, rho), Interp(y, rho)) BY <2>2, <2>5, <2>9 DEF InterpRules
        <4> QED BY <2>3, <4>1, <4>2 DEF Same
      <3> QED BY <2>3, <3>2, <3>3 DEF Same, Combined
    <2>10. ASSUME NEW x \in LevelsTo[n], NEW y \in LevelsTo[n], l = IMax(x, y)
           PROVE  s[l] \in LevelsTo[n + 1] /\ Same(s[l], l) /\ IMaxNormal(s[l])
      <3>1. s[l] = SimplifyIMax(run, s[x], s[y]) BY <2>4, <2>10, Nodes DEF SimplifyArm, Is
      <3>2. s[l] \in LevelsTo[n + 1] /\ Same(s[l], IMax(s[x], s[y])) /\ IMaxNormal(s[l])
        BY <2>1, <2>3, <3>1, SimplifyIMaxFacts
      <3>3. IMax(s[x], s[y]) \in Level BY <2>2, <2>3, Built
      <3>4. ASSUME NEW rho \in AllAssignments PROVE Interp(s[l], rho) = Interp(l, rho)
        <4>1. Interp(s[l], rho) = Interp(IMax(s[x], s[y]), rho) BY <3>2 DEF Same
        <4>2. Interp(s[x], rho) = Interp(x, rho) /\ Interp(s[y], rho) = Interp(y, rho) BY <2>3 DEF Same
        <4>3. Interp(IMax(s[x], s[y]), rho) = Interp(IMax(x, y), rho)
          <5> DEFINE Is0(v, w) == IF w = 0 THEN 0 ELSE Maximum(v, w)
          <5>1. Interp(IMax(s[x], s[y]), rho) = Is0(Interp(s[x], rho), Interp(s[y], rho))
            BY <2>5, <3>3 DEF InterpRules
          <5>2. Interp(IMax(x, y), rho) = Is0(Interp(x, rho), Interp(y, rho)) BY <2>2, <2>5, <2>10 DEF InterpRules
          <5> HIDE DEF Is0
          <5> QED BY <4>2, <5>1, <5>2
        <4> QED BY <2>10, <4>1, <4>3
      <3> QED BY <3>2, <3>4 DEF Same
    <2> QED BY <2>6, <2>7, <2>8, <2>9, <2>10 DEF MadeOf
  <1> HIDE DEF S
  <1>4. Nat \subseteq S BY <1>2, <1>3, Stages!Induction
  <1>5. LevelDepth \in S BY <1>4, DepthsAssumption
  <1>6. \A l \in Level : s[l] \in Level /\ Same(s[l], l) /\ IMaxNormal(s[l]) BY <1>5, DepthsAssumption DEF S, Level
  <1> QED BY <1>6 DEF Simplified, s
-----------------------------------------------------------------------------
(* Substitution.                                                           *)

\* subst_level on each node.
SubstRules(s) ==
    /\ SubstLevel(Zero, s) = Zero
    /\ \A p \in STRING : SubstLevel(Param(p), s) = SubstParam(p, s)
    /\ \A x : Succ(x) \in Level => SubstLevel(Succ(x), s) = Succ(SubstLevel(x, s))
    /\ \A x, y : Max(x, y) \in Level => SubstLevel(Max(x, y), s) = Max(SubstLevel(x, s), SubstLevel(y, s))
    /\ \A x, y : IMax(x, y) \in Level => SubstLevel(IMax(x, y), s) = IMax(SubstLevel(x, s), SubstLevel(y, s))

\* subst_level follows its rules.
LEMMA SubstOf == \A s : SubstRules(s)
  <1> SUFFICES ASSUME NEW s PROVE SubstRules(s) OBVIOUS
  <1> DEFINE I == [x \in Level |-> SubstLevel(x, s)]
  <1>1. \A l \in Level : SubstLevel(l, s) = SubstLevelArm(s, l, I) BY SubstUnfolds
  <1>2. \A l \in Level : I[l] = SubstLevel(l, s) OBVIOUS
  <1> HIDE DEF I
  <1>3. SubstLevel(Zero, s) = Zero BY <1>1, LevelFacts DEF SubstLevelArm, Is, IsAnyMax, Zero
  <1>4. \A p \in STRING : SubstLevel(Param(p), s) = SubstParam(p, s)
    BY <1>1, LevelFacts DEF SubstLevelArm, Is, IsAnyMax, Param
  <1>5. \A x : Succ(x) \in Level => SubstLevel(Succ(x), s) = Succ(SubstLevel(x, s))
    BY <1>1, <1>2, LevelFacts DEF SubstLevelArm, Is, IsAnyMax, Succ
  <1>6. \A x, y : Max(x, y) \in Level => SubstLevel(Max(x, y), s) = Max(SubstLevel(x, s), SubstLevel(y, s))
    BY <1>1, <1>2, LevelFacts DEF SubstLevelArm, Is, IsAnyMax, Max
  <1>7. \A x, y : IMax(x, y) \in Level => SubstLevel(IMax(x, y), s) = IMax(SubstLevel(x, s), SubstLevel(y, s))
    BY <1>1, <1>2, LevelFacts DEF SubstLevelArm, Is, IsAnyMax, IMax
  <1> QED BY <1>3, <1>4, <1>5, <1>6, <1>7 DEF SubstRules

\* Substituting and then evaluating is evaluating with the parameters bound to
\* the values of what replaces them.
LEMMA SubstMeaning ==
    ASSUME NEW s, NEW rho, NEW sigma
    PROVE  \A l \in Level :
              SubstLevel(l, s) \in Level /\ (\A p \in ParamNames(l) : sigma[p] = Interp(SubstParam(p, s), rho))
              => Interp(SubstLevel(l, s), rho) = Interp(l, sigma)
  <1> DEFINE Ok(l) == SubstLevel(l, s) \in Level /\ \A p \in ParamNames(l) : sigma[p] = Interp(SubstParam(p, s), rho)
             P(l) == Ok(l) => Interp(SubstLevel(l, s), rho) = Interp(l, sigma)
             S == {l \in Level : P(l)}
  <1>1. InterpRules(rho) /\ InterpRules(sigma) /\ SubstRules(s) BY InterpOf, SubstOf
  <1>2. Zero \in S BY <1>1, LevelFacts DEF InterpRules, SubstRules
  <1>3. \A p \in STRING : Param(p) \in S
    <2> SUFFICES ASSUME NEW p \in STRING, Ok(Param(p))
                 PROVE  Interp(SubstLevel(Param(p), s), rho) = Interp(Param(p), sigma)
      BY LevelFacts
    <2>1. ParamNames(Param(p)) = {p} BY NamesOf
    <2>2. Interp(Param(p), sigma) = sigma[p] BY <1>1 DEF InterpRules
    <2>3. SubstLevel(Param(p), s) = SubstParam(p, s) BY <1>1 DEF SubstRules
    <2> QED BY <2>1, <2>2, <2>3
  <1>4. ASSUME NEW x \in S, Succ(x) \in Level, Ok(Succ(x))
        PROVE  Interp(SubstLevel(Succ(x), s), rho) = Interp(Succ(x), sigma)
    <2>1. ParamNames(Succ(x)) = ParamNames(x) BY <1>4, NamesOf
    <2>2. SubstLevel(Succ(x), s) = Succ(SubstLevel(x, s)) BY <1>1, <1>4 DEF SubstRules
    <2>3. SubstLevel(x, s) \in Level BY <1>4, <2>2, LevelFacts
    <2>4. Interp(SubstLevel(x, s), rho) = Interp(x, sigma) BY <1>4, <2>1, <2>3
    <2>5. Interp(Succ(x), sigma) = Interp(x, sigma) + 1 BY <1>1, <1>4 DEF InterpRules
    <2>6. Interp(Succ(SubstLevel(x, s)), rho) = Interp(SubstLevel(x, s), rho) + 1
      BY <1>1, <1>4, <2>2 DEF InterpRules
    <2> QED BY <2>2, <2>4, <2>5, <2>6
  <1>5. ASSUME NEW x \in S, NEW y \in S, Max(x, y) \in Level, Ok(Max(x, y))
        PROVE  Interp(SubstLevel(Max(x, y), s), rho) = Interp(Max(x, y), sigma)
    <2> DEFINE a == SubstLevel(x, s)
               b == SubstLevel(y, s)
    <2>1. ParamNames(Max(x, y)) = ParamNames(x) \cup ParamNames(y) BY <1>5, NamesOf
    <2>2. SubstLevel(Max(x, y), s) = Max(a, b) BY <1>1, <1>5 DEF SubstRules
    <2>3. a \in Level /\ b \in Level BY <1>5, <2>2, LevelFacts
    <2>4. Interp(a, rho) = Interp(x, sigma) /\ Interp(b, rho) = Interp(y, sigma) BY <1>5, <2>1, <2>3
    <2>5. Interp(Max(x, y), sigma) = Maximum(Interp(x, sigma), Interp(y, sigma)) BY <1>1, <1>5 DEF InterpRules
    <2>6. Interp(Max(a, b), rho) = Maximum(Interp(a, rho), Interp(b, rho)) BY <1>1, <1>5, <2>2 DEF InterpRules
    <2> QED BY <2>2, <2>4, <2>5, <2>6
  <1>6. ASSUME NEW x \in S, NEW y \in S, IMax(x, y) \in Level, Ok(IMax(x, y))
        PROVE  Interp(SubstLevel(IMax(x, y), s), rho) = Interp(IMax(x, y), sigma)
    <2> DEFINE a == SubstLevel(x, s)
               b == SubstLevel(y, s)
               Is0(v, w) == IF w = 0 THEN 0 ELSE Maximum(v, w)
    <2>1. ParamNames(IMax(x, y)) = ParamNames(x) \cup ParamNames(y) BY <1>6, NamesOf
    <2>2. SubstLevel(IMax(x, y), s) = IMax(a, b) BY <1>1, <1>6 DEF SubstRules
    <2>3. a \in Level /\ b \in Level BY <1>6, <2>2, LevelFacts
    <2>4. Interp(a, rho) = Interp(x, sigma) /\ Interp(b, rho) = Interp(y, sigma) BY <1>6, <2>1, <2>3
    <2>5. Interp(IMax(x, y), sigma) = Is0(Interp(x, sigma), Interp(y, sigma)) BY <1>1, <1>6 DEF InterpRules
    <2>6. Interp(IMax(a, b), rho) = Is0(Interp(a, rho), Interp(b, rho)) BY <1>1, <1>6, <2>2 DEF InterpRules
    <2> HIDE DEF Is0
    <2> QED BY <2>2, <2>4, <2>5, <2>6
  <1>7. Level \subseteq S
    <2>1. \A x \in S : Succ(x) \in Level => Succ(x) \in S BY <1>4
    <2>2. \A x, y \in S : Max(x, y) \in Level => Max(x, y) \in S BY <1>5
    <2>3. \A x, y \in S : IMax(x, y) \in Level => IMax(x, y) \in S BY <1>6
    <2> HIDE DEF S
    <2> QED BY <1>2, <1>3, <2>1, <2>2, <2>3, LevelCases
  <1> QED BY <1>7

\* One parameter, replaced by a level.
LEMMA SubstOne ==
    ASSUME NEW q \in STRING, NEW v \in Level, NEW l \in Level, NEW rho \in AllAssignments,
           SubstLevel(l, [ks |-> <<q>>, vs |-> <<v>>]) \in Level
    PROVE  Interp(SubstLevel(l, [ks |-> <<q>>, vs |-> <<v>>]), rho) = Interp(l, [rho EXCEPT ![q] = Interp(v, rho)])
  <1> DEFINE s == [ks |-> <<q>>, vs |-> <<v>>]
             sigma == [rho EXCEPT ![q] = Interp(v, rho)]
  <1>1. s.ks = <<q>> /\ s.vs = <<v>> /\ DOMAIN s.ks = {1} /\ DOMAIN s.vs = {1} /\ s.ks[1] = q /\ s.vs[1] = v
    OBVIOUS
  <1>2. ParamNames(l) \subseteq STRING BY NamesMatter
  <1>3. ASSUME NEW p \in STRING PROVE sigma[p] = Interp(SubstParam(p, s), rho)
    <2>1. CASE p = q
      <3>1. Matches(p, s) = {1} BY <1>1, <2>1 DEF Matches
      <3>2. FirstMatch(p, s) = 1 BY <3>1 DEF FirstMatch
      <3>3. SubstParam(p, s) = v BY <1>1, <3>1, <3>2 DEF SubstParam
      <3>4. sigma[p] = Interp(v, rho) BY <2>1 DEF AllAssignments
      <3> QED BY <3>3, <3>4
    <2>2. CASE p # q
      <3>1. Matches(p, s) = {} BY <1>1, <2>2 DEF Matches
      <3>2. SubstParam(p, s) = Param(p) BY <3>1 DEF SubstParam
      <3>3. sigma[p] = rho[p] BY <2>2 DEF AllAssignments
      <3>4. Interp(Param(p), rho) = rho[p] BY InterpOf DEF InterpRules
      <3> QED BY <3>2, <3>3, <3>4
    <2> QED BY <2>1, <2>2
  <1> HIDE DEF s, sigma
  <1>4. \A p \in ParamNames(l) : sigma[p] = Interp(SubstParam(p, s), rho) BY <1>2, <1>3
  <1>5. SubstLevel(l, s) \in Level BY DEF s
  <1>6. Interp(SubstLevel(l, s), rho) = Interp(l, sigma) BY <1>4, <1>5, SubstMeaning
  <1> QED BY <1>6 DEF s, sigma
-----------------------------------------------------------------------------
(* leq_core, given answers that are sound.                                 *)

\* The two cases of a parameter cover all assignments.
LEMMA ByCasesFacts ==
    ASSUME NEW run, Sound(run), NEW q \in STRING, NEW l \in Level, NEW r \in Level, NEW diff \in Int
    PROVE  /\ LeqIMaxByCases(run, Param(q), l, r, diff) = "yes" => Below(l, r, diff)
           /\ LeqIMaxByCases(run, Param(q), l, r, diff) # "panic"
  <1> DEFINE At(x, v) == SubstLevel(x, [ks |-> <<q>>, vs |-> <<v>>])
             Then(x, v) == SubstSimp(run, x, Param(q), v)
             one == Succ(Param(q))
  <1>1. Zero \in Level /\ one \in Level /\ Param(q) \in Level BY LevelFacts
  <1>2. \A x, v : Then(x, v) = SimplifyBy(run, At(x, v)) BY Nodes DEF SubstSimp
  <1>3. \A x, v : Then(x, v) \in Level =>
           At(x, v) \in Level /\ Same(Then(x, v), At(x, v)) /\ IMaxNormal(Then(x, v))
    BY <1>2, AskFacts DEF Simplified
  <1>4. LeqIMaxByCases(run, Param(q), l, r, diff) =
           IF Ask(run, Then(l, Zero), Then(r, Zero), diff) # "yes" THEN Ask(run, Then(l, Zero), Then(r, Zero), diff)
           ELSE Ask(run, Then(l, one), Then(r, one), diff)
    BY DEF LeqIMaxByCases
  <1>5. ASSUME NEW v \in Level, Ask(run, Then(l, v), Then(r, v), diff) = "yes", NEW rho \in AllAssignments
        PROVE  Interp(l, [rho EXCEPT ![q] = Interp(v, rho)]) <= Interp(r, [rho EXCEPT ![q] = Interp(v, rho)]) + diff
    <2> HIDE DEF Then
    <2>1. Then(l, v) \in Level /\ Then(r, v) \in Level /\ Below(Then(l, v), Then(r, v), diff) BY <1>5, AskFacts
    <2>2. Interp(Then(l, v), rho) <= Interp(Then(r, v), rho) + diff BY <2>1 DEF Below
    <2>3. Interp(Then(l, v), rho) = Interp(At(l, v), rho) /\ Interp(Then(r, v), rho) = Interp(At(r, v), rho)
      BY <1>3, <2>1 DEF Same
    <2>4. Interp(At(l, v), rho) = Interp(l, [rho EXCEPT ![q] = Interp(v, rho)])
      BY <1>3, <2>1, SubstOne
    <2>5. Interp(At(r, v), rho) = Interp(r, [rho EXCEPT ![q] = Interp(v, rho)])
      BY <1>3, <2>1, SubstOne
    <2> QED BY <2>2, <2>3, <2>4, <2>5
  <1>6. \A x, v : Then(x, v) \in Level => IMaxNormal(Then(x, v)) BY <1>3
  <1> HIDE DEF Then, At
  <1>7. LeqIMaxByCases(run, Param(q), l, r, diff) # "panic" BY <1>4, <1>6, AskFacts
  <1>8. ASSUME LeqIMaxByCases(run, Param(q), l, r, diff) = "yes", NEW rho \in AllAssignments
        PROVE  Interp(l, rho) <= Interp(r, rho) + diff
    <2>1. Ask(run, Then(l, Zero), Then(r, Zero), diff) = "yes" /\ Ask(run, Then(l, one), Then(r, one), diff) = "yes"
      BY <1>4, <1>8
    <2>2. rho[q] \in Nat BY DEF AllAssignments
    <2>3. CASE rho[q] = 0
      <3>1. Interp(Zero, rho) = 0 BY InterpOf DEF InterpRules
      <3>2. [rho EXCEPT ![q] = 0] = rho BY <2>3 DEF AllAssignments
      <3> QED BY <1>1, <1>5, <2>1, <3>1, <3>2
    <2>4. CASE rho[q] # 0
      <3>1. PICK k \in Nat : rho[q] = k + 1
        <4>1. PICK j \in Nat : j = rho[q] BY <2>2
        <4>2. j # 0 BY <2>4, <4>1
        <4>3. j - 1 \in Nat /\ j = (j - 1) + 1 BY <4>2
        <4> QED BY <4>1, <4>3
      <3> DEFINE sigma == [rho EXCEPT ![q] = k]
      <3>2. sigma \in AllAssignments BY DEF AllAssignments
      <3>3. sigma[q] = k BY DEF AllAssignments
      <3>4. [sigma EXCEPT ![q] = k + 1] = rho BY <3>1 DEF AllAssignments
      <3> HIDE DEF sigma
      <3>5. Interp(one, sigma) = k + 1
        <4>1. InterpRules(sigma) BY InterpOf
        <4> QED BY <1>1, <3>3, <4>1 DEF InterpRules
      <3> QED BY <1>1, <1>5, <2>1, <3>2, <3>4, <3>5
    <2> QED BY <2>3, <2>4
  <1> QED BY <1>7, <1>8 DEF Below

\* Pushing an imax in keeps what it denotes.
LEMMA PushFacts ==
    ASSUME NEW run, Sound(run), NEW a \in Level, NEW b \in Level, IMax(a, b) \in Level, IsAnyMax(b),
           PushIMax(run, a, b) \in Level
    PROVE  /\ Same(PushIMax(run, a, b), IMax(a, b))
           /\ IMaxNormal(IMax(a, b)) => IMaxNormal(PushIMax(run, a, b))
  <1>1. PICK c \in Level, d \in Level : b = Max(c, d) \/ b = IMax(c, d)
    <2>1. MadeOf(Level, b) BY LevelFacts
    <2> QED BY <2>1 DEF MadeOf, IsAnyMax, Zero, Param, Succ, Max, IMax
  <1> DEFINE w == Max(IMax(a, c), IMax(a, d))
             u == Max(IMax(a, d), IMax(c, d))
  <1>2. \A rho \in AllAssignments : InterpRules(rho) BY InterpOf
  <1>3. CASE b = IMax(c, d)
    <2>1. PushIMax(run, a, b) = u BY <1>3, Nodes DEF PushIMax, Is
    <2>2. u \in Level /\ IMax(a, d) \in Level /\ IMax(c, d) \in Level BY <2>1, LevelFacts
    <2>3. ASSUME NEW rho \in AllAssignments PROVE Interp(u, rho) = Interp(IMax(a, b), rho)
      <3>1. Interp(a, rho) \in Nat /\ Interp(c, rho) \in Nat /\ Interp(d, rho) \in Nat BY InterpIsNat
      <3>2. Interp(u, rho) = Maximum(Interp(IMax(a, d), rho), Interp(IMax(c, d), rho)) BY <1>2, <2>2 DEF InterpRules
      <3>3. /\ Interp(IMax(a, d), rho) = IF Interp(d, rho) = 0 THEN 0 ELSE Maximum(Interp(a, rho), Interp(d, rho))
            /\ Interp(b, rho) = IF Interp(d, rho) = 0 THEN 0 ELSE Maximum(Interp(c, rho), Interp(d, rho))
            /\ Interp(IMax(a, b), rho) = IF Interp(b, rho) = 0 THEN 0 ELSE Maximum(Interp(a, rho), Interp(b, rho))
        BY <1>2, <1>3, <2>2 DEF InterpRules
      <3> QED BY <1>3, <3>1, <3>2, <3>3 DEF Maximum
    <2>4. IMaxNormal(IMax(a, b)) => IMaxNormal(u) BY <1>3, <2>2, NormalOf DEF NormalRules
    <2> QED BY <2>1, <2>3, <2>4 DEF Same
  <1>4. CASE b = Max(c, d)
    <2>1. PushIMax(run, a, b) = SimplifyBy(run, w) BY <1>4, Nodes DEF PushIMax, Is
    <2>2. w \in Level /\ Same(PushIMax(run, a, b), w) /\ IMaxNormal(PushIMax(run, a, b))
      BY <2>1, AskFacts DEF Simplified
    <2>3. IMax(a, c) \in Level /\ IMax(a, d) \in Level BY <2>2, LevelFacts
    <2>4. ASSUME NEW rho \in AllAssignments PROVE Interp(w, rho) = Interp(IMax(a, b), rho)
      <3>1. Interp(a, rho) \in Nat /\ Interp(c, rho) \in Nat /\ Interp(d, rho) \in Nat BY InterpIsNat
      <3>2. Interp(w, rho) = Maximum(Interp(IMax(a, c), rho), Interp(IMax(a, d), rho)) BY <1>2, <2>2 DEF InterpRules
      <3>3. /\ Interp(IMax(a, c), rho) = IF Interp(c, rho) = 0 THEN 0 ELSE Maximum(Interp(a, rho), Interp(c, rho))
            /\ Interp(IMax(a, d), rho) = IF Interp(d, rho) = 0 THEN 0 ELSE Maximum(Interp(a, rho), Interp(d, rho))
            /\ Interp(b, rho) = Maximum(Interp(c, rho), Interp(d, rho))
            /\ Interp(IMax(a, b), rho) = IF Interp(b, rho) = 0 THEN 0 ELSE Maximum(Interp(a, rho), Interp(b, rho))
        BY <1>2, <1>4, <2>3 DEF InterpRules
      <3> QED BY <3>1, <3>2, <3>3 DEF Maximum
    <2> QED BY <2>2, <2>4 DEF Same
  <1> QED BY <1>1, <1>3, <1>4

\* A level by its tag.
LEMMA TagFacts ==
    ASSUME NEW l \in Level
    PROVE  /\ l[1] \in {"zero", "param", "succ", "max", "imax"}
           /\ Is(l, "zero") => l = Zero
           /\ Is(l, "param") => l[2] \in STRING /\ l = Param(l[2])
           /\ Is(l, "succ") => l[2] \in Level /\ l = Succ(l[2])
           /\ Is(l, "max") => l[2] \in Level /\ l[3] \in Level /\ l = Max(l[2], l[3])
           /\ Is(l, "imax") => l[2] \in Level /\ l[3] \in Level /\ l = IMax(l[2], l[3])
  <1>1. MadeOf(Level, l) BY LevelFacts
  <1>2. CASE l = Zero BY <1>2, Nodes DEF Is
  <1>3. CASE \E p \in STRING : l = Param(p)
    <2>1. PICK p \in STRING : l = Param(p) BY <1>3
    <2>2. l[1] = "param" /\ l[2] = p BY <2>1, Nodes
    <2> QED BY <2>1, <2>2 DEF Is
  <1>4. CASE \E x \in Level : l = Succ(x)
    <2>1. PICK x \in Level : l = Succ(x) BY <1>4
    <2>2. l[1] = "succ" /\ l[2] = x BY <2>1, Nodes
    <2> QED BY <2>1, <2>2 DEF Is
  <1>5. CASE \E x, y \in Level : l = Max(x, y)
    <2>1. PICK x \in Level, y \in Level : l = Max(x, y) BY <1>5
    <2>2. l[1] = "max" /\ l[2] = x /\ l[3] = y BY <2>1, Nodes
    <2> QED BY <2>1, <2>2 DEF Is
  <1>6. CASE \E x, y \in Level : l = IMax(x, y)
    <2>1. PICK x \in Level, y \in Level : l = IMax(x, y) BY <1>6
    <2>2. l[1] = "imax" /\ l[2] = x /\ l[3] = y BY <2>1, Nodes
    <2> QED BY <2>1, <2>2 DEF Is
  <1> QED BY <1>1, <1>2, <1>3, <1>4, <1>5, <1>6 DEF MadeOf

\* The arms for imax.
LEMMA IMaxStep ==
    ASSUME NEW run, Sound(run), NEW l \in Level, NEW r \in Level, NEW diff \in Int,
           Is(l, "imax") \/ Is(r, "imax")
    PROVE  /\ LeqCoreIMax(run, l, r, diff) = "yes" => Below(l, r, diff)
           /\ IMaxNormal(l) /\ IMaxNormal(r) => LeqCoreIMax(run, l, r, diff) # "panic"
  <1> DEFINE c == LeqCoreIMax(run, l, r, diff)
             A1 == Is(l, "imax") /\ l = r /\ diff >= 0
             A2 == Is(l, "imax") /\ Is(l[3], "param")
             A3 == Is(r, "imax") /\ Is(r[3], "param")
             A4 == Is(l, "imax") /\ IsAnyMax(l[3])
             A5 == Is(r, "imax") /\ IsAnyMax(r[3])
             pl == PushIMax(run, l[2], l[3])
             pr == PushIMax(run, r[2], r[3])
  <1>1. CASE A1
    <2>1. \A rho \in AllAssignments : Interp(l, rho) \in Nat BY InterpIsNat
    <2>2. Below(l, r, diff) BY <1>1, <2>1 DEF Below
    <2>3. c = "yes" BY <1>1 DEF LeqCoreIMax
    <2> QED BY <2>2, <2>3
  <1>2. CASE ~A1 /\ A2
    <2>1. l[3] \in Level /\ l[3][2] \in STRING /\ l[3] = Param(l[3][2]) BY <1>2, TagFacts
    <2>2. c = LeqIMaxByCases(run, l[3], l, r, diff) BY <1>2 DEF LeqCoreIMax
    <2> QED BY <2>1, <2>2, ByCasesFacts
  <1>3. CASE ~A1 /\ ~A2 /\ A3
    <2>1. r[3] \in Level /\ r[3][2] \in STRING /\ r[3] = Param(r[3][2]) BY <1>3, TagFacts
    <2>2. c = LeqIMaxByCases(run, r[3], l, r, diff) BY <1>3 DEF LeqCoreIMax
    <2> QED BY <2>1, <2>2, ByCasesFacts
  <1>4. CASE ~A1 /\ ~A2 /\ ~A3 /\ A4
    <2>1. l[2] \in Level /\ l[3] \in Level /\ l = IMax(l[2], l[3]) BY <1>4, TagFacts
    <2>2. c = Ask(run, pl, r, diff) BY <1>4 DEF LeqCoreIMax
    <2>3. pl \in Level => Same(pl, l) /\ (IMaxNormal(l) => IMaxNormal(pl)) BY <1>4, <2>1, PushFacts
    <2> HIDE DEF c, pl
    <2>4. c = "yes" => Below(l, r, diff)
      <3> SUFFICES ASSUME c = "yes" PROVE Below(l, r, diff) OBVIOUS
      <3>1. pl \in Level /\ Below(pl, r, diff) BY <2>2, AskFacts
      <3> QED BY <2>3, <3>1 DEF Below, Same
    <2>5. IMaxNormal(l) /\ IMaxNormal(r) => c # "panic" BY <2>2, <2>3, AskFacts
    <2> QED BY <2>4, <2>5 DEF c
  <1>5. CASE ~A1 /\ ~A2 /\ ~A3 /\ ~A4 /\ A5
    <2>1. r[2] \in Level /\ r[3] \in Level /\ r = IMax(r[2], r[3]) BY <1>5, TagFacts
    <2>2. c = Ask(run, l, pr, diff) BY <1>5 DEF LeqCoreIMax
    <2>3. pr \in Level => Same(pr, r) /\ (IMaxNormal(r) => IMaxNormal(pr)) BY <1>5, <2>1, PushFacts
    <2> HIDE DEF c, pr
    <2>4. c = "yes" => Below(l, r, diff)
      <3> SUFFICES ASSUME c = "yes" PROVE Below(l, r, diff) OBVIOUS
      <3>1. pr \in Level /\ Below(l, pr, diff) BY <2>2, AskFacts
      <3> QED BY <2>3, <3>1 DEF Below, Same
    <2>5. IMaxNormal(l) /\ IMaxNormal(r) => c # "panic" BY <2>2, <2>3, AskFacts
    <2> QED BY <2>4, <2>5 DEF c
  <1>6. CASE ~A1 /\ ~A2 /\ ~A3 /\ ~A4 /\ ~A5
    <2>1. c = "panic" BY <1>6 DEF LeqCoreIMax
    <2>2. ASSUME NEW x \in Level, Is(x, "imax"), IMaxNormal(x), ~Is(x[3], "param"), ~IsAnyMax(x[3]) PROVE FALSE
      <3>1. x[3] \in Level /\ x = IMax(x[2], x[3]) BY <2>2, TagFacts
      <3>2. x[3][1] \notin {"zero", "succ"} BY <2>2, <3>1, NormalOf DEF NormalRules
      <3>3. x[3][1] \in {"zero", "param", "succ", "max", "imax"} BY <3>1, TagFacts
      <3> QED BY <2>2, <3>2, <3>3 DEF Is, IsAnyMax
    <2>3. ~(IMaxNormal(l) /\ IMaxNormal(r)) BY <1>6, <2>2
    <2> QED BY <2>1, <2>3
  <1> QED BY <1>1, <1>2, <1>3, <1>4, <1>5, <1>6

\* One call more: leq_core is right when the calls it makes are.
LEMMA CoreStep ==
    ASSUME NEW run, Sound(run), NEW l \in Level, NEW r \in Level, NEW diff \in Int
    PROVE  /\ LeqCore(run, l, r, diff) = "yes" => Below(l, r, diff)
           /\ IMaxNormal(l) /\ IMaxNormal(r) => LeqCore(run, l, r, diff) # "panic"
  <1> DEFINE c == LeqCore(run, l, r, diff)
             A1 == Is(l, "zero") /\ diff >= 0
             A2 == Is(r, "zero") /\ diff < 0
             A3 == Is(l, "param") /\ Is(r, "param")
             A4 == Is(l, "param") /\ Is(r, "zero")
             A5 == Is(l, "zero") /\ Is(r, "param")
             A6 == Is(l, "succ")
             A7 == Is(r, "succ")
             A8 == Is(l, "max")
             A9 == l[1] \in {"param", "zero"} /\ Is(r, "max")
             Fits == A1 \/ A2 \/ A3 \/ A4 \/ A5
  <1>1. \A rho \in AllAssignments : InterpRules(rho) /\ Interp(l, rho) \in Nat /\ Interp(r, rho) \in Nat
    BY InterpOf, InterpIsNat
  <1>2. CASE Fits
    <2>1. c # "panic" BY <1>2 DEF LeqCore, YesIf
    <2>2. CASE A1
      <3>1. l = Zero BY <2>2, TagFacts
      <3>2. \A rho \in AllAssignments : Interp(l, rho) = 0 BY <1>1, <3>1 DEF InterpRules
      <3>3. Below(l, r, diff) BY <1>1, <2>2, <3>2 DEF Below
      <3> QED BY <2>1, <3>3
    <2>3. CASE ~A1 /\ A2
      <3>1. c = "no" BY <2>3 DEF LeqCore
      <3> QED BY <3>1
    <2>4. CASE ~A1 /\ ~A2 /\ A3
      <3>1. c = YesIf(l = r /\ diff >= 0) BY <2>4 DEF LeqCore
      <3>2. c = "yes" => l = r /\ diff >= 0 BY <3>1 DEF YesIf
      <3>3. l = r /\ diff >= 0 => Below(l, r, diff) BY <1>1 DEF Below
      <3> QED BY <2>1, <3>2, <3>3
    <2>5. CASE ~A1 /\ ~A2 /\ ~A3 /\ A4
      <3>1. c = "no" BY <2>5 DEF LeqCore
      <3> QED BY <3>1
    <2>6. CASE ~A1 /\ ~A2 /\ ~A3 /\ ~A4 /\ A5
      <3>1. c = YesIf(diff >= 0) BY <2>6 DEF LeqCore
      <3>2. c # "yes" BY <2>6, <3>1 DEF YesIf
      <3> QED BY <2>1, <3>2
    <2> QED BY <1>2, <2>2, <2>3, <2>4, <2>5, <2>6
  <1>3. CASE ~Fits /\ A6
    <2>1. l[2] \in Level /\ l = Succ(l[2]) BY <1>3, TagFacts
    <2>2. c = Ask(run, l[2], r, diff - 1) BY <1>3 DEF LeqCore
    <2>3. PICK e \in Int : e = diff - 1 OBVIOUS
    <2> HIDE DEF c
    <2>4. ASSUME c = "yes", NEW rho \in AllAssignments PROVE Interp(l, rho) <= Interp(r, rho) + diff
      <3>1. Below(l[2], r, e) BY <2>2, <2>3, <2>4, AskFacts
      <3>2. Interp(l[2], rho) <= Interp(r, rho) + e BY <3>1 DEF Below
      <3>3. Interp(l, rho) = Interp(l[2], rho) + 1 BY <1>1, <2>1 DEF InterpRules
      <3>4. Interp(l[2], rho) \in Nat BY <2>1, InterpIsNat
      <3> QED BY <1>1, <2>3, <3>2, <3>3, <3>4
    <2>5. IMaxNormal(l) => IMaxNormal(l[2]) BY <2>1, NormalOf DEF NormalRules
    <2>6. IMaxNormal(l) /\ IMaxNormal(r) => c # "panic" BY <2>2, <2>3, <2>5, AskFacts
    <2> QED BY <2>4, <2>6 DEF c, Below
  <1>4. CASE ~Fits /\ ~A6 /\ A7
    <2>1. r[2] \in Level /\ r = Succ(r[2]) BY <1>4, TagFacts
    <2>2. c = Ask(run, l, r[2], diff + 1) BY <1>4 DEF LeqCore
    <2>3. PICK e \in Int : e = diff + 1 OBVIOUS
    <2> HIDE DEF c
    <2>4. ASSUME c = "yes", NEW rho \in AllAssignments PROVE Interp(l, rho) <= Interp(r, rho) + diff
      <3>1. Below(l, r[2], e) BY <2>2, <2>3, <2>4, AskFacts
      <3>2. Interp(l, rho) <= Interp(r[2], rho) + e BY <3>1 DEF Below
      <3>3. Interp(r, rho) = Interp(r[2], rho) + 1 BY <1>1, <2>1 DEF InterpRules
      <3>4. Interp(r[2], rho) \in Nat BY <2>1, InterpIsNat
      <3> QED BY <1>1, <2>3, <3>2, <3>3, <3>4
    <2>5. IMaxNormal(r) => IMaxNormal(r[2]) BY <2>1, NormalOf DEF NormalRules
    <2>6. IMaxNormal(l) /\ IMaxNormal(r) => c # "panic" BY <2>2, <2>3, <2>5, AskFacts
    <2> QED BY <2>4, <2>6 DEF c, Below
  <1>5. CASE ~Fits /\ ~A6 /\ ~A7 /\ A8
    <2>1. l[2] \in Level /\ l[3] \in Level /\ l = Max(l[2], l[3]) BY <1>5, TagFacts
    <2> DEFINE first == Ask(run, l[2], r, diff)
               second == Ask(run, l[3], r, diff)
    <2>2. c = IF first = "yes" THEN second ELSE first BY <1>5 DEF LeqCore
    <2>3. first = "yes" => Below(l[2], r, diff) BY AskFacts
    <2>4. second = "yes" => Below(l[3], r, diff) BY AskFacts
    <2>5. IMaxNormal(l) => IMaxNormal(l[2]) /\ IMaxNormal(l[3]) BY <2>1, NormalOf DEF NormalRules
    <2>6. IMaxNormal(l) /\ IMaxNormal(r) => first # "panic" /\ second # "panic" BY <2>5, AskFacts
    <2> HIDE DEF c, first, second
    <2>7. ASSUME c = "yes", NEW rho \in AllAssignments PROVE Interp(l, rho) <= Interp(r, rho) + diff
      <3>1. Below(l[2], r, diff) /\ Below(l[3], r, diff) BY <2>2, <2>3, <2>4, <2>7
      <3>2. Interp(l[2], rho) <= Interp(r, rho) + diff /\ Interp(l[3], rho) <= Interp(r, rho) + diff
        BY <3>1 DEF Below
      <3>3. Interp(l, rho) = Maximum(Interp(l[2], rho), Interp(l[3], rho)) BY <1>1, <2>1 DEF InterpRules
      <3> QED BY <3>2, <3>3 DEF Maximum
    <2>8. IMaxNormal(l) /\ IMaxNormal(r) => c # "panic" BY <2>2, <2>6
    <2> QED BY <2>7, <2>8 DEF c, Below
  <1>6. CASE ~Fits /\ ~A6 /\ ~A7 /\ ~A8 /\ A9
    <2>1. r[2] \in Level /\ r[3] \in Level /\ r = Max(r[2], r[3]) BY <1>6, TagFacts
    <2> DEFINE first == Ask(run, l, r[2], diff)
               second == Ask(run, l, r[3], diff)
    <2>2. c = IF first = "no" THEN second ELSE first BY <1>6 DEF LeqCore
    <2>3. first = "yes" => Below(l, r[2], diff) BY AskFacts
    <2>4. second = "yes" => Below(l, r[3], diff) BY AskFacts
    <2>5. IMaxNormal(r) => IMaxNormal(r[2]) /\ IMaxNormal(r[3]) BY <2>1, NormalOf DEF NormalRules
    <2>6. IMaxNormal(l) /\ IMaxNormal(r) => first # "panic" /\ second # "panic" BY <2>5, AskFacts
    <2> HIDE DEF c, first, second
    <2>7. ASSUME c = "yes", NEW rho \in AllAssignments PROVE Interp(l, rho) <= Interp(r, rho) + diff
      <3>1. Below(l, r[2], diff) \/ Below(l, r[3], diff) BY <2>2, <2>3, <2>4, <2>7
      <3>2. Interp(l, rho) <= Interp(r[2], rho) + diff \/ Interp(l, rho) <= Interp(r[3], rho) + diff
        BY <3>1 DEF Below
      <3>3. Interp(r, rho) = Maximum(Interp(r[2], rho), Interp(r[3], rho)) BY <1>1, <2>1 DEF InterpRules
      <3>4. Interp(r[2], rho) \in Nat /\ Interp(r[3], rho) \in Nat BY <2>1, InterpIsNat
      <3> QED BY <1>1, <3>2, <3>3, <3>4 DEF Maximum
    <2>8. IMaxNormal(l) /\ IMaxNormal(r) => c # "panic" BY <2>2, <2>6
    <2> QED BY <2>7, <2>8 DEF c, Below
  <1>7. CASE ~Fits /\ ~A6 /\ ~A7 /\ ~A8 /\ ~A9
    <2>1. c = LeqCoreIMax(run, l, r, diff) BY <1>7 DEF LeqCore
    <2>2. Is(l, "imax") \/ Is(r, "imax")
      <3>1. l[1] \in {"zero", "param", "succ", "max", "imax"} BY TagFacts
      <3>2. r[1] \in {"zero", "param", "succ", "max", "imax"} BY TagFacts
      <3> QED BY <1>7, <3>1, <3>2 DEF Is
    <2> QED BY <2>1, <2>2, IMaxStep
  <1> QED BY <1>2, <1>3, <1>4, <1>5, <1>6, <1>7
-----------------------------------------------------------------------------
(* Whatever the bound on calls.                                            *)

NoRun(s) == NoAnswers
NextRun(s, n, run) == Answers(run)

Running == INSTANCE Recursion WITH Base <- NoRun, Step <- NextRun

\* Each call deeper answers from the answers before.
LEMMA RunsUnfold == Runs[0] = NoAnswers /\ \A n \in Nat : Runs[n + 1] = Answers(Runs[n])
  <1> DEFINE F(f) == [n \in Nat |-> IF n = 0 THEN NoAnswers ELSE Answers(f[n - 1])]
  <1>1. \E f : f = [n \in Nat |-> IF n = 0 THEN NoRun(0) ELSE NextRun(0, n, f[n - 1])] BY Running!HasSolution
  <1>2. \E f : f = F(f) BY <1>1 DEF NoRun, NextRun
  <1>3. Runs = CHOOSE f : f = F(f) BY DEF Runs
  <1>4. Runs = F(Runs) BY <1>2, <1>3
  <1>5. F(Runs)[0] = NoAnswers OBVIOUS
  <1>6. ASSUME NEW n \in Nat PROVE F(Runs)[n + 1] = Answers(Runs[n])
    <2>1. n + 1 \in Nat /\ n + 1 # 0 /\ (n + 1) - 1 = n OBVIOUS
    <2> QED BY <2>1
  <1> HIDE DEF F
  <1> QED BY <1>4, <1>5, <1>6

\* One call more keeps the answers sound.
LEMMA OneCallMore ==
    ASSUME NEW run, Sound(run)
    PROVE  Sound(Answers(run))
  <1>1. \A l, r \in Level : \A diff \in Int : Answers(run).core[<<l, r, diff>>] = LeqCore(run, l, r, diff)
    BY DEF Answers, Questions
  <1>2. \A l, r \in Level : \A diff \in Int :
           /\ LeqCore(run, l, r, diff) = "yes" => Below(l, r, diff)
           /\ IMaxNormal(l) /\ IMaxNormal(r) => LeqCore(run, l, r, diff) # "panic"
    BY CoreStep
  <1>3. \A l \in Level : Simplified(l, Answers(run).simplify[l]) BY SimplifyStage
  <1> QED BY <1>1, <1>2, <1>3 DEF Sound, CoreSound, CoreQuiet, SimplifySound

\* The answers n calls deep are sound: by induction on n.
LEMMA RunsAreSound == \A n \in Nat : Sound(Runs[n])
  <1> DEFINE S == {n \in Nat : Sound(Runs[n])}
  <1>1. Sound(NoAnswers)
    <2>1. \A l \in Level : NoAnswers.simplify[l] = TooDeep BY DEF NoAnswers
    <2>2. \A l, r \in Level : \A diff \in Int : NoAnswers.core[<<l, r, diff>>] = "deep"
      BY DEF NoAnswers, Questions
    <2> QED BY <2>1, <2>2 DEF Sound, CoreSound, CoreQuiet, SimplifySound
  <1>2. 0 \in S BY <1>1, RunsUnfold
  <1>3. \A n \in S : n + 1 \in S BY RunsUnfold, OneCallMore
  <1> HIDE DEF S
  <1>4. Nat \subseteq S BY <1>2, <1>3, Running!Induction
  <1> QED BY <1>4 DEF S

\* What the whole of leq and simplify answer.
LEMMA FullRunFacts ==
    /\ Sound(FullRun)
    /\ \A l \in Level : Simplified(l, Simplify(l))
  <1>1. Sound(FullRun) BY DepthsAssumption, RunsAreSound DEF FullRun
  <1>2. PICK n \in Nat : CallDepth = n + 1
    <2>1. CallDepth - 1 \in Nat /\ CallDepth = (CallDepth - 1) + 1 BY DepthsAssumption
    <2> QED BY <2>1
  <1>3. FullRun = Answers(Runs[n]) /\ Sound(Runs[n]) BY <1>2, RunsUnfold, RunsAreSound DEF FullRun
  <1>4. \A l \in Level : Simplified(l, FullRun.simplify[l]) BY <1>3, SimplifyStage
  <1> QED BY <1>1, <1>4 DEF Simplify, SimplifyBy
-----------------------------------------------------------------------------
(* is_never_zero, and the parameters that substitution leaves.             *)

\* is_never_zero on each node.
NeverRules ==
    /\ ~IsNeverZero(Zero) /\ \A p \in STRING : ~IsNeverZero(Param(p))
    /\ \A x : Succ(x) \in Level => IsNeverZero(Succ(x))
    /\ \A x, y : Max(x, y) \in Level => (IsNeverZero(Max(x, y)) <=> IsNeverZero(x) \/ IsNeverZero(y))
    /\ \A x, y : IMax(x, y) \in Level => (IsNeverZero(IMax(x, y)) <=> IsNeverZero(y))

\* is_never_zero follows its rules.
LEMMA NeverOf == NeverRules
  <1> DEFINE I == [x \in Level |-> IsNeverZero(x)]
  <1>1. \A l \in Level : IsNeverZero(l) = IsNeverZeroArm(l, I) BY NeverUnfolds
  <1>2. \A l \in Level : I[l] = IsNeverZero(l) OBVIOUS
  <1> HIDE DEF I
  <1>3. ~IsNeverZero(Zero) BY <1>1, LevelFacts DEF IsNeverZeroArm, Is, Zero
  <1>4. \A p \in STRING : ~IsNeverZero(Param(p)) BY <1>1, LevelFacts DEF IsNeverZeroArm, Is, Param
  <1>5. \A x : Succ(x) \in Level => IsNeverZero(Succ(x)) BY <1>1, LevelFacts DEF IsNeverZeroArm, Is, Succ
  <1>6. \A x, y : Max(x, y) \in Level => (IsNeverZero(Max(x, y)) <=> IsNeverZero(x) \/ IsNeverZero(y))
    BY <1>1, <1>2, LevelFacts DEF IsNeverZeroArm, Is, Max
  <1>7. \A x, y : IMax(x, y) \in Level => (IsNeverZero(IMax(x, y)) <=> IsNeverZero(y))
    BY <1>1, <1>2, LevelFacts DEF IsNeverZeroArm, Is, IMax
  <1> QED BY <1>3, <1>4, <1>5, <1>6, <1>7 DEF NeverRules

AllZero == [p \in STRING |-> 0]

\* What is never zero is so for all assignments; what is not, is zero where all
\* parameters are.
LEMMA NeverZeroFacts ==
    \A l \in Level : /\ IsNeverZero(l) => \A rho \in AllAssignments : Interp(l, rho) >= 1
                     /\ ~IsNeverZero(l) => Interp(l, AllZero) = 0
  <1> DEFINE P(l) == /\ IsNeverZero(l) => \A rho \in AllAssignments : Interp(l, rho) >= 1
                     /\ ~IsNeverZero(l) => Interp(l, AllZero) = 0
             S == {l \in Level : P(l)}
  <1>1. \A rho \in AllAssignments : InterpRules(rho) /\ \A l \in Level : Interp(l, rho) \in Nat
    BY InterpOf, InterpIsNat
  <1>2. NeverRules /\ AllZero \in AllAssignments /\ \A p \in STRING : AllZero[p] = 0
    BY NeverOf DEF AllZero, AllAssignments
  <1>3. Zero \in S BY <1>1, <1>2, LevelFacts DEF InterpRules, NeverRules
  <1>4. \A p \in STRING : Param(p) \in S BY <1>1, <1>2, LevelFacts DEF InterpRules, NeverRules
  <1>5. ASSUME NEW x \in S, Succ(x) \in Level PROVE Succ(x) \in S
    <2>1. IsNeverZero(Succ(x)) BY <1>2, <1>5 DEF NeverRules
    <2>2. ASSUME NEW rho \in AllAssignments PROVE Interp(Succ(x), rho) >= 1
      <3>1. Interp(Succ(x), rho) = Interp(x, rho) + 1 /\ Interp(x, rho) \in Nat
        BY <1>1, <1>5 DEF InterpRules
      <3> QED BY <3>1
    <2> QED BY <1>5, <2>1, <2>2
  <1>6. ASSUME NEW x \in S, NEW y \in S, Max(x, y) \in Level PROVE Max(x, y) \in S
    <2>1. IsNeverZero(Max(x, y)) <=> IsNeverZero(x) \/ IsNeverZero(y) BY <1>2, <1>6 DEF NeverRules
    <2>2. \A rho \in AllAssignments : /\ Interp(Max(x, y), rho) = Maximum(Interp(x, rho), Interp(y, rho))
                                      /\ Interp(x, rho) \in Nat /\ Interp(y, rho) \in Nat
      BY <1>1, <1>6 DEF InterpRules
    <2>3. IsNeverZero(Max(x, y)) => \A rho \in AllAssignments : Interp(Max(x, y), rho) >= 1
      BY <1>6, <2>1, <2>2 DEF Maximum
    <2>4. ~IsNeverZero(Max(x, y)) => Interp(Max(x, y), AllZero) = 0
      BY <1>2, <1>6, <2>1, <2>2 DEF Maximum
    <2> QED BY <1>6, <2>3, <2>4
  <1>7. ASSUME NEW x \in S, NEW y \in S, IMax(x, y) \in Level PROVE IMax(x, y) \in S
    <2>1. IsNeverZero(IMax(x, y)) <=> IsNeverZero(y) BY <1>2, <1>7 DEF NeverRules
    <2>2. \A rho \in AllAssignments :
             /\ Interp(IMax(x, y), rho) = IF Interp(y, rho) = 0 THEN 0 ELSE Maximum(Interp(x, rho), Interp(y, rho))
             /\ Interp(x, rho) \in Nat /\ Interp(y, rho) \in Nat
      BY <1>1, <1>7 DEF InterpRules
    <2>3. IsNeverZero(IMax(x, y)) => \A rho \in AllAssignments : Interp(IMax(x, y), rho) >= 1
      BY <1>7, <2>1, <2>2 DEF Maximum
    <2>4. ~IsNeverZero(IMax(x, y)) => Interp(IMax(x, y), AllZero) = 0 BY <1>2, <1>7, <2>1, <2>2
    <2> QED BY <1>7, <2>3, <2>4
  <1>8. Level \subseteq S
    <2>1. \A x \in S : Succ(x) \in Level => Succ(x) \in S BY <1>5
    <2>2. \A x, y \in S : Max(x, y) \in Level => Max(x, y) \in S BY <1>6
    <2>3. \A x, y \in S : IMax(x, y) \in Level => IMax(x, y) \in S BY <1>7
    <2> HIDE DEF S
    <2> QED BY <1>3, <1>4, <2>1, <2>2, <2>3, LevelCases
  <1> QED BY <1>8

\* all_uparams_defined on each node.
DefinedRules(names) ==
    /\ AllUParamsDefined(Zero, names)
    /\ \A p \in STRING : AllUParamsDefined(Param(p), names) <=> p \in names
    /\ \A x : Succ(x) \in Level => (AllUParamsDefined(Succ(x), names) <=> AllUParamsDefined(x, names))
    /\ \A x, y : Max(x, y) \in Level =>
          (AllUParamsDefined(Max(x, y), names) <=> AllUParamsDefined(x, names) /\ AllUParamsDefined(y, names))
    /\ \A x, y : IMax(x, y) \in Level =>
          (AllUParamsDefined(IMax(x, y), names) <=> AllUParamsDefined(x, names) /\ AllUParamsDefined(y, names))

\* all_uparams_defined follows its rules.
LEMMA DefinedOf == \A names : DefinedRules(names)
  <1> SUFFICES ASSUME NEW names PROVE DefinedRules(names) OBVIOUS
  <1> DEFINE Def(l) == AllUParamsDefined(l, names)
             I == [x \in Level |-> Def(x)]
  <1>1. \A l \in Level : Def(l) = AllUParamsArm(names, l, I) BY DefinedUnfolds
  <1>2. \A l \in Level : I[l] = Def(l) OBVIOUS
  <1> HIDE DEF I, Def
  <1>3. Def(Zero) BY <1>1, LevelFacts DEF AllUParamsArm, Is, IsAnyMax, Zero
  <1>4. \A p \in STRING : Def(Param(p)) <=> p \in names
    BY <1>1, LevelFacts DEF AllUParamsArm, Is, IsAnyMax, Param
  <1>5. \A x : Succ(x) \in Level => (Def(Succ(x)) <=> Def(x))
    BY <1>1, <1>2, LevelFacts DEF AllUParamsArm, Is, IsAnyMax, Succ
  <1>6. \A x, y : Max(x, y) \in Level => (Def(Max(x, y)) <=> Def(x) /\ Def(y))
    BY <1>1, <1>2, LevelFacts DEF AllUParamsArm, Is, IsAnyMax, Max
  <1>7. \A x, y : IMax(x, y) \in Level => (Def(IMax(x, y)) <=> Def(x) /\ Def(y))
    BY <1>1, <1>2, LevelFacts DEF AllUParamsArm, Is, IsAnyMax, IMax
  <1> QED BY <1>3, <1>4, <1>5, <1>6, <1>7 DEF DefinedRules, Def

\* A level whose parameters are among names has them defined.
LEMMA NamesDefined ==
    ASSUME NEW names
    PROVE  \A l \in Level : ParamNames(l) \subseteq names => AllUParamsDefined(l, names)
  <1> DEFINE P(l) == ParamNames(l) \subseteq names => AllUParamsDefined(l, names)
             S == {l \in Level : P(l)}
  <1>1. DefinedRules(names) BY DefinedOf
  <1>2. Zero \in S /\ \A p \in STRING : Param(p) \in S
    <2>1. Zero \in S BY <1>1, LevelFacts DEF DefinedRules
    <2>2. ASSUME NEW p \in STRING PROVE Param(p) \in S
      <3>1. ParamNames(Param(p)) = {p} /\ Param(p) \in Level BY LevelFacts, NamesOf
      <3>2. AllUParamsDefined(Param(p), names) <=> p \in names BY <1>1 DEF DefinedRules
      <3> QED BY <3>1, <3>2
    <2> QED BY <2>1, <2>2
  <1>3. \A x \in S : Succ(x) \in Level => Succ(x) \in S BY <1>1, NamesOf DEF DefinedRules
  <1>4. \A x, y \in S : Max(x, y) \in Level => Max(x, y) \in S BY <1>1, NamesOf DEF DefinedRules
  <1>5. \A x, y \in S : IMax(x, y) \in Level => IMax(x, y) \in S BY <1>1, NamesOf DEF DefinedRules
  <1>6. Level \subseteq S
    <2> HIDE DEF S
    <2> QED BY <1>2, <1>3, <1>4, <1>5, LevelCases
  <1> QED BY <1>6

\* What substitution leaves are the parameters of what it puts in.
LEMMA SubstDefined ==
    ASSUME NEW s, NEW names
    PROVE  \A l \in Level :
              SubstLevel(l, s) \in Level /\ (\A p \in ParamNames(l) : ParamNames(SubstParam(p, s)) \subseteq names)
              => AllUParamsDefined(SubstLevel(l, s), names)
  <1> DEFINE P(l) ==
                SubstLevel(l, s) \in Level /\ (\A p \in ParamNames(l) : ParamNames(SubstParam(p, s)) \subseteq names)
                => AllUParamsDefined(SubstLevel(l, s), names)
             S == {l \in Level : P(l)}
  <1>1. DefinedRules(names) /\ SubstRules(s) BY DefinedOf, SubstOf
  <1>2. Zero \in S BY <1>1, LevelFacts DEF DefinedRules, SubstRules
  <1>3. \A p \in STRING : Param(p) \in S
    <2> SUFFICES ASSUME NEW p \in STRING, SubstLevel(Param(p), s) \in Level,
                        \A q \in ParamNames(Param(p)) : ParamNames(SubstParam(q, s)) \subseteq names
                 PROVE  AllUParamsDefined(SubstLevel(Param(p), s), names)
      BY LevelFacts
    <2>1. SubstLevel(Param(p), s) = SubstParam(p, s) BY <1>1 DEF SubstRules
    <2>2. ParamNames(SubstParam(p, s)) \subseteq names BY NamesOf
    <2> QED BY <2>1, <2>2, NamesDefined
  <1>4. ASSUME NEW x \in S, Succ(x) \in Level PROVE Succ(x) \in S
    <2>1. ParamNames(Succ(x)) = ParamNames(x) BY <1>4, NamesOf
    <2>2. SubstLevel(Succ(x), s) = Succ(SubstLevel(x, s)) BY <1>1, <1>4 DEF SubstRules
    <2>3. Succ(SubstLevel(x, s)) \in Level => SubstLevel(x, s) \in Level BY LevelFacts
    <2> QED BY <1>1, <1>4, <2>1, <2>2, <2>3 DEF DefinedRules
  <1>5. ASSUME NEW x \in S, NEW y \in S, Max(x, y) \in Level PROVE Max(x, y) \in S
    <2>1. ParamNames(Max(x, y)) = ParamNames(x) \cup ParamNames(y) BY <1>5, NamesOf
    <2>2. SubstLevel(Max(x, y), s) = Max(SubstLevel(x, s), SubstLevel(y, s)) BY <1>1, <1>5 DEF SubstRules
    <2>3. Max(SubstLevel(x, s), SubstLevel(y, s)) \in Level => SubstLevel(x, s) \in Level /\ SubstLevel(y, s) \in Level
      BY LevelFacts
    <2> QED BY <1>1, <1>5, <2>1, <2>2, <2>3 DEF DefinedRules
  <1>6. ASSUME NEW x \in S, NEW y \in S, IMax(x, y) \in Level PROVE IMax(x, y) \in S
    <2>1. ParamNames(IMax(x, y)) = ParamNames(x) \cup ParamNames(y) BY <1>6, NamesOf
    <2>2. SubstLevel(IMax(x, y), s) = IMax(SubstLevel(x, s), SubstLevel(y, s)) BY <1>1, <1>6 DEF SubstRules
    <2>3. IMax(SubstLevel(x, s), SubstLevel(y, s)) \in Level => SubstLevel(x, s) \in Level /\ SubstLevel(y, s) \in Level
      BY LevelFacts
    <2> QED BY <1>1, <1>6, <2>1, <2>2, <2>3 DEF DefinedRules
  <1>7. Level \subseteq S
    <2>1. \A x \in S : Succ(x) \in Level => Succ(x) \in S BY <1>4
    <2>2. \A x, y \in S : Max(x, y) \in Level => Max(x, y) \in S BY <1>5
    <2>3. \A x, y \in S : IMax(x, y) \in Level => IMax(x, y) \in S BY <1>6
    <2> HIDE DEF S
    <2> QED BY <1>2, <1>3, <2>1, <2>2, <2>3, LevelCases
  <1> QED BY <1>7
-----------------------------------------------------------------------------
(* From all assignments of naturals to those of the values.                *)

\* What holds under all assignments holds under those to the levels' parameters.
LEMMA BelowIsLeqSem ==
    ASSUME NEW l \in Level, NEW r \in Level
    PROVE  /\ Below(l, r, 0) => LeqSem(l, r)
           /\ Same(l, r) => EqSem(l, r)
  <1> DEFINE N == ParamNames(l) \cup ParamNames(r)
             Over(rho) == [p \in STRING |-> IF p \in N THEN rho[p] ELSE 0]
  <1>1. ASSUME NEW rho \in Assignments(N)
        PROVE  /\ Over(rho) \in AllAssignments
               /\ Interp(l, rho) = Interp(l, Over(rho)) /\ Interp(r, rho) = Interp(r, Over(rho))
    <2>1. N \subseteq STRING BY NamesMatter
    <2>2. \A p \in N : rho[p] \in Nat BY InputsAssumption DEF Assignments
    <2>3. \A p \in N : rho[p] = Over(rho)[p] BY <2>1
    <2>4. Over(rho) \in AllAssignments BY <2>2 DEF AllAssignments
    <2> HIDE DEF Over
    <2> QED BY <2>3, <2>4, NamesMatter
  <1>2. \A rho \in AllAssignments : Interp(r, rho) \in Nat BY InterpIsNat
  <1> HIDE DEF Over
  <1>3. ASSUME Below(l, r, 0), NEW rho \in Assignments(N) PROVE Interp(l, rho) <= Interp(r, rho)
    <2>1. Interp(l, Over(rho)) <= Interp(r, Over(rho)) + 0 BY <1>1, <1>3 DEF Below
    <2>2. Over(rho) \in AllAssignments /\ Interp(l, Over(rho)) = Interp(l, rho) /\ Interp(r, Over(rho)) = Interp(r, rho)
      BY <1>1, <1>3
    <2>3. Interp(r, rho) \in Nat BY <1>2, <2>2
    <2> QED BY <2>1, <2>2, <2>3
  <1>4. ASSUME Same(l, r), NEW rho \in Assignments(N) PROVE Interp(l, rho) = Interp(r, rho)
    BY <1>1, <1>4 DEF Same
  <1> QED BY <1>3, <1>4 DEF LeqSem, EqSem

\* One is below what is never zero, and below nothing else.
LEMMA OneBelow ==
    ASSUME NEW l \in Level
    PROVE  IsNeverZero(l) <=> LeqSem(One, l)
  <1>1. One \in Level /\ One = Succ(Zero) /\ ParamNames(One) = {} BY LevelFacts, NamesOf DEF One
  <1>2. \A rho : Interp(One, rho) = 1
    <2> SUFFICES ASSUME NEW rho PROVE Interp(One, rho) = 1 OBVIOUS
    <2>1. InterpRules(rho) BY InterpOf
    <2>2. Interp(Zero, rho) = 0 /\ Interp(One, rho) = Interp(Zero, rho) + 1 BY <1>1, <2>1 DEF InterpRules
    <2> QED BY <2>2
  <1>3. ASSUME IsNeverZero(l) PROVE LeqSem(One, l)
    <2>1. \A rho \in AllAssignments : Interp(l, rho) >= 1 /\ Interp(l, rho) \in Nat
      BY <1>3, NeverZeroFacts, InterpIsNat
    <2>2. Below(One, l, 0) BY <1>2, <2>1 DEF Below
    <2> QED BY <1>1, <2>2, BelowIsLeqSem
  <1>4. ASSUME LeqSem(One, l) PROVE IsNeverZero(l)
    <2> DEFINE N == ParamNames(One) \cup ParamNames(l)
               rho == [p \in N |-> 0]
    <2>1. rho \in Assignments(N) BY InputsAssumption DEF Assignments
    <2>2. 1 <= Interp(l, rho) BY <1>2, <1>4, <2>1 DEF LeqSem
    <2>3. \A p \in ParamNames(l) : rho[p] = AllZero[p]
      <3>1. ParamNames(l) \subseteq STRING BY NamesMatter
      <3> QED BY <3>1 DEF AllZero
    <2> HIDE DEF rho
    <2>4. Interp(l, rho) = Interp(l, AllZero) BY <2>3, NamesMatter
    <2>5. Interp(l, AllZero) # 0 BY <2>2, <2>4
    <2> QED BY <2>5, NeverZeroFacts
  <1> QED BY <1>3, <1>4
-----------------------------------------------------------------------------
(* The calls.                                                              *)

\* What a call has returned is the operation's value on the input.
Answered ==
    \/ result = [op |-> "leq", value |-> Leq(lhs, rhs)]
    \/ result = [op |-> "eq_antisymm", value |-> EqAntisymm(lhs, rhs)]
    \/ result = [op |-> "is_zero", value |-> IsZero(lhs)]
    \/ result = [op |-> "is_nonzero", value |-> IsNonzero(lhs)]
    \/ result = [op |-> "is_never_zero", value |-> IsNeverZero(lhs)]
    \/ result = [op |-> "simplify", value |-> Simplify(lhs)]
    \/ input.op = "subst_level" /\ result = [op |-> "subst_level", value |-> SubstLevel(lhs, subst)]

CallInv == input \in Inputs /\ (result = [op |-> "none"] \/ Answered)

\* The inductive invariant of the calls.
LEMMA CallInvHolds == Spec => []CallInv
  <1>1. Init => CallInv BY DEF Init, CallInv
  <1>2. CallInv /\ [Next]_vars => CallInv'
    <2> SUFFICES ASSUME CallInv, [Next]_vars PROVE CallInv' OBVIOUS
    <2>1. CASE Next
      <3>1. CASE CallLeq
        <4>1. input' = input /\ result' = [op |-> "leq", value |-> Leq(lhs, rhs)]
          BY <3>1 DEF CallLeq, Call, lhs, rhs
        <4> QED BY <4>1 DEF CallInv, Answered, lhs, rhs
      <3>2. CASE CallEqAntisymm
        <4>1. input' = input /\ result' = [op |-> "eq_antisymm", value |-> EqAntisymm(lhs, rhs)]
          BY <3>2 DEF CallEqAntisymm, Call, lhs, rhs
        <4> QED BY <4>1 DEF CallInv, Answered, lhs, rhs
      <3>3. CASE CallIsZero
        <4>1. input' = input /\ result' = [op |-> "is_zero", value |-> IsZero(lhs)]
          BY <3>3 DEF CallIsZero, Call, lhs
        <4> QED BY <4>1 DEF CallInv, Answered, lhs
      <3>4. CASE CallIsNonzero
        <4>1. input' = input /\ result' = [op |-> "is_nonzero", value |-> IsNonzero(lhs)]
          BY <3>4 DEF CallIsNonzero, Call, lhs
        <4> QED BY <4>1 DEF CallInv, Answered, lhs
      <3>5. CASE CallIsNeverZero
        <4>1. input' = input /\ result' = [op |-> "is_never_zero", value |-> IsNeverZero(lhs)]
          BY <3>5 DEF CallIsNeverZero, Call, lhs
        <4> QED BY <4>1 DEF CallInv, Answered, lhs
      <3>6. CASE CallSimplify
        <4>1. input' = input /\ result' = [op |-> "simplify", value |-> Simplify(lhs)]
          BY <3>6 DEF CallSimplify, Call, lhs
        <4> QED BY <4>1 DEF CallInv, Answered, lhs
      <3>7. CASE CallSubstLevel
        <4>1. /\ input' = input /\ input.op = "subst_level"
              /\ result' = [op |-> "subst_level", value |-> SubstLevel(lhs, subst)]
          BY <3>7 DEF CallSubstLevel, Call, lhs, subst
        <4> QED BY <4>1 DEF CallInv, Answered, lhs, subst
      <3>8. CASE Returned BY <3>8 DEF Returned, vars, CallInv, Answered, lhs, rhs, subst
      <3> QED BY <2>1, <3>1, <3>2, <3>3, <3>4, <3>5, <3>6, <3>7, <3>8 DEF Next
    <2>2. CASE UNCHANGED vars BY <2>2 DEF vars, CallInv, Answered, lhs, rhs, subst
    <2> QED BY <2>1, <2>2
  <1> QED BY <1>1, <1>2, PTL DEF Spec

\* What an input is.
LEMMA InputFacts ==
    ASSUME CallInv
    PROVE  /\ lhs \in Level /\ rhs \in Level
           /\ input.op = "subst_level" => SubstLevel(lhs, subst) \in Level
  BY InputsAssumption DEF CallInv, lhs, rhs, subst

\* simplify keeps what every level denotes, to any depth, and makes it what
\* leq_core has an arm for.
THEOREM SimplifyExactHolds == Spec => []SimplifyExact
  <1>1. CallInv => SimplifyExact
    <2> SUFFICES ASSUME CallInv, result.op = "simplify"
                 PROVE  EqSem(lhs, result.value) /\ IMaxNormal(result.value)
      BY DEF SimplifyExact
    <2>1. result.value = Simplify(lhs) BY DEF CallInv, Answered
    <2>2. Simplified(lhs, Simplify(lhs)) BY InputFacts, FullRunFacts
    <2>3. lhs \in Level /\ Simplify(lhs) \in Level /\ Same(lhs, Simplify(lhs)) /\ IMaxNormal(Simplify(lhs))
      BY <2>2, InputFacts DEF Simplified, Same
    <2>4. EqSem(lhs, Simplify(lhs)) BY <2>3, BelowIsLeqSem
    <2> QED BY <2>1, <2>3, <2>4
  <1> QED BY <1>1, CallInvHolds, PTL

\* subst_level replaces all parameters at once, and leaves none it replaces.
THEOREM SubstExactHolds == Spec => []SubstExact
  <1> DEFINE replaced == {n \in ParamNames(lhs) : Matches(n, subst) # {}}
             put == UNION {ParamNames(subst.vs[FirstMatch(n, subst)]) : n \in replaced}
             kept == ParamNames(lhs) \ replaced
             After(rho) == [n \in ParamNames(lhs) |->
                               IF n \in kept THEN rho[n] ELSE Interp(subst.vs[FirstMatch(n, subst)], rho)]
  <1>1. ASSUME CallInv, result.op = "subst_level"
        PROVE  /\ \A rho \in Assignments(put \cup kept) : Interp(result.value, rho) = Interp(lhs, After(rho))
               /\ AllUParamsDefined(result.value, put \cup kept)
    <2>1. result.value = SubstLevel(lhs, subst) /\ input.op = "subst_level" BY <1>1 DEF CallInv, Answered
    <2>2. lhs \in Level /\ SubstLevel(lhs, subst) \in Level BY <1>1, <2>1, InputFacts
    <2>3. ParamNames(lhs) \subseteq STRING BY <2>2, NamesMatter
    <2>4. ASSUME NEW p \in kept PROVE SubstParam(p, subst) = Param(p)
      BY DEF SubstParam
    <2>5. ASSUME NEW p \in replaced PROVE SubstParam(p, subst) = subst.vs[FirstMatch(p, subst)]
      BY DEF SubstParam
    <2>6. ASSUME NEW rho, NEW p \in ParamNames(lhs) PROVE After(rho)[p] = Interp(SubstParam(p, subst), rho)
      <3>1. CASE p \in kept
        <4>1. After(rho)[p] = rho[p] BY <3>1
        <4>2. InterpRules(rho) BY InterpOf
        <4>3. Interp(Param(p), rho) = rho[p] BY <2>3, <4>2 DEF InterpRules
        <4> QED BY <2>4, <3>1, <4>1, <4>3
      <3>2. CASE p \notin kept
        <4>1. After(rho)[p] = Interp(subst.vs[FirstMatch(p, subst)], rho) BY <3>2
        <4> QED BY <2>5, <3>2, <4>1
      <3> QED BY <3>1, <3>2
    <2>7. ASSUME NEW rho PROVE Interp(SubstLevel(lhs, subst), rho) = Interp(lhs, After(rho))
      <3> HIDE DEF After
      <3> QED BY <2>2, <2>6, SubstMeaning
    <2>8. ASSUME NEW p \in ParamNames(lhs) PROVE ParamNames(SubstParam(p, subst)) \subseteq put \cup kept
      <3>1. CASE p \in kept
        <4>1. ParamNames(Param(p)) = {p} BY <2>3, NamesOf
        <4> QED BY <2>4, <3>1, <4>1
      <3>2. CASE p \in replaced BY <2>5, <3>2
      <3> QED BY <3>1, <3>2
    <2>9. AllUParamsDefined(SubstLevel(lhs, subst), put \cup kept)
      <3> HIDE DEF put, kept
      <3> QED BY <2>2, <2>8, SubstDefined
    <2> QED BY <2>1, <2>7, <2>9
  <1>2. CallInv => SubstExact BY <1>1 DEF SubstExact
  <1> QED BY <1>2, CallInvHolds, PTL

\* A "yes" of leq and of the tests made of it is right, however deep the levels,
\* and the last arm of leq_core is never taken.
THEOREM LeqSoundHolds == Spec => []LeqSound
  <1>1. ASSUME NEW l \in Level, NEW r \in Level
        PROVE  /\ Leq(l, r) = "yes" => LeqSem(l, r)
               /\ Leq(l, r) # "panic"
    BY FullRunFacts, LeqByFacts, BelowIsLeqSem DEF Leq
  <1>2. ASSUME NEW l \in Level, NEW r \in Level
        PROVE  /\ EqAntisymm(l, r) = "yes" => EqSem(l, r)
               /\ EqAntisymm(l, r) # "panic"
    <2>1. EqAntisymm(l, r) = "yes" => Leq(l, r) = "yes" /\ Leq(r, l) = "yes" BY DEF EqAntisymm
    <2>2. ASSUME Leq(l, r) = "yes", Leq(r, l) = "yes" PROVE Same(l, r)
      <3>1. Below(l, r, 0) /\ Below(r, l, 0) BY <2>2, FullRunFacts, LeqByFacts DEF Leq
      <3> SUFFICES ASSUME NEW rho \in AllAssignments PROVE Interp(l, rho) = Interp(r, rho) BY DEF Same
      <3>2. Interp(l, rho) <= Interp(r, rho) + 0 /\ Interp(r, rho) <= Interp(l, rho) + 0 BY <3>1 DEF Below
      <3>3. Interp(l, rho) \in Nat /\ Interp(r, rho) \in Nat BY InterpIsNat
      <3> QED BY <3>2, <3>3
    <2>3. EqAntisymm(l, r) # "panic" BY <1>1 DEF EqAntisymm
    <2> QED BY <2>1, <2>2, <2>3, BelowIsLeqSem
  <1>3. ASSUME NEW l \in Level
        PROVE  /\ IsZero(l) = "yes" => EqSem(l, Zero)
               /\ IsZero(l) # "panic"
    <2>1. IsZero(l) # "panic" BY FullRunFacts, LeqByFacts DEF IsZero, IsZeroBy
    <2>2. ASSUME IsZero(l) = "yes" PROVE Same(l, Zero)
      <3>1. Below(l, Zero, 0) BY <2>2, FullRunFacts, LeqByFacts DEF IsZero, IsZeroBy
      <3> SUFFICES ASSUME NEW rho \in AllAssignments PROVE Interp(l, rho) = Interp(Zero, rho) BY DEF Same
      <3>2. InterpRules(rho) BY InterpOf
      <3>3. Interp(l, rho) <= Interp(Zero, rho) + 0 /\ Interp(Zero, rho) = 0 BY <3>1, <3>2 DEF Below, InterpRules
      <3>4. Interp(l, rho) \in Nat BY InterpIsNat
      <3> QED BY <3>3, <3>4
    <2> QED BY <2>1, <2>2, BelowIsLeqSem, LevelFacts
  <1>4. ASSUME CallInv PROVE LeqSound
    <2>1. lhs \in Level /\ rhs \in Level /\ One \in Level BY <1>4, InputFacts, LevelFacts
    <2>2. CASE result = [op |-> "none"] BY <2>2 DEF LeqSound
    <2>3. CASE result = [op |-> "leq", value |-> Leq(lhs, rhs)] BY <1>1, <2>1, <2>3 DEF LeqSound
    <2>4. CASE result = [op |-> "eq_antisymm", value |-> EqAntisymm(lhs, rhs)] BY <1>2, <2>1, <2>4 DEF LeqSound
    <2>5. CASE result = [op |-> "is_zero", value |-> IsZero(lhs)] BY <1>3, <2>1, <2>5 DEF LeqSound
    <2>6. CASE result = [op |-> "is_nonzero", value |-> IsNonzero(lhs)]
      BY <1>1, <2>1, <2>6 DEF LeqSound, IsNonzero
    <2>7. CASE result = [op |-> "is_never_zero", value |-> IsNeverZero(lhs)]
      <3>1. result.op = "is_never_zero" /\ (result.value <=> IsNeverZero(lhs)) BY <2>7
      <3>2. IsNeverZero(lhs) <=> LeqSem(One, lhs) BY <2>1, OneBelow
      <3> QED BY <3>1, <3>2 DEF LeqSound
    <2>8. CASE result = [op |-> "simplify", value |-> Simplify(lhs)] BY <2>8 DEF LeqSound
    <2>9. CASE result = [op |-> "subst_level", value |-> SubstLevel(lhs, subst)] BY <2>9 DEF LeqSound
    <2> QED BY <1>4, <2>2, <2>3, <2>4, <2>5, <2>6, <2>7, <2>8, <2>9 DEF CallInv, Answered
  <1>5. CallInv => LeqSound BY <1>4
  <1> QED BY <1>5, CallInvHolds, PTL
=============================================================================
