--------------------------- MODULE Session_proofs ---------------------------
(***************************************************************************)
(* Proofs about Session for every configuration and every export file: a   *)
(* run that succeeds has read and checked the whole file, axioms are       *)
(* admitted by name, the report is complete and in order, what was asked   *)
(* for and passed the parser is found by the pretty printer, and what the  *)
(* last message says is true.                                              *)
(*                                                                         *)
(* The lemmas about FlattenSeq are by induction on the length.             *)
(***************************************************************************)
EXTENDS Session, TLAPS

\* What becomes of a line that has been read.
Accounted(l) ==
    /\ l.parses
    /\ \/ l \in Elems(declars) /\ (l.axiom => AxiomPermitted(l.name))
       \/ l.axiom /\ ~AxiomPermitted(l.name) /\ NameToString(l.name) \in Elems(skipped)

TypeOK ==
    /\ world \in World
    /\ line_num \in Nat /\ line_num <= Len(world.lines)
    /\ declars \in Seq(Line)
    /\ skipped \in Seq({NameToString(n) : n \in Names})

\* Every line that was read is accounted for, once.
LinesInv ==
    /\ \A i \in 1 .. line_num : Accounted(world.lines[i])
    /\ line_num = Len(declars) + Len(skipped)

\* The stages after the last line know the whole file, and those after the
\* check that every declaration passed it.
Read == line_num = Len(world.lines)
AllCheck == \A d \in Elems(declars) : d.checks

StageInv ==
    /\ stage \in {"check", "select", "print", "message"} => Read
    /\ stage \in {"select", "print", "message"} => AllCheck
    /\ exit = "none" <=> stage # "over"

EndInv == exit = "ok" => Read /\ AllCheck /\ message = Message

IInv == TypeOK /\ LinesInv /\ StageInv /\ EndInv

-----------------------------------------------------------------------------

\* Appending to a sequence adds one element to those it has.
LEMMA ElemsAppend ==
    ASSUME NEW S, NEW s \in Seq(S), NEW e \in S
    PROVE  Elems(Append(s, e)) = Elems(s) \cup {e}
  <1>1. Elems(s) = {s[i] : i \in 1 .. Len(s)}
    BY DEF Elems
  <1>2. Elems(Append(s, e)) = {Append(s, e)[i] : i \in 1 .. Len(s) + 1}
    BY DEF Elems
  <1>3. \A i \in 1 .. Len(s) : Append(s, e)[i] = s[i]
    OBVIOUS
  <1>4. Append(s, e)[Len(s) + 1] = e
    OBVIOUS
  <1>5. Len(s) \in Nat
    OBVIOUS
  <1> QED BY <1>1, <1>2, <1>3, <1>4, <1>5

\* The initial states satisfy the inductive invariant.
LEMMA InitInv == Init => IInv
  <1> SUFFICES ASSUME Init PROVE IInv
    OBVIOUS
  <1>1. world \in World
    BY InputsAssumption DEF Init
  <1>2. world.lines \in Seq(Line)
    BY <1>1 DEF World
  <1>3. TypeOK BY <1>1, <1>2 DEF Init, TypeOK
  <1>4. LinesInv BY DEF Init, LinesInv
  <1>5. StageInv /\ EndInv BY DEF Init, StageInv, EndInv
  <1> QED BY <1>3, <1>4, <1>5 DEF IInv

\* A step that leaves what was parsed alone keeps what is known of it.
LEMMA ParsedKept ==
    ASSUME TypeOK, LinesInv, UNCHANGED rigid, UNCHANGED parsed
    PROVE  TypeOK' /\ LinesInv' /\ Read' = Read /\ AllCheck' = AllCheck
  BY DEF rigid, parsed, TypeOK, LinesInv, Accounted, AxiomPermitted, Read, AllCheck

\* A run that ends without success keeps the invariant.
LEMMA FailInv ==
    ASSUME IInv, NEW how \in {"error", "panic", "declined"}, Fail(how)
    PROVE  IInv'
  <1>1. TypeOK' /\ LinesInv' BY ParsedKept DEF IInv, Fail
  <1>2. StageInv' /\ EndInv' BY DEF IInv, Fail, End, StageInv, EndInv
  <1> QED BY <1>1, <1>2 DEF IInv

\* Reading a line accounts for it and keeps the account of those before.
LEMMA ReadLineInv == IInv /\ ReadLine => IInv'
  <1> SUFFICES ASSUME IInv, ReadLine PROVE IInv'
    OBVIOUS
  <1> DEFINE l == world.lines[line_num + 1]
             wanted == l.axiom => AxiomPermitted(l.name)
  <1>1. /\ world.lines \in Seq(Line)
        /\ line_num \in Nat /\ line_num + 1 \in 1 .. Len(world.lines)
        /\ l \in Line /\ l.name \in Names
    <2>1. world.lines \in Seq(Line) BY DEF IInv, TypeOK, World
    <2>2. line_num \in Nat /\ line_num < Len(world.lines) BY DEF ReadLine, IInv, TypeOK
    <2>3. line_num + 1 \in 1 .. Len(world.lines) BY <2>1, <2>2
    <2>4. l \in Line BY <2>1, <2>3
    <2>5. l.name \in Names BY <2>4 DEF Line
    <2> QED BY <2>1, <2>2, <2>3, <2>4, <2>5
  <1>2. CASE /\ l.parses /\ wanted
             /\ declars' = Append(declars, l)
             /\ line_num' = line_num + 1
             /\ Continue("lines")
             /\ UNCHANGED <<destination, skipped>>
    <2>1. Elems(declars)' = Elems(declars) \cup {l}
      <3>1. declars \in Seq(Line) /\ l \in Line
        BY <1>1 DEF IInv, TypeOK
      <3>2. Elems(Append(declars, l)) = Elems(declars) \cup {l}
        BY <3>1, ElemsAppend
      <3> QED BY <1>2, <3>2 DEF Elems
    <2>2. TypeOK' BY <1>1, <1>2 DEF IInv, TypeOK, Continue, rigid
    <2>3. LinesInv'
      <3>1. \A i \in 1 .. line_num : Accounted(world.lines[i])'
        BY <1>2, <2>1 DEF IInv, LinesInv, Accounted, AxiomPermitted, Continue, rigid
      <3>2. Accounted(world.lines[line_num])'
        <4>1. UNCHANGED <<world, config>> /\ (world.lines)'[line_num'] = l
          BY <1>2 DEF Continue, rigid
        <4> QED BY <1>2, <2>1, <4>1 DEF Accounted, AxiomPermitted
      <3>3. \A i \in 1 .. line_num' : i \in 1 .. line_num \/ i = line_num'
        BY <1>1, <1>2
      <3>4. \A i \in (1 .. line_num)' : Accounted(world.lines[i])'
        BY <3>1, <3>2, <3>3
      <3>5. line_num' = Len(declars)' + Len(skipped)'
        BY <1>1, <1>2 DEF IInv, LinesInv, TypeOK
      <3> QED BY <3>4, <3>5 DEF LinesInv
    <2>4. StageInv' /\ EndInv' BY <1>2 DEF ReadLine, IInv, StageInv, EndInv, Continue
    <2> QED BY <2>2, <2>3, <2>4 DEF IInv
  <1>3. CASE /\ l.parses /\ ~wanted
             /\ skipped' = Append(skipped, NameToString(l.name))
             /\ line_num' = line_num + 1
             /\ Continue("lines")
             /\ UNCHANGED <<destination, declars>>
    <2>1. Elems(skipped)' = Elems(skipped) \cup {NameToString(l.name)}
      <3>1. skipped \in Seq({NameToString(n) : n \in Names}) /\ NameToString(l.name) \in {NameToString(n) : n \in Names}
        BY <1>1 DEF IInv, TypeOK
      <3>2. Elems(Append(skipped, NameToString(l.name))) = Elems(skipped) \cup {NameToString(l.name)}
        BY <3>1, ElemsAppend
      <3> QED BY <1>3, <3>2 DEF Elems
    <2>2. TypeOK' BY <1>1, <1>3 DEF IInv, TypeOK, Continue, rigid
    <2>3. LinesInv'
      <3>1. \A i \in 1 .. line_num : Accounted(world.lines[i])'
        BY <1>3, <2>1 DEF IInv, LinesInv, Accounted, AxiomPermitted, Continue, rigid
      <3>2. Accounted(world.lines[line_num])'
        <4>1. UNCHANGED <<world, config>> /\ (world.lines)'[line_num'] = l
          BY <1>3 DEF Continue, rigid
        <4> QED BY <1>3, <2>1, <4>1 DEF Accounted, AxiomPermitted
      <3>3. \A i \in 1 .. line_num' : i \in 1 .. line_num \/ i = line_num'
        BY <1>1, <1>3
      <3>4. \A i \in (1 .. line_num)' : Accounted(world.lines[i])'
        BY <3>1, <3>2, <3>3
      <3>5. line_num' = Len(declars)' + Len(skipped)'
        BY <1>1, <1>3 DEF IInv, LinesInv, TypeOK
      <3> QED BY <3>4, <3>5 DEF LinesInv
    <2>4. StageInv' /\ EndInv' BY <1>3 DEF ReadLine, IInv, StageInv, EndInv, Continue
    <2> QED BY <2>2, <2>3, <2>4 DEF IInv
  <1>4. CASE \E how \in {"error", "panic", "declined"} : Fail(how)
    BY <1>4, FailInv
  <1> QED BY <1>2, <1>3, <1>4 DEF ReadLine

\* Every step keeps the inductive invariant.
LEMMA StepInv == IInv /\ [Next]_vars => IInv'
  <1> SUFFICES ASSUME IInv, [Next]_vars PROVE IInv'
    OBVIOUS
  <1>1. CASE ReadConfig
    <2>1. CASE \E how \in {"error", "panic", "declined"} : Fail(how) BY <2>1, FailInv
    <2>2. CASE Continue("destination") /\ UNCHANGED <<destination, parsed>>
      <3>1. TypeOK' /\ LinesInv' BY <2>2, ParsedKept DEF IInv, Continue
      <3>2. StageInv' /\ EndInv' BY <1>1, <2>2 DEF ReadConfig, IInv, StageInv, EndInv, Continue
      <3> QED BY <3>1, <3>2 DEF IInv
    <2> QED BY <1>1, <2>1, <2>2 DEF ReadConfig
  <1>2. CASE OpenDestination
    <2>1. CASE \E how \in {"error", "panic", "declined"} : Fail(how) BY <2>1, FailInv
    <2>2. CASE Continue("export") /\ UNCHANGED parsed
      <3>1. TypeOK' /\ LinesInv' BY <2>2, ParsedKept DEF IInv, Continue
      <3>2. StageInv' /\ EndInv' BY <1>2, <2>2 DEF OpenDestination, IInv, StageInv, EndInv, Continue
      <3> QED BY <3>1, <3>2 DEF IInv
    <2> QED BY <1>2, <2>1, <2>2 DEF OpenDestination
  <1>3. CASE OpenExportFile
    <2>1. CASE \E how \in {"error", "panic", "declined"} : Fail(how) BY <2>1, FailInv
    <2>2. CASE Continue("lines") /\ UNCHANGED <<destination, parsed>>
      <3>1. TypeOK' /\ LinesInv' BY <2>2, ParsedKept DEF IInv, Continue
      <3>2. StageInv' /\ EndInv' BY <1>3, <2>2 DEF OpenExportFile, IInv, StageInv, EndInv, Continue
      <3> QED BY <3>1, <3>2 DEF IInv
    <2> QED BY <1>3, <2>1, <2>2 DEF OpenExportFile
  <1>4. CASE ReadLine
    BY <1>4, ReadLineInv
  <1>5. CASE EndOfFile
    <2>1. CASE \E how \in {"error", "panic", "declined"} : Fail(how) BY <2>1, FailInv
    <2>2. CASE Continue("check") /\ UNCHANGED <<destination, parsed>>
      <3>1. TypeOK' /\ LinesInv' /\ Read' BY <1>5, <2>2, ParsedKept DEF EndOfFile, IInv, Continue, Read
      <3>2. StageInv' /\ EndInv' BY <1>5, <2>2, <3>1 DEF EndOfFile, IInv, StageInv, EndInv, Continue
      <3> QED BY <3>1, <3>2 DEF IInv
    <2> QED BY <1>5, <2>1, <2>2 DEF EndOfFile
  <1>6. CASE CheckAllDeclars
    <2>1. CASE \E how \in {"error", "panic", "declined"} : Fail(how) BY <2>1, FailInv
    <2>2. CASE AllCheck /\ Continue("select") /\ UNCHANGED <<destination, parsed>>
      <3>1. TypeOK' /\ LinesInv' /\ Read' = Read /\ AllCheck' BY <2>2, ParsedKept DEF IInv, Continue
      <3>2. StageInv' /\ EndInv' BY <1>6, <2>2, <3>1 DEF CheckAllDeclars, IInv, StageInv, EndInv, Continue
      <3> QED BY <3>1, <3>2 DEF IInv
    <2> QED BY <1>6, <2>1, <2>2 DEF CheckAllDeclars, AllCheck
  <1>7. CASE SelectDeclars
    <2>1. TypeOK' /\ LinesInv' /\ Read' = Read /\ AllCheck' = AllCheck
      BY <1>7, ParsedKept DEF SelectDeclars, IInv
    <2>2. StageInv' /\ EndInv' BY <1>7, <2>1 DEF SelectDeclars, IInv, StageInv, EndInv
    <2> QED BY <2>1, <2>2 DEF IInv
  <1>8. CASE PrintNext
    <2>1. TypeOK' /\ LinesInv' /\ Read' = Read /\ AllCheck' = AllCheck
      BY <1>8, ParsedKept DEF PrintNext, IInv
    <2>2. StageInv' /\ EndInv' BY <1>8, <2>1 DEF PrintNext, IInv, StageInv, EndInv
    <2> QED BY <2>1, <2>2 DEF IInv
  <1>9. CASE EndOfRequests
    <2>1. TypeOK' /\ LinesInv' /\ Read' = Read /\ AllCheck' = AllCheck
      BY <1>9, ParsedKept DEF EndOfRequests, IInv
    <2>2. StageInv' /\ EndInv' BY <1>9, <2>1 DEF EndOfRequests, IInv, StageInv, EndInv
    <2> QED BY <2>1, <2>2 DEF IInv
  <1>10. CASE Finish
    <2>1. TypeOK' /\ LinesInv' /\ Read' = Read /\ AllCheck' = AllCheck
      BY <1>10, ParsedKept DEF Finish, IInv
    <2>2. Message' = Message
      BY <1>10 DEF Finish, Message, rigid, parsed
    <2>3. StageInv' /\ EndInv' BY <1>10, <2>1, <2>2 DEF Finish, End, IInv, StageInv, EndInv
    <2> QED BY <2>1, <2>3 DEF IInv
  <1>11. CASE UNCHANGED vars
    <2>1. TypeOK' /\ LinesInv' /\ Read' = Read /\ AllCheck' = AllCheck
      BY <1>11, ParsedKept DEF vars, IInv
    <2>2. Message' = Message
      BY <1>11 DEF vars, Message, rigid, parsed, printing
    <2>3. StageInv' /\ EndInv' BY <1>11, <2>1, <2>2 DEF vars, IInv, StageInv, EndInv
    <2> QED BY <2>1, <2>3 DEF IInv
  <1> QED
    BY <1>1, <1>2, <1>3, <1>4, <1>5, <1>6, <1>7, <1>8, <1>9, <1>10, <1>11 DEF Next, Done

\* The account of the lines, of the stages and of the end holds throughout.
THEOREM AccountHolds == Spec => []IInv
  BY InitInv, StepInv, PTL DEF Spec

\* For every configuration and every file: exit code 0 is reached only with
\* the whole file read, everything in it checked, and only axioms that the
\* configuration does not permit left out.
THEOREM SuccessMeansCheckedHolds == Spec => []SuccessMeansChecked
  <1>1. IInv => SuccessMeansChecked
    <2> SUFFICES ASSUME IInv, Succeeded, NEW i \in DOMAIN world.lines
                 PROVE  LET l == world.lines[i] IN
                        /\ l.parses
                        /\ \/ l \in Elems(declars) /\ l.checks /\ (l.axiom => AxiomPermitted(l.name))
                           \/ l.axiom /\ ~AxiomPermitted(l.name) /\ NameToString(l.name) \in Elems(skipped)
      BY DEF SuccessMeansChecked
    <2>1. Read /\ AllCheck BY DEF IInv, EndInv, Succeeded
    <2>2. i \in 1 .. line_num BY <2>1 DEF Read, IInv, TypeOK, World
    <2>3. Accounted(world.lines[i]) BY <2>2 DEF IInv, LinesInv
    <2> QED BY <2>1, <2>3 DEF Accounted, AllCheck
  <1> QED BY <1>1, AccountHolds, PTL

-----------------------------------------------------------------------------
(* FlattenSeq: what it is of one sequence more, of two sequences after one *)
(* another, and which elements it has.                                     *)

NothingOf(s) == <<>>
OneMore(s, n, v) == v \o s[n]
Flattening == INSTANCE Recursion WITH Base <- NothingOf, Step <- OneMore

\* The prefixes of a flattened sequence.
LEMMA FlattenPrefixes ==
    ASSUME NEW S, NEW s \in Seq(Seq(S))
    PROVE  \E g : /\ g[0] = <<>> /\ \A n \in Nat : g[n + 1] = OneMore(s, n + 1, g[n])
                  /\ \A n \in 0 .. Len(s) : g[n] \in Seq(S)
                  /\ FlattenSeq(s) = g[Len(s)]
  <1> DEFINE F(g) == [n \in Nat |-> IF n = 0 THEN NothingOf(s) ELSE OneMore(s, n, g[n - 1])]
  <1>1. PICK g : g = F(g) BY Flattening!HasSolution
  <1>2. g[0] = <<>>
    <2>1. F(g)[0] = <<>> BY DEF NothingOf
    <2> QED BY <1>1, <2>1
  <1>3. \A n \in Nat : g[n + 1] = OneMore(s, n + 1, g[n])
    <2>1. \A n \in Nat : F(g)[n + 1] = OneMore(s, n + 1, g[n]) OBVIOUS
    <2> QED BY <1>1, <2>1
  <1>4. \A n \in 0 .. Len(s) : g[n] \in Seq(S)
    <2> DEFINE I == {n \in Nat : n <= Len(s) => g[n] \in Seq(S)}
    <2>1. 0 \in I
      <3>1. <<>> \in Seq(S) OBVIOUS
      <3>2. g[0] \in Seq(S) BY <1>2, <3>1
      <3> QED BY <3>2
    <2>2. ASSUME NEW n \in Nat, n \in I PROVE n + 1 \in I
      <3> SUFFICES ASSUME n + 1 <= Len(s) PROVE g[n + 1] \in Seq(S) OBVIOUS
      <3>1. g[n] \in Seq(S) /\ s[n + 1] \in Seq(S) BY <2>2
      <3>2. g[n + 1] = OneMore(s, n + 1, g[n]) BY <1>3
      <3> QED BY <3>1, <3>2 DEF OneMore
    <2> HIDE DEF I
    <2>3. Nat \subseteq I BY <2>1, <2>2, Flattening!Induction
    <2> QED BY <2>3 DEF I
  <1>5. FlattenSeq(s) = g[Len(s)]
    <2>1. CASE Len(s) = 0
      <3>1. s = <<>> BY <2>1
      <3> QED BY <2>1, <3>1, <1>2 DEF FlattenSeq
    <2>2. CASE Len(s) # 0
      <3> DEFINE G(f) == [i \in 1 .. Len(s) |-> IF i = 1 THEN s[i] ELSE f[i - 1] \o s[i]]
                 f0 == CHOOSE f : f = G(f)
                 g0 == [i \in 1 .. Len(s) |-> g[i]]
      <3>1. FlattenSeq(s) = f0[Len(s)] BY <2>2 DEF FlattenSeq
      <3>2. g[1] = s[1]
        <4>1. s[1] \in Seq(S) BY <2>2
        <4>2. g[0 + 1] = OneMore(s, 0 + 1, g[0]) BY <1>3
        <4> QED BY <1>2, <4>1, <4>2 DEF OneMore
      <3>3. g0 = G(g0)
        <4>1. ASSUME NEW i \in 1 .. Len(s) PROVE g0[i] = G(g0)[i]
          <5>1. CASE i = 1 BY <3>2, <5>1
          <5>2. CASE i # 1
            <6>1. i - 1 \in 1 .. Len(s) /\ i - 1 \in Nat /\ (i - 1) + 1 = i BY <5>2
            <6>2. g[i] = OneMore(s, i, g[i - 1]) BY <1>3, <6>1
            <6> QED BY <5>2, <6>1, <6>2 DEF OneMore
          <5> QED BY <5>1, <5>2
        <4> QED BY <4>1
      <3>4. f0 = G(f0) BY <3>3
      <3> HIDE DEF f0, g0
      <3>5. f0[1] = s[1]
        <4>1. G(f0)[1] = s[1] BY <2>2
        <4> QED BY <3>4, <4>1
      <3>6. ASSUME NEW n \in Nat, (n + 1) + 1 <= Len(s)
            PROVE  f0[(n + 1) + 1] = OneMore(s, (n + 1) + 1, f0[n + 1])
        <4>1. (n + 1) + 1 \in 1 .. Len(s) /\ (n + 1) + 1 # 1 /\ ((n + 1) + 1) - 1 = n + 1 BY <3>6
        <4>2. G(f0)[(n + 1) + 1] = f0[n + 1] \o s[(n + 1) + 1] BY <4>1
        <4> QED BY <3>4, <4>2 DEF OneMore
      <3> DEFINE I == {n \in Nat : n + 1 <= Len(s) => f0[n + 1] = g[n + 1]}
      <3>7. 0 \in I BY <3>2, <3>5
      <3>8. ASSUME NEW n \in Nat, n \in I PROVE n + 1 \in I
        <4> SUFFICES ASSUME (n + 1) + 1 <= Len(s) PROVE f0[(n + 1) + 1] = g[(n + 1) + 1] OBVIOUS
        <4>1. f0[n + 1] = g[n + 1] BY <3>8
        <4>2. f0[(n + 1) + 1] = OneMore(s, (n + 1) + 1, f0[n + 1]) BY <3>6
        <4>3. g[(n + 1) + 1] = OneMore(s, (n + 1) + 1, g[n + 1]) BY <1>3
        <4> QED BY <4>1, <4>2, <4>3
      <3> HIDE DEF I
      <3>9. Nat \subseteq I BY <3>7, <3>8, Flattening!Induction
      <3>10. Len(s) - 1 \in I /\ (Len(s) - 1) + 1 = Len(s) BY <2>2, <3>9
      <3>11. f0[Len(s)] = g[Len(s)] BY <3>10 DEF I
      <3> QED BY <3>1, <3>11
    <2> QED BY <2>1, <2>2
  <1> QED BY <1>2, <1>3, <1>4, <1>5

\* One sequence more.
LEMMA FlattenAppend ==
    ASSUME NEW S, NEW s \in Seq(Seq(S)), NEW x \in Seq(S)
    PROVE  FlattenSeq(s) \in Seq(S) /\ FlattenSeq(Append(s, x)) = FlattenSeq(s) \o x
  <1> DEFINE t == Append(s, x)
  <1>1. t \in Seq(Seq(S)) /\ Len(t) = Len(s) + 1 /\ t[Len(s) + 1] = x /\ \A i \in 1 .. Len(s) : t[i] = s[i]
        /\ Len(s) \in Nat
    OBVIOUS
  <1> HIDE DEF t
  <1>2. PICK g : /\ g[0] = <<>> /\ \A n \in Nat : g[n + 1] = OneMore(s, n + 1, g[n])
                 /\ \A n \in 0 .. Len(s) : g[n] \in Seq(S)
                 /\ FlattenSeq(s) = g[Len(s)]
    BY FlattenPrefixes
  <1>3. PICK h : /\ h[0] = <<>> /\ \A n \in Nat : h[n + 1] = OneMore(t, n + 1, h[n])
                 /\ \A n \in 0 .. Len(t) : h[n] \in Seq(S)
                 /\ FlattenSeq(t) = h[Len(t)]
    BY <1>1, FlattenPrefixes
  <1> DEFINE I == {n \in Nat : n <= Len(s) => h[n] = g[n]}
  <1>4. 0 \in I
    <2>1. h[0] = g[0] BY <1>2, <1>3
    <2> QED BY <2>1
  <1>5. ASSUME NEW n \in Nat, n \in I PROVE n + 1 \in I
    <2> SUFFICES ASSUME n + 1 <= Len(s) PROVE h[n + 1] = g[n + 1] OBVIOUS
    <2>1. h[n] = g[n] /\ t[n + 1] = s[n + 1] BY <1>1, <1>5
    <2>2. h[n + 1] = OneMore(t, n + 1, h[n]) BY <1>3
    <2>3. g[n + 1] = OneMore(s, n + 1, g[n]) BY <1>2
    <2>4. OneMore(t, n + 1, h[n]) = OneMore(s, n + 1, g[n]) BY <2>1 DEF OneMore
    <2> QED BY <2>2, <2>3, <2>4
  <1> HIDE DEF I
  <1>6. Nat \subseteq I BY <1>4, <1>5, Flattening!Induction
  <1>7. h[Len(s)] = g[Len(s)] BY <1>1, <1>6 DEF I
  <1>8. h[Len(s) + 1] = OneMore(t, Len(s) + 1, h[Len(s)]) BY <1>1, <1>3
  <1>9. OneMore(t, Len(s) + 1, h[Len(s)]) = g[Len(s)] \o x BY <1>1, <1>7 DEF OneMore
  <1>10. FlattenSeq(s) \in Seq(S) BY <1>1, <1>2
  <1>11. FlattenSeq(t) = FlattenSeq(s) \o x
    <2>1. FlattenSeq(t) = h[Len(s) + 1] BY <1>1, <1>3
    <2>2. FlattenSeq(s) = g[Len(s)] BY <1>2
    <2> QED BY <1>8, <1>9, <2>1, <2>2
  <1> QED BY <1>10, <1>11 DEF t

\* Nothing to flatten.
LEMMA FlattenEmpty == FlattenSeq(<<>>) = <<>>
  BY DEF FlattenSeq

\* A sequence is one that is shorter by one with its last element.
LEMMA FrontAndLast ==
    ASSUME NEW S, NEW s \in Seq(S), NEW n \in Nat, Len(s) = n + 1
    PROVE  \E t \in Seq(S), x \in S : s = Append(t, x) /\ Len(t) = n
  <1> DEFINE t == [i \in 1 .. n |-> s[i]]
  <1>1. t \in Seq(S) /\ Len(t) = n OBVIOUS
  <1>2. s[n + 1] \in S OBVIOUS
  <1>3. Append(t, s[n + 1]) \in Seq(S) /\ Len(Append(t, s[n + 1])) = n + 1 BY <1>1, <1>2
  <1>4. \A i \in 1 .. n + 1 : Append(t, s[n + 1])[i] = s[i] BY <1>1
  <1>5. Append(t, s[n + 1]) = s BY <1>3, <1>4
  <1> QED BY <1>1, <1>2, <1>5

\* The elements of two sequences after one another.
LEMMA ElemsConcat ==
    ASSUME NEW S, NEW s \in Seq(S), NEW t \in Seq(S)
    PROVE  Elems(s \o t) = Elems(s) \cup Elems(t)
  <1>1. Len(s) \in Nat /\ Len(t) \in Nat /\ Len(s \o t) = Len(s) + Len(t) OBVIOUS
  <1>2. DOMAIN s = 1 .. Len(s) /\ DOMAIN t = 1 .. Len(t) /\ DOMAIN (s \o t) = 1 .. Len(s) + Len(t) OBVIOUS
  <1>3. \A i \in 1 .. Len(s) : (s \o t)[i] = s[i] OBVIOUS
  <1>4. \A i \in 1 .. Len(t) : (s \o t)[Len(s) + i] = t[i] OBVIOUS
  <1>5. Elems(s \o t) \subseteq Elems(s) \cup Elems(t)
    <2> SUFFICES ASSUME NEW i \in DOMAIN (s \o t) PROVE (s \o t)[i] \in Elems(s) \cup Elems(t) BY DEF Elems
    <2>1. CASE i <= Len(s) BY <1>1, <1>2, <1>3, <2>1 DEF Elems
    <2>2. CASE i > Len(s)
      <3>1. i - Len(s) \in 1 .. Len(t) /\ Len(s) + (i - Len(s)) = i BY <1>1, <1>2, <2>2
      <3>2. (s \o t)[i] = t[i - Len(s)] BY <1>4, <3>1
      <3> QED BY <1>2, <3>1, <3>2 DEF Elems
    <2> QED BY <1>1, <1>2, <2>1, <2>2
  <1>6. Elems(s) \subseteq Elems(s \o t)
    <2> SUFFICES ASSUME NEW i \in DOMAIN s PROVE s[i] \in Elems(s \o t) BY DEF Elems
    <2>1. i \in DOMAIN (s \o t) BY <1>1, <1>2
    <2> QED BY <1>2, <1>3, <2>1 DEF Elems
  <1>7. Elems(t) \subseteq Elems(s \o t)
    <2> SUFFICES ASSUME NEW i \in DOMAIN t PROVE t[i] \in Elems(s \o t) BY DEF Elems
    <2>1. Len(s) + i \in DOMAIN (s \o t) BY <1>1, <1>2
    <2> QED BY <1>2, <1>4, <2>1 DEF Elems
  <1> QED BY <1>5, <1>6, <1>7

\* What a flattened sequence has is what its sequences have.
LEMMA FlattenElems ==
    ASSUME NEW S
    PROVE  \A s \in Seq(Seq(S)) : Elems(FlattenSeq(s)) = UNION {Elems(s[i]) : i \in DOMAIN s}
  <1> DEFINE P(s) == Elems(FlattenSeq(s)) = UNION {Elems(s[i]) : i \in DOMAIN s}
             I == {n \in Nat : \A s \in Seq(Seq(S)) : Len(s) = n => P(s)}
  <1>1. 0 \in I
    <2> SUFFICES ASSUME NEW s \in Seq(Seq(S)), Len(s) = 0 PROVE P(s) OBVIOUS
    <2>1. s = <<>> OBVIOUS
    <2>2. FlattenSeq(s) = <<>> BY <2>1, FlattenEmpty
    <2>3. Elems(<<>>) = {} BY DEF Elems
    <2>4. DOMAIN s = {} BY <2>1
    <2> QED BY <2>2, <2>3, <2>4
  <1>2. ASSUME NEW n \in Nat, n \in I PROVE n + 1 \in I
    <2> SUFFICES ASSUME NEW s \in Seq(Seq(S)), Len(s) = n + 1 PROVE P(s) OBVIOUS
    <2>1. PICK t \in Seq(Seq(S)), x \in Seq(S) : s = Append(t, x) /\ Len(t) = n BY FrontAndLast
    <2>2. Elems(FlattenSeq(t)) = UNION {Elems(t[i]) : i \in DOMAIN t} BY <1>2, <2>1
    <2>3. FlattenSeq(s) = FlattenSeq(t) \o x /\ FlattenSeq(t) \in Seq(S) BY <2>1, FlattenAppend
    <2>4. Elems(FlattenSeq(s)) = Elems(FlattenSeq(t)) \cup Elems(x) BY <2>3, ElemsConcat
    <2>5. DOMAIN s = DOMAIN t \cup {n + 1} /\ s[n + 1] = x /\ \A i \in DOMAIN t : s[i] = t[i] BY <2>1
    <2>6. UNION {Elems(s[i]) : i \in DOMAIN s} = (UNION {Elems(t[i]) : i \in DOMAIN t}) \cup Elems(x) BY <2>5
    <2> QED BY <2>2, <2>4, <2>6
  <1> HIDE DEF I, P
  <1>3. Nat \subseteq I BY <1>1, <1>2, Flattening!Induction
  <1>4. ASSUME NEW s \in Seq(Seq(S)) PROVE P(s)
    <2>1. Len(s) \in I BY <1>3
    <2> QED BY <2>1 DEF I
  <1> QED BY <1>4 DEF P

-----------------------------------------------------------------------------
(* The inductive invariant.  What has been printed is a prefix of what is   *)
(* asked for; the report is what that prefix finds.                         *)

Request == [text : Texts, name : Names]
Entry == [name : Names, whole : BOOLEAN]
Error == [kind : {"axioms", "write", "not_found"}, text : Texts]

AllRequests == ListedRequests \o (IF config.print_axioms THEN AxiomRequests ELSE <<>>)

PrintingTypes ==
    /\ config \in Configs /\ world \in Worlds
    /\ stage \in Stages /\ exit \in {"none", "ok", "error", "panic", "declined"}
    /\ requests \in Seq(Request)
    /\ output \in Seq(Entry) /\ buffer \in Seq(Entry)
    /\ errs \in Seq(Error)

\* Every declaration is one of the file, and permitted if it is an axiom; the
\* axioms that were declared and those that were skipped are in its order.
ReadLines == SubSeq(world.lines, 1, line_num)

FromTheFile ==
    /\ \A d \in Elems(declars) : d \in Elems(world.lines) /\ (d.axiom => AxiomPermitted(d.name))
    /\ Axioms = AxiomsOf(ReadLines, TRUE)
    /\ skipped = WrittenNames(AxiomsOf(ReadLines, FALSE))

Early == {"config", "destination", "export", "lines", "check", "select"}

\* Nothing is printed before the selection, or by a run that fails.
NothingYet ==
    stage \in Early \/ exit \in {"error", "panic", "declined"} =>
        requests = <<>> /\ errs = <<>> /\ output = <<>> /\ buffer = <<>>

\* These of the requests that have been dealt with were printed, and those that
\* were not, with some that were, are in the errors.
Reported(done, printed, both) ==
    /\ NamesOf(output \o buffer) = NamesOf(At(done, printed))
    /\ errs = ErrorsOf(At(done, both \cup (DOMAIN done \ printed)))

Found(done) == {i \in DOMAIN done : done[i].name \in DeclaredNames}

\* These requests have been dealt with.
DealtWith(done) ==
    /\ AllRequests = done \o requests
    /\ stage # "print" => requests = <<>>
    /\ \E printed \in SUBSET Found(done) : \E both \in SUBSET printed : Reported(done, printed, both)

Selected == stage \in {"print", "message"} \/ exit = "ok"

Progress == Selected /\ destination # {} => \E done \in Seq(Request) : DealtWith(done)

\* Without a destination nothing is looked for, and axioms are missed.
NotAsked == Selected /\ destination = {} => stage # "print" /\ (config.print_axioms => errs # <<>>)

\* What the parser has let pass is declared, by its text.
Passed ==
    (stage \in {"check", "select", "print", "message"} \/ exit = "ok") /\ config.unknown_pp_declar_hard_error
        => UnknownRequests = {}

PrintInv == PrintingTypes /\ FromTheFile /\ NothingYet /\ Progress /\ NotAsked /\ Passed


-----------------------------------------------------------------------------
(* Names, texts and requests.                                               *)

\* A function on 1 .. n is a sequence, of length n.
LEMMA SequenceOf ==
    ASSUME NEW T, NEW n \in Nat, NEW f, f = [i \in 1 .. n |-> f[i]], \A i \in 1 .. n : f[i] \in T
    PROVE  f \in Seq(T) /\ Len(f) = n
  OBVIOUS

\* Sequences with the same length and elements are the same.
LEMMA SequencesEqual ==
    ASSUME NEW T, NEW f \in Seq(T), NEW g \in Seq(T), Len(f) = Len(g), \A i \in 1 .. Len(f) : f[i] = g[i]
    PROVE  f = g
  OBVIOUS

\* Two sequences after one another.
LEMMA ConcatFacts ==
    ASSUME NEW T, NEW f \in Seq(T), NEW g \in Seq(T)
    PROVE  /\ f \o g \in Seq(T) /\ Len(f \o g) = Len(f) + Len(g)
           /\ \A i \in 1 .. Len(f) + Len(g) : (f \o g)[i] = IF i <= Len(f) THEN f[i] ELSE g[i - Len(f)]
  <1>1. f \o g \in Seq(T) OBVIOUS
  <1>2. Len(f \o g) = Len(f) + Len(g) OBVIOUS
  <1>3. \A i \in 1 .. Len(f) + Len(g) : (f \o g)[i] = IF i <= Len(f) THEN f[i] ELSE g[i - Len(f)] OBVIOUS
  <1> QED BY <1>1, <1>2, <1>3

\* A sequence followed by one of a single element.
LEMMA SingleLast ==
    ASSUME NEW T, NEW f \in Seq(T), NEW x \in Seq(T), Len(x) = 1
    PROVE  /\ x[1] \in T
           /\ f \o x \in Seq(T) /\ Len(f \o x) = Len(f) + 1
           /\ (f \o x)[Len(f) + 1] = x[1] /\ \A i \in 1 .. Len(f) : (f \o x)[i] = f[i]
  <1>1. x[1] \in T
    <2>1. \A i \in 1 .. Len(x) : x[i] \in T BY ONLY x \in Seq(T)
    <2>2. 1 \in 1 .. Len(x) OBVIOUS
    <2> QED BY ONLY <2>1, <2>2
  <1>2. f \o x \in Seq(T) /\ Len(f \o x) = Len(f) + 1
    <2>1. f \o x \in Seq(T) OBVIOUS
    <2>2. Len(f \o x) = Len(f) + Len(x) BY ONLY x \in Seq(T), f \in Seq(T)
    <2> QED BY <2>1, <2>2
  <1>3. (f \o x)[Len(f) + 1] = x[1] OBVIOUS
  <1>4. \A i \in 1 .. Len(f) : (f \o x)[i] = f[i] OBVIOUS
  <1> QED BY <1>1, <1>2, <1>3, <1>4

\* A sequence of one-element sequences, flattened.
LEMMA FlattenSingles ==
    ASSUME NEW S
    PROVE  \A s \in Seq(Seq(S)) :
              (\A i \in DOMAIN s : Len(s[i]) = 1) => FlattenSeq(s) = [i \in DOMAIN s |-> s[i][1]]
  <1> DEFINE Single(s) == \A i \in DOMAIN s : Len(s[i]) = 1
             Firsts(s) == [i \in DOMAIN s |-> s[i][1]]
             I == {n \in Nat : \A s \in Seq(Seq(S)) : Len(s) = n /\ Single(s) => FlattenSeq(s) = Firsts(s)}
  <1>1. 0 \in I
    <2> SUFFICES ASSUME NEW s \in Seq(Seq(S)), Len(s) = 0 PROVE FlattenSeq(s) = Firsts(s) OBVIOUS
    <2>1. s = <<>> OBVIOUS
    <2>2. Firsts(<<>>) = <<>> OBVIOUS
    <2> QED BY <2>1, <2>2, FlattenEmpty
  <1>2. ASSUME NEW n \in Nat, n \in I PROVE n + 1 \in I
    <2> SUFFICES ASSUME NEW s \in Seq(Seq(S)), Len(s) = n + 1, Single(s) PROVE FlattenSeq(s) = Firsts(s) OBVIOUS
    <2>1. PICK t \in Seq(Seq(S)), x \in Seq(S) : s = Append(t, x) /\ Len(t) = n BY FrontAndLast
    <2>2. DOMAIN s = 1 .. n + 1 /\ DOMAIN t = 1 .. n /\ s[n + 1] = x /\ \A i \in 1 .. n : s[i] = t[i] BY <2>1
    <2>3. Single(t) /\ Len(x) = 1 BY <2>2
    <2>4. FlattenSeq(t) = Firsts(t) BY <1>2, <2>1, <2>3
    <2>5. FlattenSeq(s) = Firsts(t) \o x /\ Firsts(t) \in Seq(S)
      <3>1. FlattenSeq(t) \in Seq(S) /\ FlattenSeq(Append(t, x)) = FlattenSeq(t) \o x BY FlattenAppend
      <3> HIDE DEF Firsts
      <3> QED BY <2>1, <2>4, <3>1
    <2>6. Len(Firsts(t)) = n /\ \A i \in 1 .. n : Firsts(t)[i] = t[i][1] BY <2>1, <2>2, <2>5
    <2>7. Firsts(s) \in Seq(S) /\ Len(Firsts(s)) = n + 1
      <3>1. \A i \in 1 .. n + 1 : s[i][1] \in S
        <4> SUFFICES ASSUME NEW i \in 1 .. n + 1 PROVE s[i][1] \in S OBVIOUS
        <4> DEFINE e == s[i]
        <4>1. e \in Seq(S)
          <5>1. \A j \in 1 .. Len(s) : s[j] \in Seq(S) OBVIOUS
          <5> QED BY <5>1
        <4>2. Len(e) = 1 BY <2>2
        <4> HIDE DEF e
        <4>3. e[1] \in S BY <4>1, <4>2, SingleLast
        <4> QED BY <4>3 DEF e
      <3> PICK m \in Nat : m = n + 1 OBVIOUS
      <3> DEFINE g == Firsts(s)
      <3>2. g = [i \in 1 .. m |-> s[i][1]] BY <2>2
      <3>3. \A i \in 1 .. m : g[i] = s[i][1] BY <3>2
      <3>4. g = [i \in 1 .. m |-> g[i]] BY <2>2
      <3>5. \A i \in 1 .. m : g[i] \in S BY <3>1, <3>3
      <3> HIDE DEF g
      <3>6. g \in Seq(S) /\ Len(g) = m BY ONLY <3>4, <3>5, SequenceOf
      <3> QED BY <3>6 DEF g
    <2>8. \A i \in 1 .. n + 1 : Firsts(s)[i] = s[i][1] BY <2>2
    <2>9. x \in Seq(S) /\ Len(x) = 1 BY <2>1, <2>3
    <2> DEFINE f == Firsts(t)
               h == Firsts(s)
    <2>10. f \in Seq(S) /\ Len(f) = n /\ h \in Seq(S) /\ Len(h) = n + 1 BY <2>5, <2>6, <2>7
    <2>11. h[n + 1] = x[1] /\ \A i \in 1 .. n : h[i] = f[i] BY <2>2, <2>6, <2>8
    <2> HIDE DEF f, h
    <2>12. /\ f \o x \in Seq(S) /\ Len(f \o x) = Len(f) + 1
           /\ (f \o x)[Len(f) + 1] = x[1] /\ \A i \in 1 .. Len(f) : (f \o x)[i] = f[i]
      BY ONLY <2>9, <2>10, SingleLast
    <2>13. \A i \in 1 .. n + 1 : i = n + 1 \/ i \in 1 .. n OBVIOUS
    <2>14. \A i \in 1 .. Len(h) : h[i] = (f \o x)[i] BY ONLY <2>10, <2>11, <2>12, <2>13
    <2>15. h = f \o x BY ONLY <2>10, <2>12, <2>14, SequencesEqual
    <2> QED BY <2>5, <2>15 DEF f, h
  <1> HIDE DEF I
  <1>3. Nat \subseteq I BY <1>1, <1>2, Flattening!Induction
  <1>4. ASSUME NEW s \in Seq(Seq(S)), Single(s) PROVE FlattenSeq(s) = Firsts(s)
    <2>1. Len(s) \in I BY <1>3
    <2> QED BY <1>4, <2>1 DEF I
  <1> QED BY <1>4

\* The text of a name is a text: a component that is not blank has segments.
LEMMA TextOfName ==
    ASSUME NEW n \in Names
    PROVE  NameToString(n) \in Texts
  <1> DEFINE blank == {i \in DOMAIN n : \A j \in 1 .. i : n[j].text = <<Empty>>}
             texts == [i \in DOMAIN n |-> IF i \in blank THEN <<>> ELSE n[i].text]
  <1>1. n \in Seq(Component) BY DEF Names
  <1>2. \A i \in 1 .. Len(n) : n[i].text \in Seq(Segments) /\ n[i].text # <<>>
    <2>1. \A i \in 1 .. Len(n) : n[i] \in Component BY <1>1
    <2> QED BY <2>1 DEF Component, Texts
  <1>3. texts \in Seq(Seq(Segments)) /\ DOMAIN texts = DOMAIN n
    <2>1. Len(n) \in Nat /\ texts = [i \in 1 .. Len(n) |-> texts[i]] BY <1>1
    <2>2. \A i \in 1 .. Len(n) : texts[i] = IF i \in blank THEN <<>> ELSE n[i].text BY <1>1
    <2>3. <<>> \in Seq(Segments) OBVIOUS
    <2>4. \A i \in 1 .. Len(n) : texts[i] \in Seq(Segments) BY <1>2, <2>2, <2>3
    <2>5. DOMAIN texts = DOMAIN n OBVIOUS
    <2> HIDE DEF texts
    <2> QED BY <2>1, <2>4, <2>5, SequenceOf
  <1>4. CASE blank = DOMAIN n
    <2>1. NameToString(n) = <<Empty>> BY <1>4 DEF NameToString
    <2>2. <<Empty>> \in Seq(Segments) /\ <<Empty>> # <<>> BY NumeralsAssumption
    <2> QED BY <2>1, <2>2 DEF Texts
  <1>5. CASE blank # DOMAIN n
    <2>1. NameToString(n) = FlattenSeq(texts) BY <1>5 DEF NameToString
    <2>2. PICK i \in DOMAIN n : i \notin blank BY <1>5
    <2>3. texts[i] = n[i].text BY <2>2
    <2>4. n[i].text \in Seq(Segments) /\ n[i].text # <<>> BY <1>1, <1>2
    <2>5. Elems(texts[i]) # {}
      <3>1. 1 \in DOMAIN n[i].text BY <2>4
      <3> QED BY <2>3, <3>1 DEF Elems
    <2> HIDE DEF texts, blank
    <2>6. Elems(FlattenSeq(texts)) = UNION {Elems(texts[j]) : j \in DOMAIN texts} BY <1>3, FlattenElems
    <2>7. Elems(FlattenSeq(texts)) # {} BY <1>3, <2>5, <2>6
    <2>8. FlattenSeq(texts) # <<>>
      <3>1. Elems(<<>>) = {} BY DEF Elems
      <3> QED BY <2>7, <3>1
    <2>9. FlattenSeq(texts) \in Seq(Segments)
      <3>1. <<>> \in Seq(Segments) OBVIOUS
      <3> QED BY <1>3, <3>1, FlattenAppend
    <2> QED BY <2>1, <2>8, <2>9 DEF Texts
  <1> QED BY <1>4, <1>5

\* The name of a text is a name.
LEMMA NameOfText ==
    ASSUME NEW t \in Texts
    PROVE  NameFromStr(t) \in Names
  <1>1. \A s \in Segments : ComponentOf(s) \in Component
    <2> SUFFICES ASSUME NEW s \in Segments PROVE ComponentOf(s) \in Component OBVIOUS
    <2>1. CASE s \in Numerals
      <3>1. Canonical[s] \in Segments BY <2>1, NumeralsAssumption
      <3> QED BY <2>1, <3>1 DEF ComponentOf, Component, Texts
    <2>2. CASE s \notin Numerals BY <2>2 DEF ComponentOf, Component, Texts
    <2> QED BY <2>1, <2>2
  <1>2. t \in Seq(Segments) BY DEF Texts
  <1>3. \A i \in 1 .. Len(t) : ComponentOf(t[i]) \in Component BY <1>1, <1>2
  <1> QED BY <1>2, <1>3 DEF NameFromStr, Names

\* The text of a plain name stands for that name.
LEMMA PlainNames ==
    ASSUME NEW n \in Names, Plain(n),
           \A j \in DOMAIN n : n[j].num => \E s \in Numerals : n[j].text = <<Canonical[s]>>
    PROVE  NameFromStr(NameToString(n)) = n
  <1> DEFINE texts == [i \in DOMAIN n |-> n[i].text]
             blank == {i \in DOMAIN n : \A j \in 1 .. i : n[j].text = <<Empty>>}
  <1>1. n \in Seq(Component) BY DEF Names
  <1>2. texts \in Seq(Seq(Segments))
    <2>1. \A i \in 1 .. Len(n) : n[i] \in Component BY <1>1
    <2>2. Len(n) \in Nat /\ texts = [i \in 1 .. Len(n) |-> texts[i]] BY <1>1
    <2>3. \A i \in 1 .. Len(n) : texts[i] = n[i].text BY <1>1
    <2>4. \A i \in 1 .. Len(n) : texts[i] \in Seq(Segments) BY <2>1, <2>3 DEF Component, Texts
    <2> HIDE DEF texts
    <2> QED BY <2>2, <2>4, SequenceOf
  <1>3. \A i \in DOMAIN n : Len(n[i].text) = 1
    <2> SUFFICES ASSUME NEW i \in DOMAIN n PROVE Len(n[i].text) = 1 OBVIOUS
    <2>1. CASE n[i].num BY <2>1
    <2>2. CASE ~n[i].num BY <2>2 DEF Plain
    <2> QED BY <2>1, <2>2
  <1>9. blank = {} /\ DOMAIN n # {}
    <2>1. n # <<>> /\ n[1].text # <<Empty>> BY DEF Plain
    <2>2. \A i \in DOMAIN n : 1 \in 1 .. i BY <1>1
    <2>3. DOMAIN n # {} BY <1>1, <2>1
    <2> QED BY <2>1, <2>2, <2>3
  <1>4. NameToString(n) = [i \in DOMAIN n |-> n[i].text[1]]
    <2>1. DOMAIN texts = DOMAIN n /\ \A i \in DOMAIN n : texts[i] = n[i].text OBVIOUS
    <2> HIDE DEF texts
    <2>2. FlattenSeq(texts) = [i \in DOMAIN texts |-> texts[i][1]]
      <3>1. \A i \in DOMAIN texts : Len(texts[i]) = 1 BY <1>3, <2>1
      <3>2. \A s \in Seq(Seq(Segments)) :
               (\A i \in DOMAIN s : Len(s[i]) = 1) => FlattenSeq(s) = [i \in DOMAIN s |-> s[i][1]]
        BY FlattenSingles
      <3> QED BY <1>2, <3>1, <3>2
    <2>3. FlattenSeq(texts) = [i \in DOMAIN n |-> n[i].text[1]] BY <2>1, <2>2
    <2>4. NameToString(n) = FlattenSeq([i \in DOMAIN n |-> IF i \in blank THEN <<>> ELSE n[i].text])
      BY <1>9 DEF NameToString
    <2>5. [i \in DOMAIN n |-> IF i \in blank THEN <<>> ELSE n[i].text] = texts BY <1>9 DEF texts
    <2> QED BY <2>3, <2>4, <2>5
  <1>5. \A i \in DOMAIN n : ComponentOf(n[i].text[1]) = n[i]
    <2> SUFFICES ASSUME NEW i \in DOMAIN n PROVE ComponentOf(n[i].text[1]) = n[i] OBVIOUS
    <2>1. n[i] \in Component BY <1>1
    <2>2. n[i].text \in Seq(Segments) /\ n[i].text = <<n[i].text[1]>> BY <1>3, <2>1 DEF Component, Texts
    <2>3. n[i] = [num |-> n[i].num, text |-> n[i].text] /\ n[i].num \in BOOLEAN BY <2>1 DEF Component
    <2>4. CASE n[i].num
      <3>1. PICK s \in Numerals : n[i].text = <<Canonical[s]>> BY <2>4
      <3>2. n[i].text[1] = Canonical[s] /\ Canonical[s] \in Numerals BY <3>1, NumeralsAssumption
      <3>3. ComponentOf(n[i].text[1]) = [num |-> TRUE, text |-> <<Canonical[s]>>]
        BY <3>2, NumeralsAssumption DEF ComponentOf
      <3> QED BY <2>3, <2>4, <3>1, <3>3
    <2>5. CASE ~n[i].num
      <3>1. n[i].text[1] \notin Numerals BY <2>5 DEF Plain
      <3> QED BY <2>2, <2>3, <2>5, <3>1 DEF ComponentOf
    <2> QED BY <2>3, <2>4, <2>5
  <1>6. NameFromStr(NameToString(n)) = [i \in DOMAIN n |-> n[i]] BY <1>4, <1>5 DEF NameFromStr
  <1> QED BY <1>1, <1>6

\* A filter keeps the elements at its places.
LEMMA AtFacts ==
    ASSUME NEW S, NEW s \in Seq(S), NEW places
    PROVE  At(s, places) \in Seq(S) /\ Elems(At(s, places)) = {s[i] : i \in places \cap DOMAIN s}
  <1> DEFINE u == [i \in DOMAIN s |-> IF i \in places THEN <<s[i]>> ELSE <<>>]
  <1>1. u \in Seq(Seq(S))
    <2>1. \A i \in 1 .. Len(s) : (IF i \in places THEN <<s[i]>> ELSE <<>>) \in Seq(S) OBVIOUS
    <2>2. Len(s) \in Nat /\ u = [i \in 1 .. Len(s) |-> u[i]] OBVIOUS
    <2>3. \A i \in 1 .. Len(s) : u[i] \in Seq(S) BY <2>1
    <2> HIDE DEF u
    <2> QED BY <2>2, <2>3, SequenceOf
  <1>2. DOMAIN u = DOMAIN s OBVIOUS
  <1>3. \A i \in DOMAIN s : Elems(u[i]) = IF i \in places THEN {s[i]} ELSE {} BY DEF Elems
  <1>4. At(s, places) = FlattenSeq(u) BY DEF At
  <1> HIDE DEF u
  <1>5. <<>> \in Seq(S) OBVIOUS
  <1>6. FlattenSeq(u) \in Seq(S) BY <1>1, <1>5, FlattenAppend
  <1>7. Elems(FlattenSeq(u)) = UNION {Elems(u[i]) : i \in DOMAIN u} BY <1>1, FlattenElems
  <1>8. UNION {Elems(u[i]) : i \in DOMAIN u} = {s[i] : i \in places \cap DOMAIN s} BY <1>2, <1>3
  <1> QED BY <1>4, <1>6, <1>7, <1>8

\* What is asked for is a sequence of requests.
LEMMA RequestTypes ==
    ASSUME TypeOK, config \in Configs
    PROVE  ListedRequests \in Seq(Request) /\ AxiomRequests \in Seq(Request) /\ AllRequests \in Seq(Request)
  <1>1. ListedRequests \in Seq(Request)
    <2>1. CASE config.pp_declars = {}
      <3>1. <<>> \in Seq(Request) OBVIOUS
      <3> QED BY <2>1, <3>1 DEF ListedRequests
    <2>2. CASE config.pp_declars # {}
      <3> DEFINE p == CHOOSE q \in config.pp_declars : TRUE
                 s == [i \in DOMAIN p |-> [text |-> p[i], name |-> NameFromStr(p[i])]]
      <3>1. p \in config.pp_declars BY <2>2
      <3>2. p \in Seq(Texts) BY <3>1, InputsAssumption DEF Config
      <3> HIDE DEF p
      <3>3. \A i \in 1 .. Len(p) : p[i] \in Texts BY <3>2
      <3>4. \A i \in 1 .. Len(p) : NameFromStr(p[i]) \in Names BY <3>3, NameOfText
      <3>5. Len(p) \in Nat /\ s = [i \in 1 .. Len(p) |-> s[i]] BY <3>2
      <3>6. \A i \in 1 .. Len(p) : s[i] \in Request BY <3>2, <3>3, <3>4 DEF Request
      <3>7. s \in Seq(Request)
        <4> HIDE DEF s
        <4> QED BY <3>5, <3>6, SequenceOf
      <3> QED BY <2>2, <3>7 DEF ListedRequests, p
    <2> QED BY <2>1, <2>2
  <1>2. AxiomRequests \in Seq(Request)
    <2> DEFINE a == Axioms
               s == [i \in DOMAIN a |-> [text |-> NameToString(a[i].name), name |-> a[i].name]]
    <2>1. a \in Seq(Line) BY AtFacts DEF TypeOK, Axioms
    <2>2. AxiomRequests = s BY DEF AxiomRequests
    <2> HIDE DEF a
    <2>3. \A i \in 1 .. Len(a) : a[i] \in Line BY <2>1
    <2>4. \A i \in 1 .. Len(a) : a[i].name \in Names BY <2>3 DEF Line
    <2>5. \A i \in 1 .. Len(a) : NameToString(a[i].name) \in Texts BY <2>4, TextOfName
    <2>6. Len(a) \in Nat /\ s = [i \in 1 .. Len(a) |-> s[i]] BY <2>1
    <2>7. \A i \in 1 .. Len(a) : s[i] \in Request BY <2>1, <2>4, <2>5 DEF Request
    <2> HIDE DEF s
    <2>8. s \in Seq(Request) BY <2>6, <2>7, SequenceOf
    <2> QED BY <2>2, <2>8
  <1>3. AllRequests \in Seq(Request)
    <2>1. <<>> \in Seq(Request) OBVIOUS
    <2> QED BY <1>1, <1>2, <2>1 DEF AllRequests
  <1> QED BY <1>1, <1>2, <1>3

\* The axioms of the declarations.
LEMMA AxiomsAre ==
    ASSUME TypeOK
    PROVE  /\ Axioms \in Seq(Line)
           /\ Elems(Axioms) = {d \in Elems(declars) : d.axiom}
  <1> DEFINE places == {i \in DOMAIN declars : declars[i].axiom}
  <1>1. declars \in Seq(Line) BY DEF TypeOK
  <1>2. At(declars, places) \in Seq(Line) /\ Elems(At(declars, places)) = {declars[i] : i \in places \cap DOMAIN declars}
    BY <1>1, AtFacts
  <1>3. {declars[i] : i \in places \cap DOMAIN declars} = {d \in Elems(declars) : d.axiom} BY DEF Elems
  <1> QED BY <1>2, <1>3 DEF Axioms

\* A sequence is a shorter one that it agrees with and its last element.
LEMMA AppendOf ==
    ASSUME NEW T, NEW f \in Seq(T), NEW g \in Seq(T), Len(f) = Len(g) + 1,
           \A i \in 1 .. Len(g) : f[i] = g[i]
    PROVE  f = Append(g, f[Len(f)])
  <1> DEFINE n == Len(g)
             h == Append(g, f[n + 1])
  <1>1. n \in Nat /\ f[n + 1] \in T OBVIOUS
  <1>2. h \in Seq(T) /\ Len(h) = n + 1 /\ h[n + 1] = f[n + 1] /\ \A i \in 1 .. n : h[i] = g[i] BY <1>1
  <1> HIDE DEF h
  <1>3. \A i \in 1 .. n + 1 : i = n + 1 \/ i \in 1 .. n BY <1>1
  <1>4. \A i \in 1 .. Len(f) : f[i] = h[i] BY <1>2, <1>3
  <1>5. f = h BY <1>2, <1>4, SequencesEqual
  <1> QED BY <1>5 DEF h

\* A filter of one element more.
LEMMA AtAppend ==
    ASSUME NEW S, NEW s \in Seq(S), NEW e \in S, NEW P, NEW Q,
           \A i \in DOMAIN s : i \in P <=> i \in Q
    PROVE  At(Append(s, e), P) = IF Len(s) + 1 \in P THEN Append(At(s, Q), e) ELSE At(s, Q)
  <1> DEFINE t == Append(s, e)
             u == [i \in DOMAIN s |-> IF i \in Q THEN <<s[i]>> ELSE <<>>]
             v == [i \in DOMAIN t |-> IF i \in P THEN <<t[i]>> ELSE <<>>]
             n == Len(s)
  <1>1. n \in Nat /\ DOMAIN s = 1 .. n /\ DOMAIN t = 1 .. n + 1 /\ t[n + 1] = e
        /\ (\A i \in 1 .. n : t[i] = s[i] /\ s[i] \in S)
    OBVIOUS
  <1>2. \A i \in 1 .. n + 1 : v[i] \in Seq(S)
    <2>1. \A x \in S : <<x>> \in Seq(S) OBVIOUS
    <2>2. <<>> \in Seq(S) OBVIOUS
    <2>3. \A i \in 1 .. n + 1 : t[i] \in S OBVIOUS
    <2>4. \A i \in 1 .. n + 1 : v[i] = IF i \in P THEN <<t[i]>> ELSE <<>> BY <1>1
    <2> HIDE DEF t, v, n
    <2> QED BY <2>1, <2>2, <2>3, <2>4
  <1>3. v[n + 1] = IF n + 1 \in P THEN <<e>> ELSE <<>> BY <1>1
  <1>4. v = [i \in 1 .. n + 1 |-> v[i]] /\ u = [i \in 1 .. n |-> u[i]] BY <1>1
  <1>5. \A i \in 1 .. n : v[i] = u[i]
    <2>1. \A i \in 1 .. n : u[i] = IF i \in Q THEN <<s[i]>> ELSE <<>> BY <1>1
    <2>2. \A i \in 1 .. n : i \in DOMAIN t /\ v[i] = IF i \in P THEN <<t[i]>> ELSE <<>> BY <1>1
    <2> HIDE DEF t, u, v, n
    <2> QED BY <1>1, <2>1, <2>2
  <1>6. At(s, Q) = FlattenSeq(u) /\ At(t, P) = FlattenSeq(v) BY DEF At
  <1> HIDE DEF t, u, v, n
  <1>7. u \in Seq(Seq(S)) /\ v = Append(u, v[n + 1])
    <2> DEFINE T == Seq(S)
    <2>1. \A i \in 1 .. n + 1 : v[i] \in T BY <1>2
    <2> HIDE DEF T
    <2>2. n + 1 \in Nat /\ \A i \in 1 .. n : i \in 1 .. n + 1 BY <1>1
    <2>3. v \in Seq(T) /\ Len(v) = n + 1 BY <1>4, <2>1, <2>2, SequenceOf
    <2>4. \A i \in 1 .. n : u[i] \in T BY <1>5, <2>1, <2>2
    <2>5. u \in Seq(T) /\ Len(u) = n BY <1>1, <1>4, <2>4, SequenceOf
    <2>6. v = Append(u, v[n + 1]) BY <1>5, <2>3, <2>5, AppendOf
    <2> QED BY <2>5, <2>6 DEF T
  <1>8. FlattenSeq(u) \in Seq(S) /\ FlattenSeq(v) = FlattenSeq(u) \o v[n + 1]
    <2>1. v[n + 1] \in Seq(S) BY <1>1, <1>2
    <2>2. FlattenSeq(u) \in Seq(S) /\ FlattenSeq(Append(u, v[n + 1])) = FlattenSeq(u) \o v[n + 1]
      BY <1>7, <2>1, FlattenAppend
    <2> QED BY <1>7, <2>2
  <1>9. FlattenSeq(u) \o <<e>> = Append(FlattenSeq(u), e) /\ FlattenSeq(u) \o <<>> = FlattenSeq(u) BY <1>8
  <1>10. At(t, P) = IF n + 1 \in P THEN Append(At(s, Q), e) ELSE At(s, Q) BY <1>3, <1>6, <1>8, <1>9
  <1> QED BY <1>10 DEF t, n

\* Everything is kept by a filter for every place.
LEMMA AtAll ==
    ASSUME NEW S, NEW s \in Seq(S)
    PROVE  At(s, DOMAIN s) = s
  <1> DEFINE u == [i \in DOMAIN s |-> IF i \in DOMAIN s THEN <<s[i]>> ELSE <<>>]
  <1>1. DOMAIN u = DOMAIN s /\ \A i \in DOMAIN s : u[i] = <<s[i]>> OBVIOUS
  <1>2. u \in Seq(Seq(S))
    <2>1. Len(s) \in Nat /\ u = [i \in 1 .. Len(s) |-> u[i]] /\ DOMAIN s = 1 .. Len(s) OBVIOUS
    <2>2. \A i \in 1 .. Len(s) : <<s[i]>> \in Seq(S)
      <3>1. \A i \in 1 .. Len(s) : s[i] \in S OBVIOUS
      <3>2. \A x \in S : <<x>> \in Seq(S) OBVIOUS
      <3> QED BY <3>1, <3>2
    <2> HIDE DEF u
    <2>3. \A i \in 1 .. Len(s) : u[i] \in Seq(S) BY ONLY <1>1, <2>1, <2>2
    <2> QED BY <2>1, <2>3, SequenceOf
  <1>3. At(s, DOMAIN s) = FlattenSeq(u) BY DEF At
  <1> HIDE DEF u
  <1>4. \A i \in DOMAIN u : Len(u[i]) = 1 /\ u[i][1] = s[i]
    <2>1. \A x : Len(<<x>>) = 1 /\ <<x>>[1] = x OBVIOUS
    <2> QED BY ONLY <1>1, <2>1
  <1>5. FlattenSeq(u) = [i \in DOMAIN u |-> u[i][1]] BY <1>2, <1>4, FlattenSingles
  <1>6. [i \in DOMAIN u |-> u[i][1]] = [i \in DOMAIN s |-> s[i]] BY <1>1, <1>4
  <1> QED BY <1>3, <1>5, <1>6

\* The names of one element more.
LEMMA NamesAppend ==
    ASSUME NEW S, \A x \in S : x.name \in Names, NEW s \in Seq(S), NEW e \in S
    PROVE  NamesOf(s) \in Seq(Names) /\ NamesOf(Append(s, e)) = Append(NamesOf(s), e.name)
  <1> DEFINE t == Append(s, e)
             g == NamesOf(s)
             f == NamesOf(t)
             n == Len(s)
  <1>1. n \in Nat /\ DOMAIN s = 1 .. n /\ DOMAIN t = 1 .. n + 1 /\ t[n + 1] = e
        /\ (\A i \in 1 .. n : t[i] = s[i]) /\ (\A i \in 1 .. n + 1 : t[i] \in S)
    OBVIOUS
  <1> HIDE DEF t, n
  <1>2. f = [i \in 1 .. n + 1 |-> f[i]] /\ \A i \in 1 .. n + 1 : f[i] = t[i].name BY <1>1 DEF NamesOf
  <1>3. g = [i \in 1 .. n |-> g[i]] /\ \A i \in 1 .. n : g[i] = s[i].name BY <1>1 DEF NamesOf
  <1> HIDE DEF f, g
  <1>4. \A i \in 1 .. n + 1 : f[i] \in Names BY <1>1, <1>2
  <1>5. \A i \in 1 .. n : f[i] = g[i] BY <1>1, <1>2, <1>3
  <1>6. f \in Seq(Names) /\ Len(f) = n + 1
    <2>1. n + 1 \in Nat BY <1>1
    <2> QED BY <1>2, <1>4, <2>1, SequenceOf
  <1>8. g \in Seq(Names) /\ Len(g) = n
    <2>1. \A i \in 1 .. n : i \in 1 .. n + 1 BY <1>1
    <2>2. \A i \in 1 .. n : g[i] \in Names BY <1>4, <1>5, <2>1
    <2> QED BY <1>1, <1>3, <2>2, SequenceOf
  <1>9. f = Append(g, f[n + 1]) BY <1>5, <1>6, <1>8, AppendOf
  <1>7. f[n + 1] = e.name BY <1>1, <1>2
  <1> QED BY <1>7, <1>8, <1>9 DEF f, g, t

\* What is written for one element more.
LEMMA WrittenAppend ==
    ASSUME NEW s \in Seq(Line), NEW e \in Line
    PROVE  WrittenNames(Append(s, e)) = Append(WrittenNames(s), NameToString(e.name))
  <1> DEFINE t == Append(s, e)
             g == WrittenNames(s)
             f == WrittenNames(t)
             n == Len(s)
  <1>1. n \in Nat /\ DOMAIN s = 1 .. n /\ DOMAIN t = 1 .. n + 1 /\ t[n + 1] = e
        /\ (\A i \in 1 .. n : t[i] = s[i]) /\ (\A i \in 1 .. n + 1 : t[i] \in Line)
    OBVIOUS
  <1> HIDE DEF t, n
  <1>2. f = [i \in 1 .. n + 1 |-> f[i]] /\ \A i \in 1 .. n + 1 : f[i] = NameToString(t[i].name)
    BY <1>1 DEF WrittenNames
  <1>3. g = [i \in 1 .. n |-> g[i]] /\ \A i \in 1 .. n : g[i] = NameToString(s[i].name) BY <1>1 DEF WrittenNames
  <1> HIDE DEF f, g
  <1>4. \A i \in 1 .. n + 1 : f[i] \in Texts
    <2>1. \A i \in 1 .. n + 1 : t[i].name \in Names BY <1>1 DEF Line
    <2> QED BY <1>2, <2>1, TextOfName
  <1>5. \A i \in 1 .. n : f[i] = g[i] BY <1>1, <1>2, <1>3
  <1>6. f \in Seq(Texts) /\ Len(f) = n + 1
    <2>1. n + 1 \in Nat BY <1>1
    <2> QED BY <1>2, <1>4, <2>1, SequenceOf
  <1>8. g \in Seq(Texts) /\ Len(g) = n
    <2>1. \A i \in 1 .. n : i \in 1 .. n + 1 BY <1>1
    <2>2. \A i \in 1 .. n : g[i] \in Texts BY <1>4, <1>5, <2>1
    <2> QED BY <1>1, <1>3, <2>2, SequenceOf
  <1>9. f = Append(g, f[n + 1]) BY <1>5, <1>6, <1>8, AppendOf
  <1>7. f[n + 1] = NameToString(e.name) BY <1>1, <1>2
  <1> QED BY <1>7, <1>8, <1>9 DEF f, g, t

\* The error of one request more.
ErrorOf(r) == [kind |-> IF r.name \in DeclaredNames THEN "write" ELSE "not_found", text |-> r.text]

LEMMA ErrorsAppend ==
    ASSUME NEW s \in Seq(Request), NEW r \in Request
    PROVE  ErrorsOf(s) \in Seq(Error) /\ ErrorsOf(Append(s, r)) = Append(ErrorsOf(s), ErrorOf(r))
  <1> DEFINE t == Append(s, r)
             g == ErrorsOf(s)
             f == ErrorsOf(t)
             n == Len(s)
  <1>1. n \in Nat /\ DOMAIN s = 1 .. n /\ DOMAIN t = 1 .. n + 1 /\ t[n + 1] = r
        /\ (\A i \in 1 .. n : t[i] = s[i]) /\ (\A i \in 1 .. n + 1 : t[i] \in Request)
    OBVIOUS
  <1> HIDE DEF t, n
  <1>2. f = [i \in 1 .. n + 1 |-> f[i]] /\ \A i \in 1 .. n + 1 : f[i] = ErrorOf(t[i])
    BY <1>1 DEF ErrorsOf, ErrorOf
  <1>3. g = [i \in 1 .. n |-> g[i]] /\ \A i \in 1 .. n : g[i] = ErrorOf(s[i]) BY <1>1 DEF ErrorsOf, ErrorOf
  <1> HIDE DEF f, g
  <1>4. \A i \in 1 .. n + 1 : f[i] \in Error
    <2>1. \A q \in Request : ErrorOf(q) \in Error BY DEF ErrorOf, Error, Request
    <2> QED BY <1>1, <1>2, <2>1
  <1>5. \A i \in 1 .. n : f[i] = g[i] BY <1>1, <1>2, <1>3
  <1>6. f \in Seq(Error) /\ Len(f) = n + 1
    <2>1. n + 1 \in Nat BY <1>1
    <2> QED BY <1>2, <1>4, <2>1, SequenceOf
  <1>8. g \in Seq(Error) /\ Len(g) = n
    <2>1. \A i \in 1 .. n : i \in 1 .. n + 1 BY <1>1
    <2>2. \A i \in 1 .. n : g[i] \in Error BY <1>4, <1>5, <2>1
    <2> QED BY <1>1, <1>3, <2>2, SequenceOf
  <1>9. f = Append(g, f[n + 1]) BY <1>5, <1>6, <1>8, AppendOf
  <1>7. f[n + 1] = ErrorOf(r) BY <1>1, <1>2
  <1> QED BY <1>7, <1>8, <1>9 DEF f, g, t

\* One line more adds an axiom to those of its sort, or nothing.
LEMMA AxiomsOfAppend ==
    ASSUME NEW s \in Seq(Line), NEW l \in Line, NEW permitted \in BOOLEAN
    PROVE  /\ AxiomsOf(s, permitted) \in Seq(Line)
           /\ AxiomsOf(Append(s, l), permitted) =
                 IF l.axiom /\ (permitted <=> AxiomPermitted(l.name))
                 THEN Append(AxiomsOf(s, permitted), l) ELSE AxiomsOf(s, permitted)
  <1> DEFINE t == Append(s, l)
             wanted(x) == x.axiom /\ (permitted <=> AxiomPermitted(x.name))
             P == {i \in DOMAIN t : wanted(t[i])}
             Q == {i \in DOMAIN s : wanted(s[i])}
  <1>1. Len(s) \in Nat /\ DOMAIN s = 1 .. Len(s) /\ DOMAIN t = 1 .. Len(s) + 1 /\ t[Len(s) + 1] = l
        /\ (\A i \in 1 .. Len(s) : t[i] = s[i])
    OBVIOUS
  <1>2. AxiomsOf(s, permitted) = At(s, Q) /\ AxiomsOf(t, permitted) = At(t, P) BY DEF AxiomsOf
  <1>3. Len(s) + 1 \in P <=> wanted(l)
    <2> HIDE DEF t, wanted
    <2> QED BY <1>1
  <1>4. \A i \in DOMAIN s : i \in P <=> i \in Q
    <2> HIDE DEF t, wanted
    <2> QED BY <1>1
  <1>5. At(s, Q) \in Seq(Line)
    <2> HIDE DEF Q
    <2> QED BY AtFacts
  <1>6. At(t, P) = IF Len(s) + 1 \in P THEN Append(At(s, Q), l) ELSE At(s, Q)
    <2> HIDE DEF P, Q
    <2> QED BY <1>4, AtAppend DEF t
  <1> QED BY <1>2, <1>3, <1>5, <1>6

\* One declaration more.
LEMMA AxiomsAppend ==
    ASSUME TypeOK, NEW l \in Line, declars' = Append(declars, l)
    PROVE  Axioms' = IF l.axiom THEN Append(Axioms, l) ELSE Axioms
  <1> DEFINE t == Append(declars, l)
             P == {i \in DOMAIN t : t[i].axiom}
             Q == {i \in DOMAIN declars : declars[i].axiom}
  <1>1. declars \in Seq(Line) BY DEF TypeOK
  <1>2. Len(declars) \in Nat /\ DOMAIN declars = 1 .. Len(declars) /\ DOMAIN t = 1 .. Len(declars) + 1
        /\ t[Len(declars) + 1] = l /\ (\A i \in 1 .. Len(declars) : t[i] = declars[i])
    BY <1>1
  <1>3. Axioms = At(declars, Q) BY DEF Axioms
  <1>4. Axioms' = At(t, P)
    <2>1. Axioms' = At(declars', {i \in DOMAIN declars' : (declars')[i].axiom}) BY DEF Axioms, At
    <2> QED BY <2>1
  <1>5. Len(declars) + 1 \in P <=> l.axiom BY <1>2
  <1>6. \A i \in DOMAIN declars : i \in P <=> i \in Q
    <2> HIDE DEF t
    <2> QED BY <1>2
  <1>7. At(t, P) = IF Len(declars) + 1 \in P THEN Append(At(declars, Q), l) ELSE At(declars, Q)
    <2> HIDE DEF P, Q
    <2> QED BY <1>1, <1>6, AtAppend DEF t
  <1> QED BY <1>3, <1>4, <1>5, <1>7

\* One line more has been read.
LEMMA OneLineMore ==
    ASSUME NEW s \in Seq(Line), NEW k \in Nat, k + 1 <= Len(s)
    PROVE  /\ SubSeq(s, 1, k) \in Seq(Line) /\ s[k + 1] \in Line
           /\ SubSeq(s, 1, k + 1) = Append(SubSeq(s, 1, k), s[k + 1])
  <1> DEFINE f == SubSeq(s, 1, k + 1)
             g == SubSeq(s, 1, k)
  <1>1. Len(s) \in Nat /\ \A i \in 1 .. k + 1 : s[i] \in Line OBVIOUS
  <1>2. f = [i \in 1 .. k + 1 |-> f[i]] /\ \A i \in 1 .. k + 1 : f[i] = s[i] BY <1>1
  <1>3. g = [i \in 1 .. k |-> g[i]] /\ \A i \in 1 .. k : g[i] = s[i] BY <1>1
  <1> HIDE DEF f, g
  <1>4. k + 1 \in Nat /\ k + 1 \in 1 .. k + 1 /\ \A i \in 1 .. k : i \in 1 .. k + 1 OBVIOUS
  <1>5. \A i \in 1 .. k : f[i] = g[i] BY <1>2, <1>3, <1>4
  <1>6. f \in Seq(Line) /\ Len(f) = k + 1
    <2>1. \A i \in 1 .. k + 1 : f[i] \in Line BY <1>1, <1>2
    <2> QED BY <1>2, <1>4, <2>1, SequenceOf
  <1>7. g \in Seq(Line) /\ Len(g) = k
    <2>1. \A i \in 1 .. k : g[i] \in Line BY <1>1, <1>3, <1>4
    <2> QED BY <1>3, <2>1, SequenceOf
  <1>8. f[k + 1] = s[k + 1] /\ s[k + 1] \in Line BY <1>1, <1>2, <1>4
  <1>9. f = Append(g, f[k + 1]) BY <1>5, <1>6, <1>7, AppendOf
  <1> QED BY <1>7, <1>8, <1>9 DEF f, g

\* A buffer is what is flushed followed by what is not.
LEMMA FlushedAndNot ==
    ASSUME NEW S, NEW s \in Seq(S), NEW k \in 0 .. Len(s)
    PROVE  /\ SubSeq(s, 1, k) \in Seq(S) /\ SubSeq(s, k + 1, Len(s)) \in Seq(S)
           /\ s = SubSeq(s, 1, k) \o SubSeq(s, k + 1, Len(s))
  <1> DEFINE f == SubSeq(s, 1, k)
             g == SubSeq(s, k + 1, Len(s))
  <1>1. k \in Nat /\ k <= Len(s) /\ Len(s) \in Nat OBVIOUS
  <1>2. \A i \in 1 .. Len(s) : s[i] \in S OBVIOUS
  <1>3. \A i \in 1 .. k : s[i] \in S BY <1>1, <1>2
  <1>4. \A i \in k + 1 .. Len(s) : s[i] \in S BY <1>1, <1>2
  <1>5. f \in Seq(S) /\ Len(f) = k /\ \A i \in 1 .. k : f[i] = s[i] BY <1>1, <1>3
  <1>6. g \in Seq(S) /\ Len(g) = Len(s) - k /\ \A i \in 1 .. Len(s) - k : g[i] = s[k + i]
    BY <1>1, <1>4
  <1> HIDE DEF f, g
  <1>7. /\ f \o g \in Seq(S) /\ Len(f \o g) = Len(f) + Len(g)
        /\ \A i \in 1 .. Len(f) + Len(g) : (f \o g)[i] = IF i <= Len(f) THEN f[i] ELSE g[i - Len(f)]
    BY <1>5, <1>6, ConcatFacts
  <1>8. Len(f \o g) = Len(s) BY <1>1, <1>5, <1>6, <1>7
  <1>9. ASSUME NEW i \in 1 .. Len(s) PROVE s[i] = (f \o g)[i]
    <2>1. CASE i <= k BY <1>1, <1>5, <1>6, <1>7, <2>1
    <2>2. CASE ~(i <= k)
      <3>1. i - k \in 1 .. Len(s) - k /\ k + (i - k) = i BY <1>1, <2>2
      <3>2. g[i - k] = s[i] BY <1>6, <3>1
      <3> QED BY <1>1, <1>5, <1>6, <1>7, <2>2, <3>2
    <2> QED BY <2>1, <2>2
  <1>10. s = f \o g BY <1>7, <1>8, <1>9, SequencesEqual
  <1> QED BY <1>5, <1>6, <1>10 DEF f, g

-----------------------------------------------------------------------------
(* The steps.                                                               *)

\* What is asked for, found and missed depends on the configuration and on what
\* was parsed alone.
LEMMA ReportKept ==
    ASSUME UNCHANGED rigid, UNCHANGED parsed
    PROVE  /\ AllRequests' = AllRequests /\ DeclaredNames' = DeclaredNames /\ UnknownRequests' = UnknownRequests
           /\ \A s : ErrorsOf(s)' = ErrorsOf(s) /\ Found(s)' = Found(s)
           /\ FromTheFile => FromTheFile'
  <1>1. DeclaredNames' = DeclaredNames BY DEF parsed, DeclaredNames
  <1>2. Axioms' = Axioms BY DEF parsed, Axioms
  <1>3. AxiomRequests' = AxiomRequests BY <1>2 DEF AxiomRequests
  <1>4. ListedRequests' = ListedRequests BY DEF rigid, ListedRequests
  <1>5. AllRequests' = AllRequests BY <1>3, <1>4 DEF AllRequests, rigid
  <1>6. UnknownRequests' = UnknownRequests BY <1>1 DEF UnknownRequests, DeclaredTexts, rigid
  <1>7. \A s : ErrorsOf(s)' = ErrorsOf(s) /\ Found(s)' = Found(s) BY <1>1 DEF ErrorsOf, Found
  <1>8. FromTheFile => FromTheFile'
    <2>1. ReadLines' = ReadLines BY DEF rigid, parsed, ReadLines
    <2>2. \A n : AxiomPermitted(n)' = AxiomPermitted(n) BY DEF rigid, AxiomPermitted
    <2>3. /\ AxiomsOf(ReadLines, TRUE)' = AxiomsOf(ReadLines, TRUE)
          /\ AxiomsOf(ReadLines, FALSE)' = AxiomsOf(ReadLines, FALSE)
      BY <2>1, <2>2 DEF AxiomsOf
    <2>4. WrittenNames(AxiomsOf(ReadLines, FALSE))' = WrittenNames(AxiomsOf(ReadLines, FALSE))
      BY <2>3 DEF WrittenNames
    <2> QED BY <1>2, <2>2, <2>3, <2>4 DEF FromTheFile, rigid, parsed
  <1> QED BY <1>1, <1>5, <1>6, <1>7, <1>8

\* A step that prints nothing, before anything is printed.
LEMMA QuietStep ==
    ASSUME IInv, PrintInv, stage \in Early, UNCHANGED printing, UNCHANGED rigid,
           \/ stage' \in Early /\ exit' = exit
           \/ stage' = "over" /\ exit' \in {"error", "panic", "declined"}
    PROVE  PrintingTypes' /\ NothingYet' /\ Progress' /\ NotAsked'
  <1>1. exit = "none" BY DEF IInv, StageInv, Early
  <1>2. stage' \in Stages /\ exit' \in {"none", "ok", "error", "panic", "declined"} BY <1>1 DEF Early, Stages
  <1>3. PrintingTypes' BY <1>2 DEF PrintInv, PrintingTypes, printing, rigid
  <1>4. NothingYet' BY DEF PrintInv, NothingYet, printing
  <1>5. ~Selected' BY <1>1 DEF Selected, Early
  <1> QED BY <1>3, <1>4, <1>5 DEF Progress, NotAsked

\* The steps before the selection.
LEMMA EarlyInv ==
    ASSUME IInv, PrintInv,
           ReadConfig \/ OpenDestination \/ OpenExportFile \/ ReadLine \/ EndOfFile \/ CheckAllDeclars
    PROVE  PrintInv'
  <1>1. stage \in Early
    BY DEF ReadConfig, OpenDestination, OpenExportFile, ReadLine, EndOfFile, CheckAllDeclars, Early
  <1>2. ASSUME \E how \in {"error", "panic", "declined"} : Fail(how) PROVE PrintInv'
    <2>1. UNCHANGED rigid /\ UNCHANGED printing /\ UNCHANGED parsed /\ stage' = "over" /\ exit' \in {"error", "panic", "declined"}
      BY <1>2 DEF Fail, End
    <2>2. PrintingTypes' /\ NothingYet' /\ Progress' /\ NotAsked' BY <1>1, <2>1, QuietStep
    <2>3. FromTheFile' BY <2>1, ReportKept DEF PrintInv
    <2>4. Passed' BY <2>1 DEF Passed
    <2> QED BY <2>2, <2>3, <2>4 DEF PrintInv
  <1>3. ASSUME NEW next \in Early, Continue(next), UNCHANGED parsed, next \in {"check", "select"} => Passed'
        PROVE  PrintInv'
    <2>1. UNCHANGED rigid /\ UNCHANGED printing /\ stage' = next /\ exit' = exit /\ stage' \in Early BY <1>3 DEF Continue
    <2>2. PrintingTypes' /\ NothingYet' /\ Progress' /\ NotAsked' BY <1>1, <2>1, QuietStep
    <2>3. FromTheFile' BY <1>3, <2>1, ReportKept DEF PrintInv
    <2>4. Passed'
      <3>1. exit = "none" BY <1>1 DEF IInv, StageInv, Early
      <3> QED BY <1>3, <2>1, <3>1 DEF Passed, Early
    <2> QED BY <2>2, <2>3, <2>4 DEF PrintInv
  <1>4. CASE ReadConfig BY <1>2, <1>3, <1>4 DEF ReadConfig, Early
  <1>5. CASE OpenDestination BY <1>2, <1>3, <1>5 DEF OpenDestination, Early
  <1>6. CASE OpenExportFile BY <1>2, <1>3, <1>6 DEF OpenExportFile, Early
  <1>7. CASE ReadLine
    <2> DEFINE l == world.lines[line_num + 1]
               wanted == l.axiom => AxiomPermitted(l.name)
    <2>1. CASE \E how \in {"error", "panic", "declined"} : Fail(how) BY <1>2, <2>1
    <2>4. /\ world.lines \in Seq(Line) /\ line_num + 1 \in 1 .. Len(world.lines)
          /\ ReadLines \in Seq(Line) /\ l \in Line /\ SubSeq(world.lines, 1, line_num + 1) = Append(ReadLines, l)
      <3>1. world.lines \in Seq(Line) BY DEF IInv, TypeOK, World
      <3>2. line_num \in Nat /\ line_num < Len(world.lines) /\ Len(world.lines) \in Nat
        BY <1>7, <3>1 DEF ReadLine, IInv, TypeOK
      <3>3. line_num + 1 <= Len(world.lines) BY <3>2
      <3> QED BY <3>1, <3>2, <3>3, OneLineMore DEF ReadLines
    <2>5. ASSUME Continue("lines"), line_num' = line_num + 1
          PROVE  /\ UNCHANGED rigid /\ \A n : AxiomPermitted(n)' = AxiomPermitted(n)
                 /\ \A permitted \in BOOLEAN :
                       AxiomsOf(ReadLines, permitted)' = IF l.axiom /\ (permitted <=> AxiomPermitted(l.name))
                                                         THEN Append(AxiomsOf(ReadLines, permitted), l)
                                                         ELSE AxiomsOf(ReadLines, permitted)
                 /\ PrintingTypes' /\ NothingYet' /\ Progress' /\ NotAsked' /\ Passed'
      <3>1. UNCHANGED rigid /\ UNCHANGED printing /\ stage' = "lines" /\ exit' = exit /\ stage' \in Early
        BY <2>5 DEF Continue, Early
      <3>2. PrintingTypes' /\ NothingYet' /\ Progress' /\ NotAsked' BY <1>1, <3>1, QuietStep
      <3>3. exit = "none" BY <1>1 DEF IInv, StageInv, Early
      <3>4. Passed' BY <3>1, <3>3 DEF Passed
      <3>5. \A n : AxiomPermitted(n)' = AxiomPermitted(n) BY <3>1 DEF rigid, AxiomPermitted
      <3>6. ReadLines' = Append(ReadLines, l) BY <2>4, <2>5, <3>1 DEF ReadLines, rigid
      <3>7. \A permitted \in BOOLEAN : AxiomsOf(ReadLines, permitted)' = AxiomsOf(Append(ReadLines, l), permitted)
        BY <3>5, <3>6 DEF AxiomsOf
      <3>8. \A permitted \in BOOLEAN :
               AxiomsOf(Append(ReadLines, l), permitted) = IF l.axiom /\ (permitted <=> AxiomPermitted(l.name))
                                                           THEN Append(AxiomsOf(ReadLines, permitted), l)
                                                           ELSE AxiomsOf(ReadLines, permitted)
        <4> HIDE DEF l
        <4> QED BY <2>4, AxiomsOfAppend
      <3> QED BY <3>1, <3>2, <3>4, <3>5, <3>7, <3>8
    <2>2. CASE /\ ~wanted /\ skipped' = Append(skipped, NameToString(l.name)) /\ line_num' = line_num + 1
               /\ Continue("lines") /\ UNCHANGED declars
      <3>1. l.axiom /\ ~AxiomPermitted(l.name) BY <2>2
      <3> HIDE DEF l
      <3>2. AxiomsOf(ReadLines, TRUE)' = AxiomsOf(ReadLines, TRUE)
            /\ AxiomsOf(ReadLines, FALSE)' = Append(AxiomsOf(ReadLines, FALSE), l)
        BY <2>2, <2>5, <3>1
      <3>3. Axioms' = Axioms BY <2>2 DEF Axioms
      <3>4. WrittenNames(AxiomsOf(ReadLines, FALSE))' = Append(WrittenNames(AxiomsOf(ReadLines, FALSE)), NameToString(l.name))
        <4>1. AxiomsOf(ReadLines, FALSE) \in Seq(Line) BY <2>4, AxiomsOfAppend
        <4>2. WrittenNames(AxiomsOf(ReadLines, FALSE))' = WrittenNames(Append(AxiomsOf(ReadLines, FALSE), l))
          BY <3>2 DEF WrittenNames
        <4> QED BY <2>4, <4>1, <4>2, WrittenAppend
      <3>5. FromTheFile'
        BY <2>2, <2>5, <3>2, <3>3, <3>4 DEF PrintInv, FromTheFile, rigid
      <3> QED BY <2>2, <2>5, <3>5 DEF PrintInv
    <2>3. CASE /\ wanted /\ declars' = Append(declars, l) /\ line_num' = line_num + 1
               /\ Continue("lines") /\ UNCHANGED skipped
      <3>1. l.axiom => AxiomPermitted(l.name) BY <2>3
      <3> HIDE DEF l
      <3>2. /\ AxiomsOf(ReadLines, TRUE)' = IF l.axiom THEN Append(AxiomsOf(ReadLines, TRUE), l)
                                            ELSE AxiomsOf(ReadLines, TRUE)
            /\ AxiomsOf(ReadLines, FALSE)' = AxiomsOf(ReadLines, FALSE)
        BY <2>3, <2>5, <3>1
      <3>3. Axioms' = IF l.axiom THEN Append(Axioms, l) ELSE Axioms BY <2>3, <2>4, AxiomsAppend DEF IInv
      <3>4. WrittenNames(AxiomsOf(ReadLines, FALSE))' = WrittenNames(AxiomsOf(ReadLines, FALSE))
        BY <3>2 DEF WrittenNames
      <3>5. Elems(declars)' = Elems(declars) \cup {l}
        <4>1. declars \in Seq(Line) BY DEF IInv, TypeOK
        <4>2. Elems(Append(declars, l)) = Elems(declars) \cup {l} BY <2>4, <4>1, ElemsAppend
        <4> QED BY <2>3, <4>2 DEF Elems
      <3>6. l \in Elems(world.lines) BY <2>4 DEF Elems, l
      <3>7. Elems(world.lines)' = Elems(world.lines) BY <2>3, <2>5 DEF rigid, Elems
      <3>8. FromTheFile BY DEF PrintInv
      <3>9. ASSUME NEW d \in Elems(declars)'
            PROVE  d \in Elems(world.lines)' /\ (d.axiom => AxiomPermitted(d.name)')
        <4>1. CASE d \in Elems(declars) BY <2>3, <2>5, <3>7, <3>8, <4>1 DEF FromTheFile
        <4>2. CASE d = l BY <2>3, <2>5, <3>1, <3>6, <3>7, <4>2
        <4> QED BY <3>5, <4>1, <4>2
      <3>10. Axioms' = AxiomsOf(ReadLines, TRUE)' BY <3>2, <3>3, <3>8 DEF FromTheFile
      <3>11. skipped' = WrittenNames(AxiomsOf(ReadLines, FALSE))' BY <2>3, <3>4, <3>8 DEF FromTheFile
      <3>12. FromTheFile' BY <3>9, <3>10, <3>11 DEF FromTheFile
      <3> QED BY <2>3, <2>5, <3>12 DEF PrintInv
    <2> QED BY <1>7, <2>1, <2>2, <2>3 DEF ReadLine
  <1>8. CASE EndOfFile
    <2>1. CASE \E how \in {"error", "panic", "declined"} : Fail(how) BY <1>2, <2>1
    <2>2. CASE /\ config.unknown_pp_declar_hard_error => UnknownRequests = {}
               /\ Continue("check") /\ UNCHANGED parsed
      <3>1. UNCHANGED rigid BY <2>2 DEF Continue
      <3>2. UnknownRequests' = UnknownRequests BY <2>2, <3>1, ReportKept
      <3>3. Passed' BY <2>2, <3>1, <3>2 DEF Passed, rigid
      <3> QED BY <1>3, <2>2, <3>3 DEF Early
    <2> QED BY <1>8, <2>1, <2>2 DEF EndOfFile
  <1>9. CASE CheckAllDeclars
    <2>1. CASE \E how \in {"error", "panic", "declined"} : Fail(how) BY <1>2, <2>1
    <2>2. CASE Continue("select") /\ UNCHANGED parsed
      <3>1. UNCHANGED rigid BY <2>2 DEF Continue
      <3>2. UnknownRequests' = UnknownRequests BY <2>2, <3>1, ReportKept
      <3>3. Passed' BY <1>9, <3>1, <3>2 DEF CheckAllDeclars, PrintInv, Passed, rigid
      <3> QED BY <1>3, <2>2, <3>3 DEF Early
    <2> QED BY <1>9, <2>1, <2>2 DEF CheckAllDeclars
  <1> QED BY <1>4, <1>5, <1>6, <1>7, <1>8, <1>9

\* The selection asks for everything, and nothing has been dealt with yet.
LEMMA SelectInv == IInv /\ PrintInv /\ SelectDeclars => PrintInv'
  <1> SUFFICES ASSUME IInv, PrintInv, SelectDeclars PROVE PrintInv'
    OBVIOUS
  <1>1. UNCHANGED rigid /\ UNCHANGED parsed /\ destination' = destination /\ output' = output /\ buffer' = buffer /\ exit' = exit
    BY DEF SelectDeclars
  <1>2. stage = "select" /\ exit = "none" /\ stage' \in {"print", "message"}
    BY DEF SelectDeclars, IInv, StageInv
  <1>3. requests = <<>> /\ errs = <<>> /\ output = <<>> /\ buffer = <<>>
    BY <1>2 DEF PrintInv, NothingYet, Early
  <1>4. FromTheFile' BY <1>1, ReportKept DEF PrintInv
  <1>5. Passed'
    <2>1. UnknownRequests' = UnknownRequests BY <1>1, ReportKept
    <2> QED BY <1>1, <1>2, <2>1 DEF PrintInv, Passed, rigid
  <1>6. NothingYet' BY <1>1, <1>2 DEF NothingYet, Early
  <1>7. stage' \in Stages /\ exit' \in {"none", "ok", "error", "panic", "declined"}
        /\ config' \in Configs /\ world' \in Worlds
    BY <1>1, <1>2 DEF PrintInv, PrintingTypes, Stages, rigid
  <1>8. CASE destination # {}
    <2>1. requests' = AllRequests /\ stage' = "print" /\ errs' = errs
      BY <1>8 DEF SelectDeclars, AllRequests
    <2>2. AllRequests \in Seq(Request) BY RequestTypes DEF IInv, PrintInv, PrintingTypes
    <2>3. PrintingTypes' BY <1>1, <1>7, <2>1, <2>2 DEF PrintInv, PrintingTypes
    <2>4. AllRequests' = <<>> \o requests'
      <3>1. AllRequests' = AllRequests BY <1>1, ReportKept
      <3> QED BY <2>1, <2>2, <3>1
    <2>5. NamesOf(output \o buffer)' = <<>>
      <3>1. output' \o buffer' = <<>> BY <1>1, <1>3
      <3> QED BY <3>1 DEF NamesOf
    <2>6. \A places : At(<<>>, places) = <<>> BY FlattenEmpty DEF At
    <2>7. NamesOf(<<>>) = <<>> /\ ErrorsOf(<<>>)' = <<>> BY DEF NamesOf, ErrorsOf
    <2>8. Reported(<<>>, {}, {})'
      <3>1. errs' = <<>> BY <1>3, <2>1
      <3>2. At(<<>>, {} \cup (DOMAIN <<>> \ {})) = <<>> /\ At(<<>>, {}) = <<>> BY <2>6
      <3> QED BY <2>5, <2>7, <3>1, <3>2 DEF Reported
    <2>9. DealtWith(<<>>)'
      <3>1. {} \in SUBSET (Found(<<>>)') /\ {} \in SUBSET {} OBVIOUS
      <3> QED BY <2>1, <2>4, <2>8, <3>1 DEF DealtWith
    <2>10. <<>> \in Seq(Request) OBVIOUS
    <2>11. Progress' BY <2>9, <2>10 DEF Progress
    <2>12. NotAsked' BY <1>1, <1>8 DEF NotAsked
    <2> QED BY <1>4, <1>5, <1>6, <2>3, <2>11, <2>12 DEF PrintInv
  <1>9. CASE destination = {}
    <2> DEFINE e == [kind |-> "axioms", text |-> <<Empty>>]
    <2>1. requests' = requests /\ errs' = IF config.print_axioms THEN Append(errs, e) ELSE errs
      BY <1>9 DEF SelectDeclars
    <2>2. e \in Error
      <3>1. <<Empty>> \in Texts BY NumeralsAssumption DEF Texts
      <3> QED BY <3>1 DEF Error
    <2>3. errs \in Seq(Error) BY DEF PrintInv, PrintingTypes
    <2> HIDE DEF e
    <2>5. errs' \in Seq(Error) /\ (config.print_axioms => errs' # <<>>)
      <3>1. Append(errs, e) \in Seq(Error) /\ Len(Append(errs, e)) = Len(errs) + 1 /\ Len(errs) \in Nat BY <2>2, <2>3
      <3>2. Append(errs, e) # <<>> BY <3>1
      <3> QED BY <2>1, <2>3, <3>1, <3>2
    <2>6. PrintingTypes' BY <1>1, <1>7, <2>1, <2>5 DEF PrintInv, PrintingTypes
    <2>7. NotAsked' BY <1>1, <1>9, <2>5 DEF NotAsked, SelectDeclars, rigid
    <2>8. Progress' BY <1>1, <1>9 DEF Progress
    <2> QED BY <1>4, <1>5, <1>6, <2>6, <2>7, <2>8 DEF PrintInv
  <1> QED BY <1>8, <1>9

\* Concatenation is associative.
LEMMA ConcatAssoc == \A a, b, c \in Seq(Entry) : a \o (b \o c) = (a \o b) \o c
  <1> DEFINE E == Entry
  <1> HIDE DEF E
  <1>1. \A a, b, c \in Seq(E) : a \o (b \o c) = (a \o b) \o c OBVIOUS
  <1> QED BY <1>1 DEF E

\* A line that is written, wherever it goes to, comes after what was.
LEMMA LineWritten ==
    ASSUME output \in Seq(Entry), buffer \in Seq(Entry), errs \in Seq(Error),
           NEW n \in Names, Head(requests).text \in Texts, WriteLine(n)
    PROVE  /\ output' \in Seq(Entry) /\ buffer' \in Seq(Entry) /\ errs' \in Seq(Error)
           /\ \/ errs' = errs /\ \E e \in Entry : e.name = n /\ output' \o buffer' = Append(output \o buffer, e)
              \/ /\ errs' = Append(errs, [kind |-> "write", text |-> Head(requests).text])
                 /\ \/ output' \o buffer' = output \o buffer
                    \/ \E e \in Entry : e.name = n /\ output' \o buffer' = Append(output \o buffer, e)
  <1>1. Whole(n) \in Entry /\ Cut(n) \in Entry /\ Whole(n).name = n /\ Cut(n).name = n BY DEF Whole, Cut, Entry
  <1>2. CASE buffer' = Append(buffer, Whole(n)) /\ UNCHANGED <<output, errs>>
    <2>1. output \o Append(buffer, Whole(n)) = Append(output \o buffer, Whole(n)) BY <1>1
    <2>2. output' = output /\ errs' = errs /\ buffer' = Append(buffer, Whole(n)) BY <1>2
    <2>3. Append(buffer, Whole(n)) \in Seq(Entry) BY <1>1
    <2> QED BY <1>1, <2>1, <2>2, <2>3
  <1>3. CASE output' = output \o buffer /\ buffer' = <<Whole(n)>> /\ UNCHANGED errs
    <2>1. (output \o buffer) \o <<Whole(n)>> = Append(output \o buffer, Whole(n)) BY <1>1
    <2>2. <<Whole(n)>> \in Seq(Entry) /\ output \o buffer \in Seq(Entry) BY <1>1
    <2>3. output' = output \o buffer /\ buffer' = <<Whole(n)>> /\ errs' = errs BY <1>3
    <2> QED BY <1>1, <2>1, <2>2, <2>3
  <1>4. CASE \E e \in {Whole(n), Cut(n)} : /\ output' = output \o Append(buffer, e)
                                           /\ buffer' = <<>>
                                           /\ UNCHANGED errs
    <2>1. PICK e \in {Whole(n), Cut(n)} : output' = output \o Append(buffer, e) /\ buffer' = <<>> /\ errs' = errs
      BY <1>4
    <2>2. e \in Entry /\ e.name = n BY <1>1, <2>1
    <2>3. output \o Append(buffer, e) \in Seq(Entry) /\ <<>> \in Seq(Entry) BY <2>2
    <2>4. (output \o Append(buffer, e)) \o <<>> = output \o Append(buffer, e) BY <2>3
    <2>5. output \o Append(buffer, e) = Append(output \o buffer, e) BY <2>2
    <2>6. output' \o buffer' = Append(output \o buffer, e) BY <2>1, <2>4, <2>5
    <2> QED BY <2>1, <2>2, <2>3, <2>6
  <1>5. CASE \E k \in 0 .. Len(buffer), last \in {<<>>, <<Whole(n)>>} :
                /\ output' = output \o SubSeq(buffer, 1, k)
                /\ buffer' = SubSeq(buffer, k + 1, Len(buffer)) \o last
                /\ errs' = Append(errs, [kind |-> "write", text |-> Head(requests).text])
    <2>1. PICK k \in 0 .. Len(buffer), last \in {<<>>, <<Whole(n)>>} :
                /\ output' = output \o SubSeq(buffer, 1, k)
                /\ buffer' = SubSeq(buffer, k + 1, Len(buffer)) \o last
                /\ errs' = Append(errs, [kind |-> "write", text |-> Head(requests).text])
      BY <1>5
    <2>2. last \in Seq(Entry)
      <3>1. <<>> \in Seq(Entry) /\ <<Whole(n)>> \in Seq(Entry) BY <1>1
      <3> QED BY <2>1, <3>1
    <2> DEFINE f == SubSeq(buffer, 1, k)
               g == SubSeq(buffer, k + 1, Len(buffer))
    <2>4. f \in Seq(Entry) /\ g \in Seq(Entry) /\ buffer = f \o g BY FlushedAndNot
    <2>5. [kind |-> "write", text |-> Head(requests).text] \in Error BY DEF Error
    <2>6. Append(errs, [kind |-> "write", text |-> Head(requests).text]) \in Seq(Error) BY <2>5
    <2>7. output' = output \o f /\ buffer' = g \o last BY <2>1
    <2> HIDE DEF f, g
    <2>8. output \o f \in Seq(Entry) /\ g \o last \in Seq(Entry) BY <2>2, <2>4
    <2>9. output' \in Seq(Entry) /\ buffer' \in Seq(Entry) /\ errs' \in Seq(Error) BY <2>1, <2>6, <2>7, <2>8
    <2>10. output' \o buffer' = (output \o buffer) \o last
      <3> DEFINE Assoc(a, b, c) == a \o (b \o c) = (a \o b) \o c
      <3>1. \A a, b, c \in Seq(Entry) : Assoc(a, b, c) BY ONLY ConcatAssoc
      <3> HIDE DEF Assoc
      <3>2. Assoc(output \o f, g, last) BY ONLY <2>2, <2>4, <2>8, <3>1
      <3>3. Assoc(output, f, g) BY ONLY <2>4, output \in Seq(Entry), <3>1
      <3> USE DEF Assoc
      <3>4. (output \o f) \o (g \o last) = ((output \o f) \o g) \o last BY ONLY <3>2
      <3>5. (output \o f) \o g = output \o buffer BY ONLY <2>4, <3>3
      <3> QED BY ONLY <2>7, <3>4, <3>5
    <2>11. output \o buffer \in Seq(Entry) OBVIOUS
    <2>12. CASE last = <<>>
      <3>1. (output \o buffer) \o <<>> = output \o buffer BY <2>11
      <3> QED BY <2>1, <2>9, <2>10, <2>12, <3>1
    <2>13. CASE last = <<Whole(n)>>
      <3>1. (output \o buffer) \o <<Whole(n)>> = Append(output \o buffer, Whole(n)) BY <1>1, <2>11
      <3> QED BY <1>1, <2>1, <2>9, <2>10, <2>13, <3>1
    <2> QED BY <2>1, <2>12, <2>13
  <1> QED BY <1>2, <1>3, <1>4, <1>5 DEF WriteLine

\* One request is dealt with: it is found and written, or missed.
LEMMA PrintNextInv == IInv /\ PrintInv /\ PrintNext => PrintInv'
  <1> SUFFICES ASSUME IInv, PrintInv, PrintNext PROVE PrintInv'
    OBVIOUS
  <1> DEFINE r == Head(requests)
             miss == [kind |-> "not_found", text |-> r.text]
             failed == [kind |-> "write", text |-> r.text]
  <1>1. UNCHANGED rigid /\ UNCHANGED parsed /\ destination' = destination /\ exit' = exit /\ stage' = stage
        /\ stage = "print" /\ requests # <<>> /\ requests' = Tail(requests)
    BY DEF PrintNext
  <1>2. requests \in Seq(Request) /\ output \in Seq(Entry) /\ buffer \in Seq(Entry) /\ errs \in Seq(Error)
    BY DEF PrintInv, PrintingTypes
  <1>3. r \in Request /\ Tail(requests) \in Seq(Request) /\ requests = <<r>> \o Tail(requests)
    BY <1>1, <1>2
  <1>4. r.name \in Names /\ r.text \in Texts BY <1>3 DEF Request
  <1>5. /\ miss \in Error /\ failed \in Error
        /\ r.name \in DeclaredNames => ErrorOf(r) = failed
        /\ r.name \notin DeclaredNames => ErrorOf(r) = miss
    BY <1>4 DEF Error, ErrorOf
  <1>6. \/ /\ r.name \in DeclaredNames /\ errs' = errs
           /\ \E e \in Entry : e.name = r.name /\ output' \o buffer' = Append(output \o buffer, e)
        \/ /\ r.name \in DeclaredNames /\ errs' = Append(errs, failed)
           /\ \/ output' \o buffer' = output \o buffer
              \/ \E e \in Entry : e.name = r.name /\ output' \o buffer' = Append(output \o buffer, e)
        \/ r.name \notin DeclaredNames /\ errs' = Append(errs, miss) /\ output' = output /\ buffer' = buffer
    <2>1. CASE r.name \in DeclaredNames /\ WriteLine(r.name) BY <1>2, <1>4, <2>1, LineWritten
    <2>2. CASE r.name \notin DeclaredNames /\ errs' = Append(errs, miss) /\ UNCHANGED <<buffer, output>> BY <2>2
    <2> QED BY <2>1, <2>2 DEF PrintNext
  <1>7. output' \in Seq(Entry) /\ buffer' \in Seq(Entry) /\ errs' \in Seq(Error)
    <2>1. CASE r.name \in DeclaredNames /\ WriteLine(r.name) BY <1>2, <1>4, <2>1, LineWritten
    <2>2. CASE r.name \notin DeclaredNames /\ errs' = Append(errs, miss) /\ UNCHANGED <<buffer, output>>
      <3>1. Append(errs, miss) \in Seq(Error) BY <1>2, <1>5
      <3> QED BY <1>2, <2>2, <3>1
    <2> QED BY <2>1, <2>2 DEF PrintNext
  <1> HIDE DEF r, miss, failed
  <1>8. PrintingTypes' BY <1>1, <1>3, <1>7 DEF PrintInv, PrintingTypes, rigid
  <1>9. FromTheFile' BY <1>1, ReportKept DEF PrintInv
  <1>10. Passed'
    <2>1. UnknownRequests' = UnknownRequests BY <1>1, ReportKept
    <2> QED BY <1>1, <2>1 DEF PrintInv, Passed, rigid
  <1>11. NothingYet'
    <2>1. exit = "none" BY <1>1 DEF IInv, StageInv
    <2> QED BY <1>1, <2>1 DEF NothingYet, Early
  <1>12. destination # {} BY <1>1 DEF PrintInv, NotAsked, Selected
  <1>13. Progress'
    <2>1. PICK done \in Seq(Request) : DealtWith(done) BY <1>1, <1>12 DEF PrintInv, Progress, Selected
    <2>2. PICK more \in Seq(Request) : more = Append(done, r)
      <3>1. Append(done, r) \in Seq(Request) BY <1>3, <2>1
      <3> QED BY <3>1
    <2>3a. PICK printed \in SUBSET Found(done) : \E both \in SUBSET printed : Reported(done, printed, both)
      BY <2>1 DEF DealtWith
    <2>3b. PICK both \in SUBSET printed : Reported(done, printed, both) BY <2>3a
    <2>3. printed \in SUBSET Found(done) /\ both \in SUBSET printed /\ Reported(done, printed, both) BY <2>3a, <2>3b
    <2> DEFINE n == Len(done) + 1
               blamed == both \cup (DOMAIN done \ printed)
    <2>4. n \notin DOMAIN done /\ DOMAIN more = DOMAIN done \cup {n} /\ more[n] = r
          /\ (\A i \in DOMAIN done : more[i] = done[i]) /\ printed \subseteq DOMAIN done
      BY <2>2, <2>3 DEF Found
    <2>5. AllRequests' = AllRequests /\ (\A s : ErrorsOf(s)' = ErrorsOf(s)) /\ Found(more)' = Found(more)
      BY <1>1, ReportKept
    <2>6. AllRequests' = more \o requests'
      <3>1. AllRequests = done \o requests BY <2>1 DEF DealtWith
      <3>2. done \o (<<r>> \o Tail(requests)) = Append(done, r) \o Tail(requests) BY <1>3, <2>1
      <3> QED BY <1>1, <1>3, <2>2, <2>5, <3>1, <3>2
    <2>7. /\ At(more, printed) = At(done, printed)
          /\ At(more, printed \cup {n}) = Append(At(done, printed), r)
          /\ At(more, blamed) = At(done, blamed)
          /\ At(more, blamed \cup {n}) = Append(At(done, blamed), r)
      <3>1. \A P, Q : (\A i \in DOMAIN done : i \in P <=> i \in Q) =>
               At(more, P) = IF n \in P THEN Append(At(done, Q), r) ELSE At(done, Q)
        BY <1>3, <2>1, <2>2, AtAppend
      <3>2. \A i \in DOMAIN done : /\ i \in printed \cup {n} <=> i \in printed
                                   /\ i \in blamed \cup {n} <=> i \in blamed
        BY <2>4
      <3>3. n \notin printed /\ n \notin blamed BY <2>3, <2>4
      <3> HIDE DEF blamed, n
      <3> QED BY <3>1, <3>2, <3>3
    <2>8. /\ At(done, printed) \in Seq(Request) /\ At(done, blamed) \in Seq(Request)
          /\ NamesOf(Append(At(done, printed), r)) = Append(NamesOf(At(done, printed)), r.name)
          /\ ErrorsOf(Append(At(done, blamed), r)) = Append(ErrorsOf(At(done, blamed)), ErrorOf(r))
      <3> HIDE DEF blamed, n
      <3>1. At(done, printed) \in Seq(Request) /\ At(done, blamed) \in Seq(Request) BY <2>1, AtFacts
      <3>2. \A x \in Request : x.name \in Names BY DEF Request
      <3> QED BY <1>3, <3>1, <3>2, NamesAppend, ErrorsAppend
    <2>9. NamesOf(output \o buffer) = NamesOf(At(done, printed)) /\ errs = ErrorsOf(At(done, blamed))
      BY <2>3 DEF Reported
    <2>10. ASSUME NEW p \in SUBSET Found(more), NEW q \in SUBSET p,
                  NamesOf(output' \o buffer') = NamesOf(At(more, p)),
                  errs' = ErrorsOf(At(more, q \cup (DOMAIN more \ p)))
           PROVE  Progress'
      <3>1. Reported(more, p, q)' BY <2>5, <2>10 DEF Reported, NamesOf
      <3>2. DealtWith(more)' BY <1>1, <2>5, <2>6, <2>10, <3>1 DEF DealtWith
      <3> QED BY <2>2, <3>2 DEF Progress
    <2>11. /\ printed \in SUBSET Found(more) /\ both \in SUBSET printed
           /\ r.name \in DeclaredNames => printed \cup {n} \in SUBSET Found(more)
           /\ both \cup (DOMAIN more \ printed) = blamed \cup {n}
           /\ both \cup (DOMAIN more \ (printed \cup {n})) = blamed
           /\ (both \cup {n}) \cup (DOMAIN more \ (printed \cup {n})) = blamed \cup {n}
      <3> HIDE DEF n
      <3> QED BY <2>3, <2>4 DEF Found
    <2>12. ASSUME NEW e \in Entry, e.name = r.name, output' \o buffer' = Append(output \o buffer, e)
           PROVE  NamesOf(output' \o buffer') = NamesOf(At(more, printed \cup {n}))
      <3>1. output \o buffer \in Seq(Entry) BY <1>2
      <3>2. \A x \in Entry : x.name \in Names BY DEF Entry
      <3>3. NamesOf(Append(output \o buffer, e)) = Append(NamesOf(output \o buffer), e.name)
        BY <3>1, <3>2, NamesAppend
      <3> QED BY <2>7, <2>8, <2>9, <2>12, <3>3
    <2> HIDE DEF n, blamed
    <2>13. CASE /\ r.name \in DeclaredNames /\ errs' = errs
                /\ \E e \in Entry : e.name = r.name /\ output' \o buffer' = Append(output \o buffer, e)
      <3>1. NamesOf(output' \o buffer') = NamesOf(At(more, printed \cup {n})) BY <2>12, <2>13
      <3>2. errs' = ErrorsOf(At(more, both \cup (DOMAIN more \ (printed \cup {n})))) BY <2>7, <2>9, <2>11, <2>13
      <3>3. both \in SUBSET (printed \cup {n}) BY <2>11
      <3> QED BY <2>10, <2>11, <2>13, <3>1, <3>2, <3>3
    <2>14. CASE r.name \in DeclaredNames /\ errs' = Append(errs, failed) /\ output' \o buffer' = output \o buffer
      <3>1. NamesOf(output' \o buffer') = NamesOf(At(more, printed)) BY <2>7, <2>9, <2>14
      <3>2. errs' = ErrorsOf(At(more, both \cup (DOMAIN more \ printed))) BY <1>5, <2>7, <2>8, <2>9, <2>11, <2>14
      <3> QED BY <2>10, <2>11, <3>1, <3>2
    <2>15. CASE /\ r.name \in DeclaredNames /\ errs' = Append(errs, failed)
                /\ \E e \in Entry : e.name = r.name /\ output' \o buffer' = Append(output \o buffer, e)
      <3>1. NamesOf(output' \o buffer') = NamesOf(At(more, printed \cup {n})) BY <2>12, <2>15
      <3>2. errs' = ErrorsOf(At(more, (both \cup {n}) \cup (DOMAIN more \ (printed \cup {n}))))
        BY <1>5, <2>7, <2>8, <2>9, <2>11, <2>15
      <3>3. printed \cup {n} \in SUBSET Found(more) /\ both \cup {n} \in SUBSET (printed \cup {n}) BY <2>11, <2>15
      <3> DEFINE p == printed \cup {n}
                 q == both \cup {n}
      <3>4. /\ p \in SUBSET Found(more) /\ q \in SUBSET p
            /\ NamesOf(output' \o buffer') = NamesOf(At(more, p))
            /\ errs' = ErrorsOf(At(more, q \cup (DOMAIN more \ p)))
        BY <3>1, <3>2, <3>3
      <3> HIDE DEF p, q
      <3> QED BY ONLY <2>10, <3>4
    <2>16. CASE r.name \notin DeclaredNames /\ errs' = Append(errs, miss) /\ output' = output /\ buffer' = buffer
      <3>1. NamesOf(output' \o buffer') = NamesOf(At(more, printed)) BY <2>7, <2>9, <2>16
      <3>2. errs' = ErrorsOf(At(more, both \cup (DOMAIN more \ printed))) BY <1>5, <2>7, <2>8, <2>9, <2>11, <2>16
      <3> QED BY <2>10, <2>11, <3>1, <3>2
    <2> QED BY <1>6, <2>13, <2>14, <2>15, <2>16
  <1>14. NotAsked' BY <1>1, <1>12 DEF NotAsked
  <1> QED BY <1>8, <1>9, <1>10, <1>11, <1>13, <1>14 DEF PrintInv

\* A step that adds nothing to the report keeps what it has got to.
LEMMA NothingMore ==
    ASSUME PrintInv, Selected, UNCHANGED rigid, UNCHANGED parsed, destination' = destination,
           requests' = requests, errs' = errs, output' \o buffer' = output \o buffer,
           \/ stage' = stage
           \/ (stage # "print" \/ requests = <<>>) /\ stage' # "print"
    PROVE  Progress' /\ NotAsked'
  <1>2. NotAsked' BY DEF PrintInv, NotAsked, rigid
  <1>3. CASE destination = {} BY <1>2, <1>3 DEF Progress
  <1>4. CASE destination # {}
    <2>1. PICK done \in Seq(Request) : DealtWith(done) BY <1>4 DEF PrintInv, Progress
    <2>2. AllRequests' = AllRequests /\ Found(done)' = Found(done) /\ \A s : ErrorsOf(s)' = ErrorsOf(s)
      BY ReportKept
    <2>3. NamesOf(output \o buffer)' = NamesOf(output \o buffer) BY DEF NamesOf
    <2>4. \A p, q : Reported(done, p, q)' = Reported(done, p, q) BY <2>2, <2>3 DEF Reported
    <2>6. DealtWith(done)' BY <2>1, <2>2, <2>4 DEF DealtWith
    <2>7. Progress' BY <2>1, <2>6 DEF Progress
    <2> QED BY <1>2, <2>7
  <1> QED BY <1>3, <1>4

\* The end of the requests, and of the run: the last flush moves some of the
\* buffer.
LEMMA EndInvs == IInv /\ PrintInv /\ (EndOfRequests \/ Finish) => PrintInv'
  <1> SUFFICES ASSUME IInv, PrintInv, EndOfRequests \/ Finish PROVE PrintInv'
    OBVIOUS
  <1>1. UNCHANGED rigid /\ UNCHANGED parsed /\ destination' = destination /\ requests' = requests /\ errs' = errs
    BY DEF EndOfRequests, Finish, printing
  <1>2. FromTheFile' BY <1>1, ReportKept DEF PrintInv
  <1>3. UnknownRequests' = UnknownRequests BY <1>1, ReportKept
  <1>4. output \in Seq(Entry) /\ buffer \in Seq(Entry) BY DEF PrintInv, PrintingTypes
  <1>5. CASE EndOfRequests
    <2>1. output' = output /\ buffer' = buffer /\ stage = "print" /\ requests = <<>> /\ stage' = "message" /\ exit' = exit
      BY <1>5 DEF EndOfRequests, printing
    <2>2. exit = "none" BY <2>1 DEF IInv, StageInv
    <2>3. PrintingTypes' BY <1>1, <2>1 DEF PrintInv, PrintingTypes, rigid, Stages
    <2>4. NothingYet' BY <2>1, <2>2 DEF NothingYet, Early
    <2>5. Progress' /\ NotAsked' BY <1>1, <2>1, NothingMore DEF Selected
    <2>6. Passed' BY <1>1, <1>3, <2>1 DEF PrintInv, Passed, rigid
    <2> QED BY <1>2, <2>3, <2>4, <2>5, <2>6 DEF PrintInv
  <1>6. CASE Finish
    <2>1. stage = "message" /\ stage' = "over" /\ exit' = "ok" BY <1>6 DEF Finish, End
    <2>2. PICK k \in 0 .. Len(buffer) : /\ output' = output \o SubSeq(buffer, 1, k)
                                        /\ buffer' = SubSeq(buffer, k + 1, Len(buffer))
      BY <1>6 DEF Finish
    <2> DEFINE f == SubSeq(buffer, 1, k)
               g == SubSeq(buffer, k + 1, Len(buffer))
    <2>3. f \in Seq(Entry) /\ g \in Seq(Entry) /\ buffer = f \o g BY <1>4, <2>2, FlushedAndNot
    <2> HIDE DEF f, g
    <2>4. output' = output \o f /\ buffer' = g BY <2>2 DEF f, g
    <2>5. (output \o f) \o g = output \o (f \o g) /\ output \o f \in Seq(Entry) BY <1>4, <2>3
    <2>6. output' \o buffer' = output \o buffer BY <2>3, <2>4, <2>5
    <2>7. PrintingTypes' BY <1>1, <2>1, <2>3, <2>4, <2>5 DEF PrintInv, PrintingTypes, rigid, Stages
    <2>8. NothingYet' BY <2>1 DEF NothingYet, Early
    <2>9. Progress' /\ NotAsked' BY <1>1, <2>1, <2>6, NothingMore DEF Selected
    <2>10. Passed' BY <1>1, <1>3, <2>1 DEF PrintInv, Passed, rigid
    <2> QED BY <1>2, <2>7, <2>8, <2>9, <2>10 DEF PrintInv
  <1> QED BY <1>5, <1>6

\* The invariant of the printing is kept.
LEMMA PrintStepInv == IInv /\ PrintInv /\ [Next]_vars => PrintInv'
  <1> SUFFICES ASSUME IInv, PrintInv, [Next]_vars PROVE PrintInv'
    OBVIOUS
  <1>1. CASE ReadConfig \/ OpenDestination \/ OpenExportFile \/ ReadLine \/ EndOfFile \/ CheckAllDeclars
    BY <1>1, EarlyInv
  <1>2. CASE SelectDeclars BY <1>2, SelectInv
  <1>3. CASE PrintNext BY <1>3, PrintNextInv
  <1>4. CASE EndOfRequests \/ Finish BY <1>4, EndInvs
  <1>5. CASE UNCHANGED vars
    <2>1. UNCHANGED rigid /\ UNCHANGED parsed /\ UNCHANGED printing /\ stage' = stage /\ exit' = exit
          /\ destination' = destination
      BY <1>5 DEF vars
    <2>2. FromTheFile' BY <2>1, ReportKept DEF PrintInv
    <2>3. PrintingTypes' BY <2>1 DEF PrintInv, PrintingTypes, rigid, printing
    <2>4. NothingYet' BY <2>1 DEF PrintInv, NothingYet, printing
    <2>5. UnknownRequests' = UnknownRequests BY <2>1, ReportKept
    <2>6. Passed' BY <2>1, <2>5 DEF PrintInv, Passed, rigid
    <2>7. Selected' = Selected BY <2>1 DEF Selected
    <2>8. Progress' /\ NotAsked'
      <3>1. CASE Selected
        <4>1. output' \o buffer' = output \o buffer /\ requests' = requests /\ errs' = errs BY <2>1 DEF printing
        <4> QED BY <2>1, <3>1, <4>1, NothingMore
      <3>2. CASE ~Selected BY <2>7, <3>2 DEF Progress, NotAsked
      <3> QED BY <3>1, <3>2
    <2> QED BY <2>2, <2>3, <2>4, <2>6, <2>8 DEF PrintInv
  <1> QED BY <1>1, <1>2, <1>3, <1>4, <1>5 DEF Next, Done

\* The invariant of the printing holds at the start.
LEMMA PrintInit == Init => PrintInv
  <1> SUFFICES ASSUME Init PROVE PrintInv
    OBVIOUS
  <1>1. config \in Configs /\ world \in Worlds /\ stage \in Stages BY DEF Init, Stages
  <1>2. <<>> \in Seq(Request) /\ <<>> \in Seq(Entry) /\ <<>> \in Seq(Error) OBVIOUS
  <1>3. PrintingTypes BY <1>1, <1>2 DEF Init, PrintingTypes
  <1>4. FromTheFile
    <2>1. ReadLines = <<>> BY DEF Init, ReadLines
    <2>2. \A permitted : AxiomsOf(<<>>, permitted) = <<>> BY FlattenEmpty DEF AxiomsOf, At
    <2>3. WrittenNames(<<>>) = <<>> BY DEF WrittenNames
    <2>4. Axioms = <<>> BY FlattenEmpty DEF Init, Axioms, At
    <2>5. Elems(declars) = {} BY DEF Init, Elems
    <2>6. skipped = <<>> BY DEF Init
    <2> QED BY <2>1, <2>2, <2>3, <2>4, <2>5, <2>6 DEF FromTheFile
  <1>5. NothingYet BY DEF Init, NothingYet
  <1>6. ~Selected BY DEF Init, Selected
  <1>7. Passed BY DEF Init, Passed
  <1> QED BY <1>3, <1>4, <1>5, <1>6, <1>7 DEF PrintInv, Progress, NotAsked

\* What has been dealt with, at every moment, is what has been printed.
THEOREM ReportHolds == Spec => [](IInv /\ PrintInv)
  <1>1. Init => IInv /\ PrintInv BY InitInv, PrintInit
  <1>2. IInv /\ PrintInv /\ [Next]_vars => IInv' /\ PrintInv' BY StepInv, PrintStepInv
  <1> QED BY <1>1, <1>2, PTL DEF Spec

-----------------------------------------------------------------------------
(* The properties.                                                          *)

\* The axioms asked for are declared.
LEMMA AxiomsDeclared ==
    ASSUME TypeOK
    PROVE  /\ \A r \in Elems(AxiomRequests) : r.name \in DeclaredNames
           /\ {r.name : r \in Elems(AxiomRequests)} = {d.name : d \in {x \in Elems(declars) : x.axiom}}
  <1>1. Elems(Axioms) = {d \in Elems(declars) : d.axiom} BY AxiomsAre
  <1>2. {r.name : r \in Elems(AxiomRequests)} = {d.name : d \in Elems(Axioms)}
    <2> DEFINE a == Axioms
    <2>1. DOMAIN AxiomRequests = DOMAIN a /\ \A i \in DOMAIN a : AxiomRequests[i].name = a[i].name
      BY DEF AxiomRequests
    <2> HIDE DEF a
    <2>2. {r.name : r \in Elems(AxiomRequests)} = {d.name : d \in Elems(a)} BY <2>1 DEF Elems
    <2> QED BY <2>2 DEF a
  <1>3. \A d \in Elems(Axioms) : d.name \in DeclaredNames BY <1>1 DEF DeclaredNames
  <1>4. \A r \in Elems(AxiomRequests) : r.name \in DeclaredNames
    <2> SUFFICES ASSUME NEW r \in Elems(AxiomRequests) PROVE r.name \in DeclaredNames OBVIOUS
    <2>1. r.name \in {d.name : d \in Elems(Axioms)} BY <1>2
    <2> QED BY <1>3, <2>1
  <1> QED BY <1>1, <1>2, <1>4

\* What a successful run was to print is what the file and the configuration
\* make due, and all of it has been dealt with.
LEMMA DueIsDone ==
    ASSUME IInv, PrintInv, Succeeded
    PROVE  /\ AxiomsOf(world.lines, TRUE) = Axioms /\ WrittenNames(AxiomsOf(world.lines, FALSE)) = skipped
           /\ Due = AllRequests /\ Due \in Seq(Request)
           /\ destination # {} =>
                 \E printed \in SUBSET Found(Due) : \E both \in SUBSET printed : Reported(Due, printed, both)
  <1>1. ReadLines = world.lines
    <2>1. world.lines \in Seq(Line) /\ line_num = Len(world.lines) BY DEF IInv, TypeOK, World, EndInv, Read, Succeeded
    <2> QED BY <2>1 DEF ReadLines
  <1>2. AxiomsOf(world.lines, TRUE) = Axioms /\ WrittenNames(AxiomsOf(world.lines, FALSE)) = skipped
    BY <1>1 DEF PrintInv, FromTheFile
  <1>3. Due = AllRequests
    <2>1. CASE config.print_axioms BY <1>2, <2>1 DEF Due, AllRequests, AxiomRequests
    <2>2. CASE ~config.print_axioms
      <3>1. [i \in DOMAIN <<>> |-> [text |-> NameToString(<<>>[i].name), name |-> <<>>[i].name]] = <<>> OBVIOUS
      <3> QED BY <2>2, <3>1 DEF Due, AllRequests
    <2> QED BY <2>1, <2>2
  <1>4. AllRequests \in Seq(Request) BY RequestTypes DEF IInv, PrintInv, PrintingTypes
  <1>5. ASSUME destination # {}
        PROVE  \E printed \in SUBSET Found(Due) : \E both \in SUBSET printed : Reported(Due, printed, both)
    <2>1. PICK done \in Seq(Request) : DealtWith(done) BY <1>5 DEF PrintInv, Progress, Selected, Succeeded
    <2>2. requests = <<>> BY <2>1 DEF DealtWith, IInv, StageInv, Succeeded
    <2>3. done \o <<>> = done BY <2>1
    <2>4. done = AllRequests BY <2>1, <2>2, <2>3 DEF DealtWith
    <2> QED BY <1>3, <2>1, <2>4 DEF DealtWith
  <1> QED BY <1>2, <1>3, <1>4, <1>5

\* For every configuration and every file: whatever fails on the way, all that
\* is due was printed or is in the errors, or both, each in order.
THEOREM ReportCompleteHolds == Spec => []ReportComplete
  <1>1. IInv /\ PrintInv => ReportComplete
    <2> SUFFICES ASSUME IInv, PrintInv, Succeeded, destination # {} PROVE ReportComplete
      BY DEF ReportComplete
    <2>1a. PICK printed \in SUBSET Found(Due) : \E both \in SUBSET printed : Reported(Due, printed, both)
      BY DueIsDone
    <2>1b. PICK both \in SUBSET printed : Reported(Due, printed, both) BY <2>1a
    <2>1. printed \in SUBSET Found(Due) /\ both \in SUBSET printed /\ Reported(Due, printed, both) BY <2>1a, <2>1b
    <2> DEFINE due == Due
    <2>2. /\ printed \in SUBSET {i \in DOMAIN due : due[i].name \in DeclaredNames} /\ both \in SUBSET printed
          /\ NamesOf(output \o buffer) = NamesOf(At(due, printed))
          /\ errs = ErrorsOf(At(due, both \cup (DOMAIN due \ printed)))
      BY <2>1 DEF Found, Reported
    <2> HIDE DEF due
    <2>3. \E p \in SUBSET {i \in DOMAIN due : due[i].name \in DeclaredNames} :
             /\ NamesOf(output \o buffer) = NamesOf(At(due, p))
             /\ \E q \in SUBSET p : errs = ErrorsOf(At(due, q \cup (DOMAIN due \ p)))
      BY <2>2
    <2> QED BY <2>3 DEF ReportComplete, due
  <1> QED BY <1>1, ReportHolds, PTL

\* For every configuration and every file: what "Checked n declarations with
\* no errors" says is true, of what was checked, of what was skipped and of
\* what was printed.
THEOREM MessageIsTrueHolds == Spec => []MessageIsTrue
  <1>1. IInv /\ PrintInv => MessageIsTrue
    <2> SUFFICES ASSUME IInv, PrintInv, Succeeded, message.kind = "checked"
                 PROVE  /\ message.number + Len(message.skipped) = Len(world.lines)
                        /\ message.skipped = WrittenNames(AxiomsOf(world.lines, FALSE))
                        /\ destination = {} => ~config.print_axioms
                        /\ destination # {} => NamesOf(output \o buffer) = NamesOf(Due)
      BY DEF MessageIsTrue
    <2>1. message = Message BY DEF IInv, EndInv, Succeeded
    <2>2. errs = <<>> /\ message = [kind |-> "checked", number |-> Len(declars), skipped |-> skipped]
      <3>1. CASE config.print_success_message /\ errs = <<>> BY <2>1, <3>1 DEF Message
      <3>2. CASE config.print_success_message /\ errs # <<>>
        <4>1. Message.kind = "pp_errors" BY <3>2 DEF Message
        <4> QED BY <2>1, <4>1
      <3>3. CASE ~config.print_success_message /\ skipped # <<>>
        <4>1. Message.kind = "skipped" BY <3>3 DEF Message
        <4> QED BY <2>1, <4>1
      <3>4. CASE ~config.print_success_message /\ skipped = <<>>
        <4>1. Message.kind = "none" BY <3>4 DEF Message
        <4> QED BY <2>1, <4>1
      <3> QED BY <3>1, <3>2, <3>3, <3>4
    <2>3. Len(declars) + Len(skipped) = Len(world.lines)
      BY DEF IInv, EndInv, LinesInv, Succeeded, Read
    <2>4. destination = {} => ~config.print_axioms BY <2>2 DEF PrintInv, NotAsked, Selected, Succeeded
    <2>5. ASSUME destination # {} PROVE NamesOf(output \o buffer) = NamesOf(Due)
      <3>1a. PICK printed \in SUBSET Found(Due) : \E both \in SUBSET printed : Reported(Due, printed, both)
        BY <2>5, DueIsDone
      <3>1b. PICK both \in SUBSET printed : Reported(Due, printed, both) BY <3>1a
      <3>1. printed \in SUBSET Found(Due) /\ both \in SUBSET printed /\ Reported(Due, printed, both) BY <3>1a, <3>1b
      <3> DEFINE due == Due
                 blamed == both \cup (DOMAIN due \ printed)
      <3>2. due \in Seq(Request) BY DueIsDone
      <3>3. printed \subseteq DOMAIN due BY <3>1 DEF Found
      <3>4. ErrorsOf(At(due, blamed)) = <<>> BY <2>2, <3>1 DEF Reported
      <3>5. NamesOf(output \o buffer) = NamesOf(At(due, printed)) BY <3>1 DEF Reported
      <3> HIDE DEF due
      <3>6. blamed \cap DOMAIN due = {}
        <4>1. DOMAIN At(due, blamed) = {}
          <5>1. DOMAIN ErrorsOf(At(due, blamed)) = DOMAIN At(due, blamed) BY DEF ErrorsOf
          <5> QED BY <3>4, <5>1
        <4>2. Elems(At(due, blamed)) = {} BY <4>1 DEF Elems
        <4>3. Elems(At(due, blamed)) = {due[i] : i \in blamed \cap DOMAIN due}
          <5> HIDE DEF blamed
          <5> QED BY <3>2, AtFacts
        <4> QED BY <4>2, <4>3
      <3>7. printed = DOMAIN due BY <3>3, <3>6
      <3>8. At(due, DOMAIN due) = due BY <3>2, AtAll
      <3> QED BY <3>5, <3>7, <3>8 DEF due
    <2> QED BY <2>2, <2>3, <2>4, <2>5, DueIsDone
  <1> QED BY <1>1, ReportHolds, PTL

\* A declared name that can be read back from its text is what the text
\* stands for.
LEMMA PlainDeclared ==
    ASSUME IInv, PrintInv, NEW n \in DeclaredNames, Plain(n)
    PROVE  NameFromStr(NameToString(n)) = n
  <1>1. PICK d \in Elems(declars) : d.name = n BY DEF DeclaredNames
  <1>2. d \in Elems(world.lines) BY <1>1 DEF PrintInv, FromTheFile
  <1>3. n \in Names
    <2>1. declars \in Seq(Line) BY DEF IInv, TypeOK
    <2>2. d \in Line BY <1>1, <2>1 DEF Elems
    <2> QED BY <1>1, <2>2 DEF Line
  <1>4. \A j \in DOMAIN n : n[j].num => \E s \in Numerals : n[j].text = <<Canonical[s]>>
    <2>1. world \in Worlds BY DEF PrintInv, PrintingTypes
    <2>2. PICK i \in DOMAIN world.lines : d = world.lines[i] BY <1>2 DEF Elems
    <2> QED BY <1>1, <2>1, <2>2, InputsAssumption
  <1> QED BY <1>3, <1>4, PlainNames

\* For every configuration and every file: an admitted axiom whose name can be
\* read back from its text is one that the configuration names.
THEOREM AdmittedAreListedHolds == Spec => []AdmittedAreListed
  <1>1. IInv /\ PrintInv => AdmittedAreListed
    <2> SUFFICES ASSUME IInv, PrintInv, NEW d \in Elems(declars), d.axiom, Plain(d.name),
                        ~config.unsafe_permit_all_axioms
                 PROVE  \E list \in config.permitted_axioms : \E t \in list : NameFromStr(t) = d.name
      BY DEF AdmittedAreListed
    <2>1. AxiomPermitted(d.name) BY DEF PrintInv, FromTheFile
    <2>2. PICK list \in config.permitted_axioms : NameToString(d.name) \in list BY <2>1 DEF AxiomPermitted
    <2>3. NameFromStr(NameToString(d.name)) = d.name
      <3>1. d.name \in DeclaredNames BY DEF DeclaredNames
      <3> QED BY <3>1, PlainDeclared
    <2> QED BY <2>2, <2>3
  <1> QED BY <1>1, ReportHolds, PTL

\* A text that is asked for is that of a request, which looks for the name that
\* the text stands for; the other requests look for declared names.
LEMMA DueFacts ==
    ASSUME IInv, PrintInv, Succeeded
    PROVE  /\ \A p \in config.pp_declars : \A t \in Elems(p) :
                 \E i \in DOMAIN Due : Due[i].text = t /\ Due[i].name = NameFromStr(t)
           /\ \A i \in DOMAIN Due : Due[i].name \in DeclaredNames \/ Due[i].name = NameFromStr(Due[i].text)
  <1> DEFINE axioms == IF config.print_axioms THEN AxiomRequests ELSE <<>>
             listed == ListedRequests
             due == Due
  <1>1. listed \in Seq(Request) /\ axioms \in Seq(Request)
    <2>1. <<>> \in Seq(Request) OBVIOUS
    <2> QED BY <2>1, RequestTypes DEF IInv, PrintInv, PrintingTypes
  <1>2. due = listed \o axioms BY DueIsDone DEF AllRequests
  <1>3. \A i \in DOMAIN listed : listed[i].name = NameFromStr(listed[i].text)
    <2>1. CASE config.pp_declars = {} BY <2>1 DEF ListedRequests
    <2>2. CASE config.pp_declars # {}
      <3> DEFINE p == CHOOSE q \in config.pp_declars : TRUE
      <3>1. ListedRequests = [i \in DOMAIN p |-> [text |-> p[i], name |-> NameFromStr(p[i])]] BY <2>2 DEF ListedRequests
      <3> HIDE DEF p
      <3> QED BY <3>1
    <2> QED BY <2>1, <2>2
  <1>4. ASSUME NEW p \in config.pp_declars, NEW t \in Elems(p)
        PROVE  \E i \in DOMAIN listed : listed[i].text = t /\ listed[i].name = NameFromStr(t)
    <2> DEFINE c == CHOOSE q \in config.pp_declars : TRUE
    <2>1. c \in config.pp_declars OBVIOUS
    <2>2. c = p
      <3>1. config \in Configs BY DEF PrintInv, PrintingTypes
      <3> QED BY <2>1, <3>1, InputsAssumption
    <2>3. ListedRequests = [i \in DOMAIN c |-> [text |-> c[i], name |-> NameFromStr(c[i])]] BY DEF ListedRequests
    <2> HIDE DEF c
    <2>4. PICK i \in DOMAIN p : p[i] = t BY DEF Elems
    <2>5. i \in DOMAIN listed /\ listed[i] = [text |-> p[i], name |-> NameFromStr(p[i])] BY <2>2, <2>3, <2>4
    <2> QED BY <2>4, <2>5
  <1>5. \A i \in DOMAIN axioms : axioms[i].name \in DeclaredNames
    <2>1. CASE config.print_axioms
      <3>1. \A r \in Elems(AxiomRequests) : r.name \in DeclaredNames BY AxiomsDeclared DEF IInv
      <3> QED BY <2>1, <3>1 DEF Elems
    <2>2. CASE ~config.print_axioms BY <2>2
    <2> QED BY <2>1, <2>2
  <1> HIDE DEF listed, axioms
  <1>6. /\ DOMAIN listed = 1 .. Len(listed) /\ DOMAIN axioms = 1 .. Len(axioms)
        /\ Len(listed) \in Nat /\ Len(axioms) \in Nat
    BY <1>1
  <1>7. /\ listed \o axioms \in Seq(Request) /\ Len(listed \o axioms) = Len(listed) + Len(axioms)
        /\ \A i \in 1 .. Len(listed) + Len(axioms) :
              (listed \o axioms)[i] = IF i <= Len(listed) THEN listed[i] ELSE axioms[i - Len(listed)]
    BY <1>1, ConcatFacts
  <1>8. /\ DOMAIN due = 1 .. Len(listed) + Len(axioms)
        /\ \A i \in 1 .. Len(listed) + Len(axioms) :
              due[i] = IF i <= Len(listed) THEN listed[i] ELSE axioms[i - Len(listed)]
    BY <1>2, <1>7
  <1> HIDE DEF due
  <1>9. \A i \in DOMAIN listed : i \in DOMAIN due /\ due[i] = listed[i] BY <1>6, <1>8
  <1>10. ASSUME NEW i \in DOMAIN due PROVE due[i].name \in DeclaredNames \/ due[i].name = NameFromStr(due[i].text)
    <2>1. CASE i <= Len(listed)
      <3>1. i \in DOMAIN listed /\ due[i] = listed[i] BY <1>6, <1>8, <2>1
      <3> QED BY <1>3, <3>1 DEF listed
    <2>2. CASE ~(i <= Len(listed))
      <3>1. i - Len(listed) \in DOMAIN axioms /\ due[i] = axioms[i - Len(listed)] BY <1>6, <1>8, <2>2
      <3> QED BY <1>5, <3>1 DEF axioms
    <2> QED BY <2>1, <2>2
  <1>11. \A p \in config.pp_declars : \A t \in Elems(p) :
            \E i \in DOMAIN due : due[i].text = t /\ due[i].name = NameFromStr(t)
    <2> SUFFICES ASSUME NEW p \in config.pp_declars, NEW t \in Elems(p)
                 PROVE  \E i \in DOMAIN due : due[i].text = t /\ due[i].name = NameFromStr(t)
      OBVIOUS
    <2>1. PICK i \in DOMAIN listed : listed[i].text = t /\ listed[i].name = NameFromStr(t) BY <1>4 DEF listed
    <2> QED BY <1>9, <2>1
  <1> QED BY <1>10, <1>11 DEF due

\* For every configuration and every file: where unknown requests are an
\* error, a request that passed the parser is found by the pretty printer,
\* unless what is written like it cannot be read back from its text.
THEOREM RequestsAreFoundHolds == Spec => []RequestsAreFound
  <1>1. IInv /\ PrintInv => RequestsAreFound
    <2> SUFFICES ASSUME IInv, PrintInv, Succeeded, destination # {}, config.unknown_pp_declar_hard_error,
                        NEW t \in UNION {Elems(p) : p \in config.pp_declars}
                 PROVE  LET written == {n \in DeclaredNames : NameToString(n) = t}
                        IN /\ written # {}
                           /\ \A n \in written :
                                 Plain(n) => \/ \E e \in Elems(output \o buffer) : e.name = n
                                             \/ [kind |-> "write", text |-> t] \in Elems(errs)
                           /\ [kind |-> "not_found", text |-> t] \in Elems(errs) => \A n \in written : ~Plain(n)
      BY DEF RequestsAreFound
    <2> DEFINE written == {n \in DeclaredNames : NameToString(n) = t}
               due == Due
    <2>1. written # {}
      <3>1. UnknownRequests = {} BY DEF PrintInv, Passed, Succeeded
      <3>2. t \in DeclaredTexts BY <3>1 DEF UnknownRequests
      <3> QED BY <3>2 DEF DeclaredTexts
    <2>2a. PICK printed \in SUBSET Found(Due) : \E both \in SUBSET printed : Reported(Due, printed, both)
      BY DueIsDone
    <2>2b. PICK both \in SUBSET printed : Reported(Due, printed, both) BY <2>2a
    <2>2. printed \in SUBSET Found(Due) /\ both \in SUBSET printed /\ Reported(Due, printed, both) BY <2>2a, <2>2b
    <2> DEFINE blamed == both \cup (DOMAIN due \ printed)
    <2>3. due \in Seq(Request) /\ printed \subseteq DOMAIN due BY <2>2, DueIsDone DEF Found
    <2>4. NamesOf(output \o buffer) = NamesOf(At(due, printed)) /\ errs = ErrorsOf(At(due, blamed))
      BY <2>2 DEF Reported
    <2>5. PICK i \in DOMAIN due : due[i].text = t /\ due[i].name = NameFromStr(t) BY DueFacts
    <2>6. \A j \in DOMAIN due : due[j].name \in DeclaredNames \/ due[j].name = NameFromStr(due[j].text) BY DueFacts
    <2>7. ASSUME NEW n \in written, Plain(n) PROVE NameFromStr(t) = n /\ n \in DeclaredNames BY <2>7, PlainDeclared
    <2> HIDE DEF due, written, blamed
    <2>8. Elems(At(due, printed)) = {due[j] : j \in printed \cap DOMAIN due}
          /\ Elems(At(due, blamed)) = {due[j] : j \in blamed \cap DOMAIN due}
      BY <2>3, AtFacts
    <2>9. ASSUME NEW n \in written, Plain(n)
          PROVE  (\E e \in Elems(output \o buffer) : e.name = n) \/ [kind |-> "write", text |-> t] \in Elems(errs)
      <3>1. CASE i \in printed
        <4>1. due[i] \in Elems(At(due, printed)) BY <2>8, <3>1
        <4>2. PICK j \in DOMAIN At(due, printed) : At(due, printed)[j] = due[i] BY <4>1 DEF Elems
        <4>3. NamesOf(At(due, printed))[j] = due[i].name BY <4>2 DEF NamesOf
        <4>4. DOMAIN NamesOf(At(due, printed)) = DOMAIN At(due, printed) BY DEF NamesOf
        <4>5. j \in DOMAIN NamesOf(output \o buffer) /\ NamesOf(output \o buffer)[j] = due[i].name
          BY <2>4, <4>2, <4>3, <4>4
        <4>6. j \in DOMAIN (output \o buffer) /\ (output \o buffer)[j].name = due[i].name
          BY <4>5 DEF NamesOf
        <4>7. (output \o buffer)[j] \in Elems(output \o buffer) BY <4>6 DEF Elems
        <4>8. due[i].name = n BY <2>5, <2>7, <2>9
        <4> QED BY <4>6, <4>7, <4>8
      <3>2. CASE i \notin printed
        <4>1. due[i] \in Elems(At(due, blamed)) BY <2>8, <3>2 DEF blamed
        <4>2. PICK j \in DOMAIN At(due, blamed) : At(due, blamed)[j] = due[i] BY <4>1 DEF Elems
        <4>3. due[i].name \in DeclaredNames /\ due[i].text = t BY <2>5, <2>7, <2>9
        <4>4. errs[j] = [kind |-> "write", text |-> t] /\ j \in DOMAIN errs BY <2>4, <4>2, <4>3 DEF ErrorsOf
        <4> QED BY <4>4 DEF Elems
      <3> QED BY <3>1, <3>2
    <2>10. ASSUME [kind |-> "not_found", text |-> t] \in Elems(errs), NEW n \in written PROVE ~Plain(n)
      <3>1. PICK k \in DOMAIN errs : errs[k] = [kind |-> "not_found", text |-> t] BY <2>10 DEF Elems
      <3>2. k \in DOMAIN At(due, blamed)
            /\ errs[k] = [kind |-> IF At(due, blamed)[k].name \in DeclaredNames THEN "write" ELSE "not_found",
                          text |-> At(due, blamed)[k].text]
        BY <2>4, <3>1 DEF ErrorsOf
      <3>3. At(due, blamed)[k] \in Elems(At(due, blamed)) BY <3>2 DEF Elems
      <3>4. PICK j \in DOMAIN due : At(due, blamed)[k] = due[j] BY <2>8, <3>3
      <3>5. errs[k].kind = "not_found" /\ errs[k].text = t BY <3>1
      <3>6. due[j].name \notin DeclaredNames /\ due[j].text = t BY <3>2, <3>4, <3>5
      <3>7. NameFromStr(t) \notin DeclaredNames BY <2>6, <3>6
      <3> QED BY <2>7, <3>7
    <2> QED BY <2>1, <2>9, <2>10 DEF written
  <1> QED BY <1>1, ReportHolds, PTL

=============================================================================
