-------------------------- MODULE Admission_proofs --------------------------
(***************************************************************************)
(* Proofs about Admission, for files of any length over any vocabulary of  *)
(* lines.  The parser keeps TypeOK, BlocksAreWindows and OriginInv; once   *)
(* the file is accepted every declaration has passed its check (PhaseInv), *)
(* and the promises follow from what the checks say of one another.        *)
(***************************************************************************)
EXTENDS Admission, SequenceTheorems, TLAPS

OriginInv ==
    /\ \A n \in OfKind("axiom") : PermitAll \/ n \in Permitted
    /\ \A n \in skipped : ~PermitAll /\ n \notin Permitted
    /\ HardError => skipped = {}
    /\ OfKind("ind") \subseteq TypeNames

PhaseInv ==
    /\ phase \in {"parsed", "accepted"} =>
          /\ AllCtorsListed
          /\ rec_names = [n \in {m \in Names : RecursorsOf(m) # {}} |-> RecursorsOf(n)]
    /\ Accepted => \A n \in Declared : CheckDeclar(n)

IInv == TypeOK /\ BlocksAreWindows /\ OriginInv /\ PhaseInv

-----------------------------------------------------------------------------
(* What an insertion does to the map.                                      *)

\* A concatenation of three sequences, position by position.
LEMMA Concat3 ==
    ASSUME NEW S, NEW a \in Seq(S), NEW b \in Seq(S), NEW c \in Seq(S)
    PROVE  /\ a \o b \o c \in Seq(S)
           /\ Len(a \o b \o c) = Len(a) + Len(b) + Len(c)
           /\ \A i \in 1 .. Len(a) : (a \o b \o c)[i] = a[i]
           /\ \A i \in 1 .. Len(b) : (a \o b \o c)[Len(a) + i] = b[i]
           /\ \A i \in 1 .. Len(c) : (a \o b \o c)[Len(a) + Len(b) + i] = c[i]
<1>1. /\ a \o b \in Seq(S) /\ Len(a \o b) = Len(a) + Len(b)
      /\ \A i \in 1 .. Len(a) : (a \o b)[i] = a[i]
      /\ \A i \in 1 .. Len(b) : (a \o b)[Len(a) + i] = b[i]
  BY ConcatProperties
<1>2. /\ a \o b \o c \in Seq(S) /\ Len(a \o b \o c) = Len(a \o b) + Len(c)
      /\ \A i \in 1 .. Len(a \o b) : (a \o b \o c)[i] = (a \o b)[i]
      /\ \A i \in 1 .. Len(c) : (a \o b \o c)[Len(a \o b) + i] = c[i]
  BY <1>1, ConcatProperties
<1>3. Len(a) \in Nat /\ Len(b) \in Nat /\ Len(c) \in Nat
  OBVIOUS
<1>4. \A i \in 1 .. Len(a) : i \in 1 .. Len(a \o b)
  BY <1>1, <1>3
<1>5. \A i \in 1 .. Len(b) : Len(a) + i \in 1 .. Len(a \o b)
  BY <1>1, <1>3
<1> QED BY <1>1, <1>2, <1>4, <1>5

\* The members of a block, in order, are its types, constructors, recursors.
LEMMA BlockMembers ==
    ASSUME NEW l \in Lines
    PROVE  /\ Members(l) \in Seq(Declar)
           /\ l.inds \in Seq(Declar)
           /\ \A i \in DOMAIN l.inds :
                 /\ i \in DOMAIN Members(l)
                 /\ Members(l)[i] = l.inds[i]
                 /\ l.inds[i].kind = "ind"
                 /\ l.inds[i].name \in TypeNames
           /\ \A i \in DOMAIN Members(l) :
                 /\ Members(l)[i].kind \in MemberKinds
                 /\ Members(l)[i].kind = "ind" => i \in DOMAIN l.inds
<1>1. l \in Line
  BY LinesAssumption
<1>2. PICK a, b, c, ms : a = l.inds /\ b = l.ctors /\ c = l.recs /\ ms = Members(l)
  OBVIOUS
<1>3. a \in Seq(Declar) /\ b \in Seq(Declar) /\ c \in Seq(Declar)
  BY <1>1, <1>2 DEF Line
<1>4. /\ \A i \in DOMAIN a : a[i].kind = "ind"
      /\ \A i \in DOMAIN b : b[i].kind = "ctor"
      /\ \A i \in DOMAIN c : c[i].kind = "rec"
  BY <1>2, LinesAssumption
<1>5. /\ ms \in Seq(Declar)
      /\ Len(ms) = Len(a) + Len(b) + Len(c)
      /\ \A i \in 1 .. Len(a) : ms[i] = a[i]
      /\ \A i \in 1 .. Len(b) : ms[Len(a) + i] = b[i]
      /\ \A i \in 1 .. Len(c) : ms[Len(a) + Len(b) + i] = c[i]
  <2>1. ms = a \o b \o c
    BY <1>2 DEF Members
  <2> QED BY <2>1, <1>3, Concat3
<1>6. ASSUME NEW i \in DOMAIN a PROVE i \in DOMAIN ms /\ ms[i] = a[i]
  <2>1. i \in 1 .. Len(a) /\ Len(a) \in Nat /\ Len(b) \in Nat /\ Len(c) \in Nat
    BY <1>3
  <2>2. i \in 1 .. Len(ms)
    BY <2>1, <1>5
  <2> QED BY <2>1, <2>2, <1>5
<1>7. ASSUME NEW i \in DOMAIN ms
      PROVE  /\ ms[i].kind \in MemberKinds
             /\ ms[i].kind = "ind" => i \in DOMAIN a
  <2>1. i \in 1 .. Len(ms) /\ Len(a) \in Nat /\ Len(b) \in Nat /\ Len(c) \in Nat
    BY <1>3, <1>5
  <2>2. CASE i <= Len(a)
    <3>1. i \in DOMAIN a /\ ms[i] = a[i]
      BY <2>1, <2>2, <1>3, <1>5
    <3> QED BY <3>1, <1>4 DEF MemberKinds
  <2>3. CASE i > Len(a) /\ i <= Len(a) + Len(b)
    <3> DEFINE j == i - Len(a)
    <3>1. j \in 1 .. Len(b) /\ i = Len(a) + j
      BY <2>1, <2>3
    <3>2. j \in DOMAIN b /\ ms[i] = b[j]
      BY <3>1, <1>3, <1>5
    <3> QED BY <3>2, <1>4 DEF MemberKinds
  <2>4. CASE i > Len(a) + Len(b)
    <3> DEFINE j == i - (Len(a) + Len(b))
    <3>1. j \in 1 .. Len(c) /\ i = Len(a) + Len(b) + j
      BY <2>1, <2>4, <1>5
    <3>2. j \in DOMAIN c /\ ms[i] = c[j]
      BY <3>1, <1>3, <1>5
    <3> QED BY <3>2, <1>4 DEF MemberKinds
  <2> QED BY <2>1, <2>2, <2>3, <2>4
<1>8. ASSUME NEW i \in DOMAIN a PROVE a[i].name \in TypeNames
  <2>1. a[i] \in Declar
    BY <1>3
  <2>2. a[i].name \in Names
    BY <2>1 DEF Declar
  <2> QED BY <1>2, <2>2 DEF TypeNames
<1> QED BY <1>2, <1>3, <1>4, <1>5, <1>6, <1>7, <1>8

\* Insert keeps the old entries and appends the new ones.
LEMMA Inserted ==
    ASSUME TypeOK, NEW ms \in Seq(Declar), Fresh(ms), Insert(ms)
    PROVE  /\ Declared' = Declared \cup {ms[i].name : i \in DOMAIN ms}
           /\ DOMAIN index' = Declared'
           /\ \A n \in Declared : declars'[n] = declars[n] /\ index'[n] = index[n]
           /\ \A i \in DOMAIN ms : /\ declars'[ms[i].name] = ms[i]
                                   /\ index'[ms[i].name] = len + i - 1
           /\ len' = len + Len(ms)
<1>1. /\ DOMAIN index = Declared
      /\ \A i \in DOMAIN ms : ms[i].name \notin Declared
      /\ \A i, j \in DOMAIN ms : i # j => ms[i].name # ms[j].name
  BY DEF TypeOK, Fresh
<1> DEFINE at == [i \in DOMAIN ms |-> len + i - 1]
<1>2. declars' = Extend(declars, ms, ms) /\ index' = Extend(index, ms, at) /\ len' = len + Len(ms)
  BY DEF Insert
<1>3. \A i \in DOMAIN ms : (CHOOSE j \in DOMAIN ms : ms[j].name = ms[i].name) = i
  BY <1>1
<1>4. /\ DOMAIN declars' = DOMAIN declars \cup {ms[i].name : i \in DOMAIN ms}
      /\ \A n \in DOMAIN declars : declars'[n] = declars[n]
      /\ \A i \in DOMAIN ms : declars'[ms[i].name] = ms[i]
  BY <1>1, <1>2, <1>3 DEF Extend, Declared
<1>5. /\ DOMAIN index' = DOMAIN index \cup {ms[i].name : i \in DOMAIN ms}
      /\ \A n \in DOMAIN index : index'[n] = index[n]
      /\ \A i \in DOMAIN ms : index'[ms[i].name] = at[i]
  BY <1>1, <1>2, <1>3 DEF Extend
<1> QED BY <1>1, <1>2, <1>4, <1>5 DEF Declared

-----------------------------------------------------------------------------
(* The parser.                                                             *)

LEMMA InitInv == Init => IInv
<1> SUFFICES ASSUME Init PROVE IInv
  OBVIOUS
<1>1. Declared = {} /\ DOMAIN index = {} /\ DOMAIN mutual_block_sizes = {} /\ DOMAIN rec_names = {}
  BY DEF Init, Declared
<1>2. TypeOK
  BY <1>1, ConfigAssumption DEF Init, TypeOK, Phases
<1>3. BlocksAreWindows /\ OriginInv /\ PhaseInv
  BY <1>1 DEF Init, BlocksAreWindows, OriginInv, PhaseInv, OfKind, Accepted
<1> QED BY <1>2, <1>3 DEF IInv

\* A line that is read extends the file by the declarations ms, at the
\* positions from len on, and records their window for those of kind "ind".
LEMMA FileGrows ==
    ASSUME TypeOK, BlocksAreWindows, OriginInv,
           phase = "reading", phase' = phase, rec_names' = rec_names, skipped' = skipped,
           line_num < MaxLines, line_num' = line_num + 1,
           NEW ms \in Seq(Declar), Fresh(ms), Insert(ms),
           \A i \in DOMAIN ms : ms[i].kind = "axiom" => AxiomPermitted(ms[i].name),
           \A i \in DOMAIN ms : ms[i].kind = "ind" => ms[i].name \in TypeNames,
           DOMAIN mutual_block_sizes' =
              DOMAIN mutual_block_sizes
                 \cup {ms[i].name : i \in {j \in DOMAIN ms : ms[j].kind = "ind"}},
           \A n \in DOMAIN mutual_block_sizes : mutual_block_sizes'[n] = mutual_block_sizes[n],
           \A i \in DOMAIN ms : ms[i].kind = "ind" =>
              mutual_block_sizes'[ms[i].name] = [start |-> len, size |-> Len(ms)]
    PROVE  TypeOK' /\ BlocksAreWindows' /\ OriginInv'
<1>1. /\ Declared' = Declared \cup {ms[i].name : i \in DOMAIN ms}
      /\ DOMAIN index' = Declared'
      /\ \A n \in Declared : declars'[n] = declars[n] /\ index'[n] = index[n]
      /\ \A i \in DOMAIN ms : declars'[ms[i].name] = ms[i] /\ index'[ms[i].name] = len + i - 1
      /\ len' = len + Len(ms)
  BY Inserted
<1>2. /\ \A i \in DOMAIN ms : i \in 1 .. Len(ms) /\ ms[i] \in Declar /\ ms[i].name \notin Declared
      /\ Len(ms) \in Nat /\ len \in Nat
  BY DEF Fresh, TypeOK
<1>3. len' \in Nat /\ len' >= len
  BY <1>1, <1>2
<1>4. \A n \in Declared' :
         declars'[n] \in Declar /\ declars'[n].name = n /\ index'[n] \in 0 .. len' - 1
  <2>1. ASSUME NEW n \in Declared
        PROVE  declars'[n] \in Declar /\ declars'[n].name = n /\ index'[n] \in 0 .. len' - 1
    <3>1. declars[n] \in Declar /\ declars[n].name = n /\ index[n] \in 0 .. len - 1
      BY DEF TypeOK
    <3> QED BY <3>1, <1>1, <1>2, <1>3
  <2>2. ASSUME NEW i \in DOMAIN ms
        PROVE  /\ declars'[ms[i].name] \in Declar /\ declars'[ms[i].name].name = ms[i].name
               /\ index'[ms[i].name] \in 0 .. len' - 1
    <3>1. ms[i] \in Declar /\ i \in 1 .. Len(ms) /\ declars'[ms[i].name] = ms[i] /\ index'[ms[i].name] = len + i - 1
      BY <1>1, <1>2
    <3> QED BY <3>1, <1>1, <1>2
  <2> QED BY <2>1, <2>2, <1>1
<1>5. DOMAIN mutual_block_sizes' = {n \in Declared' : declars'[n].kind = "ind"}
  <2>1. DOMAIN mutual_block_sizes = {n \in Declared : declars[n].kind = "ind"}
    BY DEF TypeOK
  <2> QED BY <2>1, <1>1
<1>6. \A n \in DOMAIN mutual_block_sizes' :
         \/ /\ n \in DOMAIN mutual_block_sizes
            /\ mutual_block_sizes'[n] = mutual_block_sizes[n]
            /\ index'[n] = index[n]
         \/ \E i \in DOMAIN ms :
               /\ mutual_block_sizes'[n] = [start |-> len, size |-> Len(ms)]
               /\ index'[n] = len + i - 1
  <2>1. DOMAIN mutual_block_sizes \subseteq Declared
    BY DEF TypeOK
  <2> QED BY <2>1, <1>1
<1>7. TypeOK'
  <2>1. line_num' \in 0 .. MaxLines
    BY ConfigAssumption DEF TypeOK
  <2>2. \A n \in DOMAIN mutual_block_sizes' : mutual_block_sizes'[n] \in [start : Nat, size : Nat]
    <3> SUFFICES ASSUME NEW n \in DOMAIN mutual_block_sizes'
                 PROVE  mutual_block_sizes'[n] \in [start : Nat, size : Nat]
      OBVIOUS
    <3>1. CASE n \in DOMAIN mutual_block_sizes /\ mutual_block_sizes'[n] = mutual_block_sizes[n]
      BY <3>1 DEF TypeOK
    <3>2. CASE mutual_block_sizes'[n] = [start |-> len, size |-> Len(ms)]
      BY <3>2, <1>2
    <3> QED BY <3>1, <3>2, <1>6
  <2>3. \A n \in DOMAIN rec_names' : n \in Names /\ rec_names'[n] \subseteq Declared'
    BY <1>1 DEF TypeOK
  <2>4. phase' \in Phases /\ skipped' \subseteq Names
    BY DEF TypeOK
  <2> QED BY <1>1, <1>3, <1>4, <1>5, <2>1, <2>2, <2>3, <2>4 DEF TypeOK
<1>8. BlocksAreWindows'
  <2> DEFINE W(n) == mutual_block_sizes[n]
             V(n) == mutual_block_sizes'[n]
  <2>1. \A n \in DOMAIN mutual_block_sizes :
           /\ W(n).start \in Nat /\ W(n).size \in Nat /\ index[n] \in Nat
           /\ W(n).start <= index[n] /\ index[n] < W(n).start + W(n).size
           /\ W(n).start + W(n).size <= len
    BY DEF BlocksAreWindows, TypeOK
  <2>2. ASSUME NEW n \in DOMAIN mutual_block_sizes'
        PROVE  /\ V(n).start <= index'[n] /\ index'[n] < V(n).start + V(n).size
               /\ V(n).start + V(n).size <= len'
    <3>1. CASE /\ n \in DOMAIN mutual_block_sizes
               /\ V(n) = W(n) /\ index'[n] = index[n]
      BY <3>1, <2>1, <1>2, <1>3
    <3>2. CASE \E i \in DOMAIN ms : V(n) = [start |-> len, size |-> Len(ms)] /\ index'[n] = len + i - 1
      <4>1. PICK i \in 1 .. Len(ms) : V(n) = [start |-> len, size |-> Len(ms)] /\ index'[n] = len + i - 1
        BY <3>2, <1>2
      <4>2. V(n).start = len /\ V(n).size = Len(ms) /\ len' = len + Len(ms)
        BY <4>1, <1>1
      <4> HIDE DEF V
      <4> QED BY <4>1, <4>2, <1>2
    <3> QED BY <3>1, <3>2, <1>6
  <2>3. ASSUME NEW n \in DOMAIN mutual_block_sizes', NEW m \in DOMAIN mutual_block_sizes'
        PROVE  \/ V(n) = V(m)
               \/ V(n).start + V(n).size <= V(m).start
               \/ V(m).start + V(m).size <= V(n).start
    <3>1. CASE n \in DOMAIN mutual_block_sizes /\ m \in DOMAIN mutual_block_sizes
      BY <3>1 DEF BlocksAreWindows
    <3>2. CASE n \notin DOMAIN mutual_block_sizes \/ m \notin DOMAIN mutual_block_sizes
      BY <3>2, <2>1, <1>2, <1>6
    <3> QED BY <3>1, <3>2
  <2> QED BY <2>2, <2>3 DEF BlocksAreWindows
<1>9. OriginInv'
  <2>1. \A n \in Declared' : declars'[n].kind = "axiom" => PermitAll \/ n \in Permitted
    BY <1>1 DEF OriginInv, OfKind, AxiomPermitted
  <2>2. \A n \in Declared' : declars'[n].kind = "ind" => n \in TypeNames
    BY <1>1 DEF OriginInv, OfKind
  <2>3. /\ \A n \in skipped' : ~PermitAll /\ n \notin Permitted
        /\ HardError => skipped' = {}
    BY DEF OriginInv
  <2> QED BY <2>1, <2>2, <2>3 DEF OriginInv, OfKind
<1> QED BY <1>7, <1>8, <1>9

\* A file that is rejected while it is read stays as it is.
LEMMA FailKeepsFile ==
    ASSUME IInv, Fail
    PROVE  IInv'
<1>1. phase' = "rejected" /\ UNCHANGED <<line_num, declars, index, len, mutual_block_sizes, skipped, rec_names>>
  BY DEF Fail, fileVars
<1>2. Declared' = Declared
  BY <1>1 DEF Declared
<1>3. TypeOK'
  BY <1>1, <1>2 DEF IInv, TypeOK, Phases
<1>4. BlocksAreWindows'
  BY <1>1 DEF IInv, BlocksAreWindows
<1>5. OriginInv'
  BY <1>1, <1>2 DEF IInv, OriginInv, OfKind
<1>6. PhaseInv'
  BY <1>1 DEF PhaseInv, Accepted
<1> QED BY <1>3, <1>4, <1>5, <1>6 DEF IInv

\* The single declaration of a line.
LEMMA SingleMember ==
    ASSUME NEW l \in Lines, l.single # <<>>
    PROVE  /\ l.single \in Seq(Declar)
           /\ DOMAIN l.single = {1}
           /\ l.single[1] \in Declar
           /\ l.single[1].kind \notin MemberKinds
<1>1. l \in Line /\ Len(l.single) = 1 /\ \A i \in DOMAIN l.single : l.single[i].kind \notin MemberKinds
  BY LinesAssumption
<1>2. l.single \in Seq(Declar)
  BY <1>1 DEF Line
<1> QED BY <1>1, <1>2

\* A line with one declaration that is inserted.
LEMMA SingleInserted ==
    ASSUME IInv, NEW l \in Lines, l.single # <<>>, Reading,
           Fresh(l.single), Insert(l.single),
           l.single[1].kind = "axiom" => AxiomPermitted(l.single[1].name),
           line_num' = line_num + 1,
           UNCHANGED <<phase, mutual_block_sizes, skipped, rec_names>>
    PROVE  IInv'
<1>1. /\ l.single \in Seq(Declar)
      /\ \A i \in DOMAIN l.single : i = 1 /\ l.single[i].kind # "ind"
  BY SingleMember DEF MemberKinds
<1>2. /\ phase = "reading" /\ phase' = phase /\ line_num < MaxLines
      /\ rec_names' = rec_names /\ skipped' = skipped /\ mutual_block_sizes' = mutual_block_sizes
  BY DEF Reading
<1>3. TypeOK /\ BlocksAreWindows /\ OriginInv
  BY DEF IInv
<1>4. DOMAIN mutual_block_sizes' =
         DOMAIN mutual_block_sizes
            \cup {l.single[i].name : i \in {j \in DOMAIN l.single : l.single[j].kind = "ind"}}
  BY <1>1, <1>2
<1>5. \A i \in DOMAIN l.single : l.single[i].kind = "axiom" => AxiomPermitted(l.single[i].name)
  BY <1>1
<1>6. TypeOK' /\ BlocksAreWindows' /\ OriginInv'
  BY <1>1, <1>2, <1>3, <1>4, <1>5, FileGrows
<1>7. PhaseInv'
  BY <1>2 DEF PhaseInv, Accepted
<1> QED BY <1>6, <1>7 DEF IInv

LEMMA AxiomStep == ASSUME IInv, NEW l \in Lines, ReadAxiom(l) PROVE IInv'
<1> DEFINE name == l.single[1].name
<1>1. Reading /\ l.single # <<>> /\ l.single[1].kind = "axiom"
  BY DEF ReadAxiom
<1>2. CASE /\ AxiomPermitted(name) /\ Fresh(l.single) /\ Insert(l.single)
           /\ line_num' = line_num + 1 /\ UNCHANGED <<phase, mutual_block_sizes, skipped, rec_names>>
  BY <1>1, <1>2, SingleInserted
<1>3. CASE /\ ~AxiomPermitted(name) /\ ~HardError
           /\ skipped' = skipped \cup {name} /\ line_num' = line_num + 1
           /\ UNCHANGED <<phase, declars, index, len, mutual_block_sizes, rec_names>>
  <2>1. name \in Names
    BY <1>1, SingleMember DEF Declar
  <2>2. Declared' = Declared
    BY <1>3 DEF Declared
  <2>3. line_num' \in 0 .. MaxLines
    BY <1>1, <1>3, ConfigAssumption DEF IInv, TypeOK, Reading
  <2>4. TypeOK'
    BY <1>3, <2>1, <2>2, <2>3 DEF IInv, TypeOK
  <2>5. BlocksAreWindows'
    BY <1>3 DEF IInv, BlocksAreWindows
  <2>6. OriginInv'
    BY <1>3, <2>2 DEF IInv, OriginInv, OfKind, AxiomPermitted
  <2>7. PhaseInv'
    BY <1>1, <1>3 DEF PhaseInv, Accepted, Reading
  <2> QED BY <2>4, <2>5, <2>6, <2>7 DEF IInv
<1>4. CASE Fail
  BY <1>4, FailKeepsFile
<1> QED BY <1>2, <1>3, <1>4 DEF ReadAxiom

LEMMA SingleStep == ASSUME IInv, NEW l \in Lines, ReadSingle(l) PROVE IInv'
<1>1. Reading /\ l.single # <<>> /\ l.single[1].kind # "axiom"
  BY DEF ReadSingle
<1>2. CASE /\ Fresh(l.single) /\ Insert(l.single) /\ line_num' = line_num + 1
           /\ UNCHANGED <<phase, mutual_block_sizes, skipped, rec_names>>
  BY <1>1, <1>2, SingleInserted
<1>3. CASE Fail
  BY <1>3, FailKeepsFile
<1> QED BY <1>2, <1>3 DEF ReadSingle

\* The members ms of a block are inserted, inds being its types.
LEMMA BlockInserted ==
    ASSUME IInv, NEW ms \in Seq(Declar), NEW inds \in Seq(Declar),
           phase = "reading", line_num < MaxLines,
           \A i \in DOMAIN inds : i \in DOMAIN ms /\ ms[i] = inds[i] /\ inds[i].kind = "ind",
           \A i \in DOMAIN inds : inds[i].name \in TypeNames,
           \A i \in DOMAIN ms : ms[i].kind \in MemberKinds,
           \A i \in DOMAIN ms : ms[i].kind = "ind" => i \in DOMAIN inds,
           Fresh(ms), Insert(ms),
           mutual_block_sizes' =
              Extend(mutual_block_sizes, inds,
                     [i \in DOMAIN inds |-> [start |-> len, size |-> Len(ms)]]),
           line_num' = line_num + 1, UNCHANGED <<phase, skipped, rec_names>>
    PROVE  IInv'
<1> DEFINE window == [start |-> len, size |-> Len(ms)]
<1>1. mutual_block_sizes' = Extend(mutual_block_sizes, inds, [i \in DOMAIN inds |-> window])
  OBVIOUS
<1> HIDE DEF window
<1>2. /\ \A i \in DOMAIN ms : ms[i].name \notin Declared
      /\ \A i, j \in DOMAIN ms : i # j => ms[i].name # ms[j].name
  BY DEF Fresh
<1>3. /\ \A i \in DOMAIN inds : inds[i].name \notin DOMAIN mutual_block_sizes
      /\ \A i, j \in DOMAIN inds : i # j => inds[i].name # inds[j].name
  BY <1>2 DEF IInv, TypeOK
<1>4. \A i \in DOMAIN inds : (CHOOSE j \in DOMAIN inds : inds[j].name = inds[i].name) = i
  BY <1>3
<1>5. /\ DOMAIN mutual_block_sizes' = DOMAIN mutual_block_sizes \cup {inds[i].name : i \in DOMAIN inds}
      /\ \A n \in DOMAIN mutual_block_sizes : mutual_block_sizes'[n] = mutual_block_sizes[n]
      /\ \A i \in DOMAIN inds : mutual_block_sizes'[inds[i].name] = window
  <2> DEFINE at == [i \in DOMAIN inds |-> window]
             Pos(n) == CHOOSE j \in DOMAIN inds : inds[j].name = n
             D == DOMAIN mutual_block_sizes \cup {inds[i].name : i \in DOMAIN inds}
  <2>1. mutual_block_sizes' = [n \in D |-> IF n \in DOMAIN mutual_block_sizes
                                          THEN mutual_block_sizes[n] ELSE at[Pos(n)]]
    BY <1>1, Zenon DEF Extend
  <2>2. \A i \in DOMAIN inds : Pos(inds[i].name) = i /\ at[i] = window
    BY <1>4
  <2> HIDE DEF at, Pos
  <2>3. DOMAIN mutual_block_sizes' = D
    BY <2>1
  <2>4. \A n \in DOMAIN mutual_block_sizes : mutual_block_sizes'[n] = mutual_block_sizes[n]
    BY <2>1
  <2>5. ASSUME NEW i \in DOMAIN inds PROVE mutual_block_sizes'[inds[i].name] = window
    <3>1. inds[i].name \in D /\ inds[i].name \notin DOMAIN mutual_block_sizes
      BY <1>3
    <3>2. mutual_block_sizes'[inds[i].name] = at[Pos(inds[i].name)]
      BY <2>1, <3>1
    <3> QED BY <2>2, <3>2
  <2> QED BY <2>3, <2>4, <2>5
<1>6. {inds[i].name : i \in DOMAIN inds} = {ms[i].name : i \in {j \in DOMAIN ms : ms[j].kind = "ind"}}
  <2>1. DOMAIN inds = {j \in DOMAIN ms : ms[j].kind = "ind"}
    OBVIOUS
  <2>2. \A i \in DOMAIN inds : ms[i] = inds[i]
    OBVIOUS
  <2> QED BY <2>1, <2>2
<1>7. \A i \in DOMAIN ms : ms[i].kind = "ind" => mutual_block_sizes'[ms[i].name] = window
  BY <1>5
<1>8. \A i \in DOMAIN ms : ms[i].kind # "axiom"
  <2>1. "axiom" \notin MemberKinds
    BY DEF MemberKinds
  <2> SUFFICES ASSUME NEW i \in DOMAIN ms PROVE ms[i].kind # "axiom"
    OBVIOUS
  <2>2. ms[i].kind \in MemberKinds
    OBVIOUS
  <2> QED BY <2>1, <2>2
<1>9. TypeOK' /\ BlocksAreWindows' /\ OriginInv'
  <2>1. phase' = phase /\ rec_names' = rec_names /\ skipped' = skipped
    OBVIOUS
  <2>2. TypeOK /\ BlocksAreWindows /\ OriginInv
    BY DEF IInv
  <2>3. \A i \in DOMAIN ms : ms[i].kind = "ind" => mutual_block_sizes'[ms[i].name] = [start |-> len, size |-> Len(ms)]
    BY <1>7 DEF window
  <2>4. DOMAIN mutual_block_sizes' =
           DOMAIN mutual_block_sizes \cup {ms[i].name : i \in {j \in DOMAIN ms : ms[j].kind = "ind"}}
    BY <1>5, <1>6
  <2>5. \A i \in DOMAIN ms : ms[i].kind = "ind" => ms[i].name \in TypeNames
    OBVIOUS
  <2> QED BY <2>1, <2>2, <2>3, <2>4, <2>5, <1>5, <1>8, FileGrows
<1>10. PhaseInv'
  BY DEF PhaseInv, Accepted
<1> QED BY <1>9, <1>10 DEF IInv

LEMMA InductiveStep == ASSUME IInv, NEW l \in Lines, ReadInductive(l) PROVE IInv'
<1>1. phase = "reading" /\ line_num < MaxLines
  BY DEF ReadInductive, Reading
<1>2. CASE /\ Fresh(Members(l)) /\ Insert(Members(l))
           /\ mutual_block_sizes' =
                 Extend(mutual_block_sizes, l.inds,
                        [i \in DOMAIN l.inds |-> [start |-> len, size |-> Len(Members(l))]])
           /\ line_num' = line_num + 1 /\ UNCHANGED <<phase, skipped, rec_names>>
  BY <1>1, <1>2, BlockMembers, BlockInserted
<1>3. CASE Fail
  BY <1>3, FailKeepsFile
<1> QED BY <1>2, <1>3 DEF ReadInductive

LEMMA EndStep == ASSUME IInv, EndOfFile PROVE IInv'
<1>1. CASE /\ AllCtorsListed /\ phase' = "parsed"
           /\ rec_names' = [n \in {m \in Names : RecursorsOf(m) # {}} |-> RecursorsOf(n)]
           /\ UNCHANGED fileVars
  <2>1. UNCHANGED <<line_num, declars, index, len, mutual_block_sizes, skipped>>
    BY <1>1 DEF fileVars
  <2>2. Declared' = Declared
    BY <2>1 DEF Declared
  <2>3. \A n : RecursorsOf(n)' = RecursorsOf(n)
    BY <2>1, <2>2 DEF RecursorsOf
  <2>4. \A n \in DOMAIN rec_names' : n \in Names /\ rec_names'[n] \subseteq Declared'
    BY <1>1, <2>2 DEF RecursorsOf
  <2>5. TypeOK'
    BY <1>1, <2>1, <2>2, <2>4 DEF IInv, TypeOK, Phases
  <2>6. BlocksAreWindows'
    BY <2>1 DEF IInv, BlocksAreWindows
  <2>7. OriginInv'
    BY <2>1, <2>2 DEF IInv, OriginInv, OfKind
  <2>8. AllCtorsListed'
    BY <1>1, <2>1, <2>2 DEF AllCtorsListed, CtorListed
  <2>9. rec_names' = [n \in {m \in Names : RecursorsOf(m)' # {}} |-> RecursorsOf(n)']
    BY <1>1, <2>3
  <2>10. PhaseInv'
    BY <1>1, <2>8, <2>9 DEF PhaseInv, Accepted
  <2> QED BY <2>5, <2>6, <2>7, <2>10 DEF IInv
<1>2. CASE Fail
  BY <1>2, FailKeepsFile
<1> QED BY <1>1, <1>2 DEF EndOfFile

\* What a check returns depends on the parsed file alone.
LEMMA SameChecks ==
    ASSUME UNCHANGED <<declars, index, mutual_block_sizes, rec_names>>, NEW n
    PROVE  CheckDeclar(n)' = CheckDeclar(n)
<1>0. Declared' = Declared
  BY DEF Declared
<1>1. \A m, c : Visible(m, c)' = Visible(m, c)
  BY <1>0 DEF Visible
<1>2. \A m, k : IsA(m, k)' = IsA(m, k)
  BY <1>0 DEF IsA
<1>3. \A ns, c : AllVisible(ns, c)' = AllVisible(ns, c)
  BY <1>1 DEF AllVisible
<1>4. \A m : ByName(m)' = ByName(m) /\ BlockEnd(m)' = BlockEnd(m) /\ Block(m)' = Block(m)
  BY DEF ByName, BlockEnd, Block
<1>5. CheckPlain(n)' = CheckPlain(n) /\ CheckConstructor(n)' = CheckConstructor(n)
  BY <1>0, <1>3, <1>4 DEF CheckPlain, CheckConstructor
<1>6. CheckRecursor(n)' = CheckRecursor(n)
  BY <1>0, <1>2, <1>3, <1>4 DEF CheckRecursor
<1>7. CheckQuot(n)' = CheckQuot(n)
  BY <1>1, <1>2, <1>4 DEF CheckQuot
<1>8. Nests(n)' = Nests(n)
  BY <1>4 DEF Nests
<1>9. DerivedRecs(n)' = DerivedRecs(n)
  BY <1>4, <1>8 DEF DerivedRecs
<1>10. /\ ScanBlock(n)' = ScanBlock(n) /\ CollectMutuals(n)' = CollectMutuals(n)
       /\ CheckSpecs(n)' = CheckSpecs(n)
  BY <1>1, <1>2, <1>4 DEF ScanBlock, CollectMutuals, CheckSpecs
<1>11. RecursorNamesMatch(n)' = RecursorNamesMatch(n) /\ TypesMatch(n)' = TypesMatch(n)
  BY <1>4, <1>8, <1>9 DEF RecursorNamesMatch, TypesMatch
<1>12. CtorsMatch(n)' = CtorsMatch(n) /\ RecursorsMatch(n)' = RecursorsMatch(n)
  BY <1>1, <1>2, <1>4, <1>8, <1>9 DEF CtorsMatch, RecursorsMatch, IsDerived
<1>13. CheckInductive(n)' = CheckInductive(n)
  BY <1>3, <1>4, <1>10, <1>11, <1>12 DEF CheckInductive
<1> QED BY <1>5, <1>6, <1>7, <1>13 DEF CheckDeclar

LEMMA CheckStep == ASSUME IInv, CheckAllDeclars PROVE IInv'
<1>1. /\ phase = "parsed" /\ phase' \in {"accepted", "rejected"}
      /\ phase' = "accepted" => \A n \in Declared : CheckDeclar(n)
  BY DEF CheckAllDeclars
<1>2. UNCHANGED <<line_num, declars, index, len, mutual_block_sizes, skipped, rec_names>>
  BY DEF CheckAllDeclars, fileVars
<1>3. Declared' = Declared
  BY <1>2 DEF Declared
<1>4. TypeOK' /\ BlocksAreWindows' /\ OriginInv'
  BY <1>1, <1>2, <1>3 DEF IInv, TypeOK, BlocksAreWindows, OriginInv, OfKind, Phases
<1>5. AllCtorsListed' /\ rec_names' = [n \in {m \in Names : RecursorsOf(m)' # {}} |-> RecursorsOf(n)']
  BY <1>1, <1>2, <1>3 DEF IInv, PhaseInv, AllCtorsListed, CtorListed, RecursorsOf
<1>6. \A n : CheckDeclar(n)' = CheckDeclar(n)
  BY <1>2, SameChecks
<1>7. PhaseInv'
  BY <1>1, <1>3, <1>5, <1>6 DEF PhaseInv, Accepted
<1> QED BY <1>4, <1>7 DEF IInv

LEMMA StepInv == IInv /\ [Next]_vars => IInv'
<1> SUFFICES ASSUME IInv, [Next]_vars PROVE IInv'
  OBVIOUS
<1>1. CASE \E l \in Lines : ReadLine(l)
  BY <1>1, AxiomStep, SingleStep, InductiveStep DEF ReadLine
<1>2. CASE EndOfFile
  BY <1>2, EndStep
<1>3. CASE CheckAllDeclars
  BY <1>3, CheckStep
<1>4. CASE UNCHANGED vars
  <2>1. UNCHANGED <<phase, line_num, declars, index, len, mutual_block_sizes, skipped, rec_names>>
    BY <1>4 DEF vars, fileVars
  <2>2. Declared' = Declared
    BY <2>1 DEF Declared
  <2>3. \A n : CheckDeclar(n)' = CheckDeclar(n)
    BY <2>1, SameChecks
  <2>4. AllCtorsListed' = AllCtorsListed /\ \A n : RecursorsOf(n)' = RecursorsOf(n)
    BY <2>1, <2>2 DEF AllCtorsListed, CtorListed, RecursorsOf
  <2>5. TypeOK' /\ BlocksAreWindows' /\ OriginInv'
    BY <2>1, <2>2 DEF IInv, TypeOK, BlocksAreWindows, OriginInv, OfKind
  <2>6. PhaseInv'
    BY <2>1, <2>2, <2>3, <2>4 DEF IInv, PhaseInv, Accepted
  <2> QED BY <2>5, <2>6 DEF IInv
<1> QED BY <1>1, <1>2, <1>3, <1>4 DEF Next, Done

\* The strengthening holds throughout.
THEOREM Invariance == Spec => []IInv
BY InitInv, StepInv, PTL DEF Spec

-----------------------------------------------------------------------------
(* What acceptance means.                                                  *)

\* Every declaration of an accepted file has passed the check of its kind.
LEMMA Checked ==
    ASSUME IInv, Accepted
    PROVE  /\ \A n \in Declared : declars[n].kind \in ValueKinds \cup {"axiom"} => CheckPlain(n)
           /\ \A n \in OfKind("quot") : CheckQuot(n)
           /\ \A n \in OfKind("ctor") : CheckConstructor(n)
           /\ \A n \in OfKind("rec") : CheckRecursor(n)
           /\ \A n \in OfKind("ind") : CheckInductive(n)
<1>1. \A n \in Declared : CheckDeclar(n)
  BY DEF IInv, PhaseInv
<1> QED BY <1>1 DEF CheckDeclar, OfKind, ValueKinds

\* An inductive type of an accepted file: the recursors that name it are the
\* ones derived from its block.
LEMMA NamedByDerived ==
    ASSUME IInv, Accepted, NEW n \in OfKind("ind")
    PROVE  RecursorsOf(n) = DerivedRecs(n)
<1>1. CheckInductive(n)
  BY Checked
<1>2. n \in DOMAIN rec_names /\ rec_names[n] = DerivedRecs(n)
  BY <1>1 DEF CheckInductive, RecursorNamesMatch
<1>3. rec_names = [m \in {k \in Names : RecursorsOf(k) # {}} |-> RecursorsOf(m)]
  BY DEF IInv, PhaseInv, Accepted
<1> QED BY <1>2, <1>3

\* ... and those it sees name exactly the types of its block.
LEMMA SeenRecursors ==
    ASSUME IInv, Accepted, NEW n \in OfKind("ind"), NEW r \in DerivedRecs(n), Visible(r, BlockEnd(n))
    PROVE  r \in OfKind("rec") /\ Block(r) = Block(n) /\ declars[r].sound
<1>1. CheckInductive(n)
  BY Checked
<1>2. r \in OfKind("rec") /\ IsA(r, "rec")
  BY NamedByDerived DEF RecursorsOf, OfKind, IsA
<1> QED BY <1>1, <1>2 DEF CheckInductive, RecursorsMatch, IsDerived

\* A type whose recursors came with its block is in its own group.
LEMMA InOwnBlock ==
    ASSUME IInv, Accepted, NEW n \in OfKind("ind"), RecursorsInBlock(n)
    PROVE  n \in Block(n)
<1>1. CheckInductive(n)
  BY Checked
<1>2. PICK m \in Block(n) : RecName[m] \in DerivedRecs(n)
  <2>1. Block(n) # {}
    <3>1. declars[n].all # <<>> /\ declars[n].all \in Seq(Names)
      BY <1>1 DEF CheckInductive, CollectMutuals, IInv, TypeOK, Declar, OfKind
    <3>2. 1 \in DOMAIN declars[n].all
      BY <3>1
    <3> QED BY <3>2 DEF Block, Elems
  <2> QED BY <2>1 DEF DerivedRecs
<1>3. Block(RecName[m]) = Block(n)
  BY <1>2, SeenRecursors DEF RecursorsInBlock
<1>4. n \in Elems(declars[RecName[m]].all)
  BY <1>2, NamedByDerived DEF RecursorsOf
<1> QED BY <1>3, <1>4 DEF Block

\* The declarations a file is accepted with rest on earlier ones: each was
\* checked against the positions before its own cutoff.
LEMMA AcceptedUses == IInv => EarlierUses
<1> SUFFICES ASSUME IInv, Accepted, NEW n \in Declared \ OfKind("quot"), NEW m \in declars[n].uses
             PROVE  m \in Declared /\ (index[m] < index[n] \/ (n \in OfKind("ind") /\ index[m] < BlockEnd(n)))
  BY DEF EarlierUses
<1>1. declars[n].kind \in Kinds
  BY DEF IInv, TypeOK, Declar
<1>2. CASE n \in OfKind("ind")
  BY <1>2, Checked DEF CheckInductive, AllVisible, Visible
<1>3. CASE n \in OfKind("ctor") \/ n \in OfKind("rec")
  <2>1. AllVisible(declars[n].uses, ByName(n))
    BY <1>3, Checked DEF CheckConstructor, CheckRecursor
  <2> QED BY <2>1 DEF AllVisible, Visible, ByName
<1>4. CASE declars[n].kind \in ValueKinds \cup {"axiom"}
  <2>1. AllVisible(declars[n].uses, ByName(n))
    BY <1>4, Checked DEF CheckPlain
  <2> QED BY <2>1 DEF AllVisible, Visible, ByName
<1> QED BY <1>1, <1>2, <1>3, <1>4 DEF Kinds, MemberKinds, OfKind

LEMMA SkippedUnused == IInv => SkippedAxiomsStayOut
<1> SUFFICES ASSUME IInv, Accepted PROVE SkippedAxiomsStayOut
  BY DEF SkippedAxiomsStayOut
<1>1. \A n \in OfKind("axiom") : (PermitAll \/ n \in Permitted) /\ n \notin skipped
  BY DEF IInv, OriginInv
<1>2. \A n \in Declared \ OfKind("quot") : declars[n].uses \cap skipped \subseteq Declared
  BY AcceptedUses DEF EarlierUses
<1>3. HardError => skipped = {}
  BY DEF IInv, OriginInv
<1> QED BY <1>1, <1>2, <1>3 DEF SkippedAxiomsStayOut

LEMMA RecursorsFollow == IInv => RecursorsFollowTheirTypes
<1> SUFFICES ASSUME IInv, Accepted, NEW r \in OfKind("rec")
             PROVE  LET all == declars[r].all IN
                    /\ all # <<>> /\ IsA(all[1], "ind")
                    /\ \A m \in Block(r) : m \in Declared /\ index[m] < index[r]
                    /\ RecursorsInBlock(all[1]) => \A m \in Block(r) : IsA(m, "ind")
  BY DEF RecursorsFollowTheirTypes
<1> DEFINE n == declars[r].all[1]
<1>1. /\ declars[r].all # <<>> /\ IsA(n, "ind")
      /\ \A m \in Block(r) : m \in Declared /\ index[m] < index[r]
  BY Checked DEF CheckRecursor, Block, Elems
<1>2. ASSUME RecursorsInBlock(n) PROVE \A m \in Block(r) : IsA(m, "ind")
  <2>1. n \in OfKind("ind")
    BY <1>1 DEF IsA, OfKind
  <2>2. n \in Elems(declars[r].all)
    <3>1. declars[r].all \in Seq(Names)
      BY DEF IInv, TypeOK, Declar, OfKind
    <3>2. 1 \in DOMAIN declars[r].all
      BY <1>1, <3>1
    <3> QED BY <3>2 DEF Elems
  <2>3. r \in DerivedRecs(n)
    BY <2>1, <2>2, NamedByDerived DEF RecursorsOf, OfKind
  <2>4. Block(r) = Block(n)
    BY <1>2, <2>1, <2>3, SeenRecursors DEF RecursorsInBlock
  <2>5. CheckInductive(n)
    BY <2>1, Checked
  <2> QED BY <2>4, <2>5 DEF CheckInductive, ScanBlock
<1> QED BY <1>1, <1>2

LEMMA RecursorNames == IInv => RecursorNamesComplete
BY NamedByDerived DEF RecursorNamesComplete, RecursorsOf, OfKind, Block

LEMMA RecursorsDerived == IInv => RecursorsAreDerived
<1> SUFFICES ASSUME IInv, Accepted, NEW n \in OfKind("ind"), NEW r \in DerivedRecs(n)
             PROVE  /\ Visible(r, BlockEnd(n)) => Block(r) = Block(n) /\ declars[r].sound
                    /\ ~Nests(n) => Visible(r, BlockEnd(n))
  BY DEF RecursorsAreDerived
<1>1. CheckInductive(n)
  BY Checked
<1> QED BY <1>1, SeenRecursors DEF CheckInductive, RecursorsMatch

LEMMA CtorsCome == IInv => CtorsComeWithTheirType
<1> SUFFICES ASSUME IInv, Accepted, NEW c \in OfKind("ctor")
             PROVE  LET n == declars[c].ind IN
                    /\ IsA(n, "ind") /\ c \in declars[n].ctors
                    /\ RecursorsInBlock(n) =>
                          index[n] < index[c] /\ index[c] < BlockEnd(n) /\ declars[c].sound
  BY DEF CtorsComeWithTheirType
<1> DEFINE n == declars[c].ind
<1>1. IsA(n, "ind") /\ c \in declars[n].ctors
  BY DEF IInv, PhaseInv, Accepted, AllCtorsListed, CtorListed, IsA, OfKind
<1>2. ASSUME RecursorsInBlock(n)
      PROVE  index[n] < index[c] /\ index[c] < BlockEnd(n) /\ declars[c].sound
  <2>1. n \in OfKind("ind")
    BY <1>1 DEF IsA, OfKind
  <2>2. n \in Block(n)
    BY <1>2, <2>1, InOwnBlock
  <2>3. CheckInductive(n)
    BY <2>1, Checked
  <2>4. n \in declars[c].uses /\ Visible(c, BlockEnd(n))
    BY <1>1, <2>2, <2>3 DEF CheckInductive, CheckSpecs, CollectMutuals
  <2>5. declars[c].sound /\ Visible(n, ByName(c))
    BY <2>4, Checked DEF CheckConstructor, AllVisible
  <2> QED BY <2>4, <2>5 DEF Visible, ByName
<1> QED BY <1>1, <1>2

LEMMA GroupsBlocks == IInv => GroupsAreBlocks
<1> SUFFICES ASSUME IInv, Accepted, NEW n \in OfKind("ind"), RecursorsInBlock(n)
             PROVE  /\ n \in Block(n)
                    /\ \A m \in Block(n) :
                          Block(m) = Block(n) /\ mutual_block_sizes[m] = mutual_block_sizes[n]
  BY DEF GroupsAreBlocks
<1>1. n \in Block(n) /\ CheckInductive(n)
  BY InOwnBlock, Checked
<1> SUFFICES ASSUME NEW m \in Block(n)
             PROVE  Block(m) = Block(n) /\ mutual_block_sizes[m] = mutual_block_sizes[n]
  BY <1>1
<1>2. \A k \in Block(n) : k \in OfKind("ind") /\ k \in TypeNames /\ Visible(k, BlockEnd(n))
  BY <1>1 DEF CheckInductive, CollectMutuals, IsA, OfKind, IInv, OriginInv
<1>3. CheckInductive(m)
  BY <1>2, Checked
<1>4. Block(m) \subseteq Block(n)
  BY <1>1 DEF CheckInductive, TypesMatch
<1>5. ASSUME NEW k \in Block(n) PROVE k \in Block(m)
  <2>1. RecName[k] \in DerivedRecs(n)
    BY DEF DerivedRecs
  <2>2. RecName[k] \in OfKind("rec") /\ Block(RecName[k]) = Block(n)
    BY <2>1, SeenRecursors DEF RecursorsInBlock
  <2>3. RecName[k] \in RecursorsOf(m)
    BY <2>2 DEF RecursorsOf, OfKind, Block
  <2>4. RecName[k] \in DerivedRecs(m)
    BY <1>2, <2>3, NamedByDerived
  <2>5. declars[m].all[1] \in Block(m)
    <3>1. declars[m].all # <<>> /\ declars[m].all \in Seq(Names)
      BY <1>2, <1>3 DEF CheckInductive, CollectMutuals, IInv, TypeOK, Declar, OfKind
    <3>2. 1 \in DOMAIN declars[m].all
      BY <3>1
    <3> QED BY <3>2 DEF Block, Elems
  <2>6. RecName[k] # AuxRecName[declars[m].all[1]]
    BY <1>2, <1>4, <2>5, RecNameAssumption
  <2>7. PICK j \in Block(m) : RecName[k] = RecName[j]
    BY <2>4, <2>6 DEF DerivedRecs
  <2>8. k = j
    BY <1>2, <1>4, <2>7, RecNameAssumption
  <2> QED BY <2>7, <2>8
<1>6. Block(m) = Block(n)
  BY <1>4, <1>5
<1>7. Visible(n, BlockEnd(m)) /\ Visible(m, BlockEnd(n))
  BY <1>1, <1>2, <1>3, <1>6 DEF CheckInductive, CollectMutuals
<1>8. n \in DOMAIN mutual_block_sizes /\ m \in DOMAIN mutual_block_sizes
  BY <1>2 DEF IInv, TypeOK, OfKind
<1>9. mutual_block_sizes[m] = mutual_block_sizes[n]
  <2> DEFINE w == mutual_block_sizes[n]
             v == mutual_block_sizes[m]
  <2>1. /\ w.start \in Nat /\ w.size \in Nat /\ v.start \in Nat /\ v.size \in Nat
        /\ index[n] \in Nat /\ index[m] \in Nat
    BY <1>8 DEF IInv, TypeOK
  <2>2. index[n] < v.start + v.size /\ index[m] < w.start + w.size
    BY <1>7 DEF Visible, BlockEnd
  <2>3. /\ w.start <= index[n] /\ v.start <= index[m]
        /\ w = v \/ w.start + w.size <= v.start \/ v.start + v.size <= w.start
    BY <1>8 DEF IInv, BlocksAreWindows
  <2> HIDE DEF w, v
  <2>4. w = v
    BY <2>1, <2>2, <2>3
  <2> QED BY <2>4 DEF w, v
<1> QED BY <1>6, <1>9

LEMMA QuotOnEq == IInv => QuotRestsOnEq
<1> SUFFICES ASSUME IInv, Accepted, Lift \in OfKind("quot") PROVE QuotRestsOnEq
  BY DEF QuotRestsOnEq
<1>1. /\ IsA(Eq, "ind") /\ index[Eq] < index[Lift]
      /\ IsA(EqRefl, "ctor") /\ index[EqRefl] < index[Lift]
      /\ declars[Eq].ctors = {EqRefl}
  BY Checked DEF CheckQuot, Visible, ByName
<1>2. ASSUME RecursorsInBlock(Eq)
      PROVE  /\ {c \in OfKind("ctor") : declars[c].ind = Eq} = {EqRefl}
             /\ index[Eq] < index[EqRefl]
  <2>1. Eq \in OfKind("ind") /\ EqRefl \in OfKind("ctor")
    BY <1>1 DEF IsA, OfKind
  <2>2. declars[EqRefl].ind = Eq
    <3>1. Eq \in Block(Eq) /\ CheckInductive(Eq)
      BY <1>2, <2>1, InOwnBlock, Checked
    <3> QED BY <1>1, <3>1 DEF CheckInductive, CtorsMatch
  <2>3. \A c \in OfKind("ctor") : declars[c].ind = Eq => c = EqRefl
    BY <1>1, CtorsCome DEF CtorsComeWithTheirType
  <2>4. index[Eq] < index[EqRefl]
    BY <1>2, <2>1, <2>2, CtorsCome DEF CtorsComeWithTheirType
  <2> QED BY <2>1, <2>2, <2>3, <2>4
<1> QED BY <1>1, <1>2 DEF QuotRestsOnEq

-----------------------------------------------------------------------------
(* The theorems.                                                           *)

\* The parser's state is well formed for every file.
THEOREM TypeCorrect == Spec => []TypeOK
BY Invariance, PTL DEF IInv

\* The windows of inductive blocks hold their types and never overlap.
THEOREM WindowsHold == Spec => []BlocksAreWindows
BY Invariance, PTL DEF IInv

\* Checking each declaration against a prefix of the finished file amounts to
\* building an environment in order.
THEOREM UsesAreEarlier == Spec => []EarlierUses
BY Invariance, AcceptedUses, PTL

\* A skipped axiom takes no part in an accepted file.
THEOREM SkippedStayOut == Spec => []SkippedAxiomsStayOut
BY Invariance, SkippedUnused, PTL

\* There are no orphan recursors in an accepted file.
THEOREM RecursorsFollowTypes == Spec => []RecursorsFollowTheirTypes
BY Invariance, RecursorsFollow, PTL

\* The recursors that name a type are those derived from its block.
THEOREM RecursorNamesAgree == Spec => []RecursorNamesComplete
BY Invariance, RecursorNames, PTL

\* A recursor exported with its block has the derived type and rules.
THEOREM DerivedRecursors == Spec => []RecursorsAreDerived
BY Invariance, RecursorsDerived, PTL

\* A constructor is in the block of its type, after it, and was checked.
THEOREM CtorsWithTypes == Spec => []CtorsComeWithTheirType
BY Invariance, CtorsCome, PTL

\* A mutual group is one block, and its types agree on who is in it.
THEOREM GroupsExportedTogether == Spec => []GroupsAreBlocks
BY Invariance, GroupsBlocks, PTL

\* The equality that Quot.lift rests on is the one the file declares, with its
\* one constructor.
THEOREM QuotOnDeclaredEq == Spec => []QuotRestsOnEq
BY Invariance, QuotOnEq, PTL
=============================================================================
