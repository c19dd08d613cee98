---------------------------- MODULE Store_proofs ----------------------------
(***************************************************************************)
(* The arenas for every capacity and every file: equal nodes have equal    *)
(* pointers, a pointer leads to the node it was asked for, and no node     *)
(* points to itself or to what came after it.                              *)
(***************************************************************************)
EXTENDS Store, TLAPS

-----------------------------------------------------------------------------
(* The inductive invariant, one part per set of tables.                    *)

\* Every node is in the table of its constructor, and there once.
TablesOK(f) ==
    /\ f \in [Tables -> Seq(Node)]
    /\ \A t \in Tables : \A i \in DOMAIN f[t] : TableOf[f[t][i].tag] = t
    /\ \A t \in Tables : \A i, j \in DOMAIN f[t] : f[t][i] = f[t][j] => i = j

\* The pointers of node n at position i of table t of a file f.
FileKids(f, t, i, n) ==
    \A j \in DOMAIN n.kids :
        /\ ~IsOwn(n.kids[j])
        /\ t # "levels" => n.kids[j] < IF KidTables[n.tag][j] = t THEN i - 1 ELSE Len(f[KidTables[n.tag][j]])

\* The same of a checker's tables o.
OwnKids(f, o, t, i, n) ==
    \A j \in DOMAIN n.kids :
        IF IsOwn(n.kids[j])
        THEN Idx(n.kids[j]) < IF KidTables[n.tag][j] = t THEN i - 1 ELSE Len(o[KidTables[n.tag][j]])
        ELSE KidTables[n.tag][j] # "level" => n.kids[j] < Len(f[KidTables[n.tag][j]])

FileOK(f) ==
    /\ TablesOK(f)
    /\ \A t \in Tables : \A i \in DOMAIN f[t] : FileKids(f, t, i, f[t][i])

OwnOK(f, o) ==
    /\ TablesOK(o)
    /\ \A t \in Tables : \A i \in DOMAIN o[t] : OwnKids(f, o, t, i, o[t][i])
    /\ \A t \in Tables : Len(o[t]) <= Capacity
    /\ \A t \in Tables : \A i \in DOMAIN o[t], j \in DOMAIN f[t] : o[t][i] # f[t][j]

\* Nothing was allocated while reading, and the anonymous name stays where it is.
PhaseOK ==
    /\ phase \in {"reading", "checking", "stopped"}
    /\ phase = "reading" => own = Empty /\ answer = NoAnswer
    /\ Len(file["name"]) > 0 /\ file["name"][1] = Anon

AnswerOK ==
    /\ answer \in [table : Tables, node : Node, ptr : Pointers]
    /\ AnswerRight

IInv == FileOK(file) /\ OwnOK(file, own) /\ PhaseOK /\ AnswerOK

-----------------------------------------------------------------------------
(* Lemmas.                                                                 *)

\* A node is in a table, and so is what it points to.
LEMMA NodeFacts ==
    ASSUME NEW n \in Node
    PROVE  /\ n.tag \in Tags /\ TableOf[n.tag] \in Tables
           /\ n.kids \in [1 .. Len(KidTables[n.tag]) -> Pointers]
           /\ \A j \in DOMAIN n.kids : n.kids[j] \in Pointers /\ KidTables[n.tag][j] \in Tables
  <1>1. PICK c \in Tags : n \in NodesOf(c) BY DEF Node
  <1>2. n.tag = c /\ n.kids \in [1 .. Len(KidTables[c]) -> Pointers] BY <1>1 DEF NodesOf
  <1>3. TableOf[c] \in Tables BY DEF Tags, TableOf, Tables
  <1>4. \A j \in 1 .. Len(KidTables[c]) : KidTables[c][j] \in Tables
    <2>1. c \in {"anon", "str", "zero", "imax", "param", "list", "var", "sort", "const", "app"} BY DEF Tags, TableOf
    <2> QED BY <2>1 DEF KidTables, Tables
  <1> QED BY <1>2, <1>3, <1>4

\* The nodes the parser makes on its own.
LEMMA MadeNodes ==
    /\ Anon \in Node /\ Zero \in Node
    /\ \A p \in Pointers : MkNode("param", <<p>>) \in Node /\ MkNode("list", <<p>>) \in Node
    /\ \A p, q \in Pointers : MkNode("const", <<p, q>>) \in Node
  <1>1. Anon \in NodesOf("anon") /\ Zero \in NodesOf("zero") BY DEF Anon, Zero, MkNode, NodesOf, KidTables
  <1>2. \A p \in Pointers : MkNode("param", <<p>>) \in NodesOf("param") /\ MkNode("list", <<p>>) \in NodesOf("list")
    BY DEF MkNode, NodesOf, KidTables
  <1>3. \A p, q \in Pointers : MkNode("const", <<p, q>>) \in NodesOf("const") BY DEF MkNode, NodesOf, KidTables
  <1>4. {"anon", "zero", "param", "list", "const"} \subseteq Tags BY DEF Tags, TableOf
  <1> QED BY <1>1, <1>2, <1>3, <1>4 DEF Node

\* Where a node is that is in a sequence.
LEMMA IndexFacts ==
    ASSUME NEW s \in Seq(Node), NEW n \in Elems(s)
    PROVE  IndexOf(s, n) \in 0 .. Len(s) - 1 /\ s[IndexOf(s, n) + 1] = n
  BY DEF Elems, IndexOf

\* A node that is put in is there, at most one place further.
LEMMA InsertedFacts ==
    ASSUME NEW s \in Seq(Node), NEW n \in Node
    PROVE  /\ Inserted(s, n) \in Seq(Node) /\ Len(Inserted(s, n)) \in {Len(s), Len(s) + 1}
           /\ IndexOf(Inserted(s, n), n) \in 0 .. Len(Inserted(s, n)) - 1
           /\ Inserted(s, n)[IndexOf(Inserted(s, n), n) + 1] = n
  <1>1. CASE n \in Elems(s) BY <1>1, IndexFacts DEF Inserted
  <1>2. CASE n \notin Elems(s)
    <2>1. Inserted(s, n) = Append(s, n) /\ Append(s, n)[Len(s) + 1] = n BY <1>2 DEF Inserted
    <2>2. n \in Elems(Append(s, n)) BY <2>1 DEF Elems
    <2>3. Append(s, n) \in Seq(Node) /\ Len(Append(s, n)) = Len(s) + 1 OBVIOUS
    <2>4. IndexOf(Append(s, n), n) \in 0 .. Len(Append(s, n)) - 1 /\ Append(s, n)[IndexOf(Append(s, n), n) + 1] = n
      BY <2>2, <2>3, IndexFacts
    <2> QED BY <2>1, <2>3, <2>4
  <1> QED BY <1>1, <1>2

\* A new node at the end of its table.
LEMMA Appended ==
    ASSUME NEW f, TablesOK(f), NEW n \in Node, n \notin Elems(f[TableOf[n.tag]])
    PROVE  LET t == TableOf[n.tag]
               g == [f EXCEPT ![t] = Append(@, n)]
           IN /\ TablesOK(g)
              /\ t \in Tables /\ Len(g[t]) = Len(f[t]) + 1 /\ g[t][Len(f[t]) + 1] = n
              /\ \A u \in Tables : /\ Len(f[u]) \in Nat /\ Len(f[u]) <= Len(g[u])
                                   /\ DOMAIN f[u] = 1 .. Len(f[u]) /\ DOMAIN g[u] = 1 .. Len(g[u])
                                   /\ \A i \in DOMAIN f[u] : g[u][i] = f[u][i]
                                   /\ u # t => g[u] = f[u]
  <1> DEFINE t == TableOf[n.tag]
             g == [f EXCEPT ![t] = Append(@, n)]
  <1>1. t \in Tables /\ f \in [Tables -> Seq(Node)] BY NodeFacts DEF TablesOK
  <1>2. g[t] = Append(f[t], n) /\ \A u \in Tables : u # t => g[u] = f[u] BY <1>1
  <1>3. g \in [Tables -> Seq(Node)] BY <1>1
  <1>4. /\ Len(g[t]) = Len(f[t]) + 1 /\ g[t][Len(f[t]) + 1] = n
        /\ \A i \in 1 .. Len(f[t]) : g[t][i] = f[t][i]
    BY <1>1, <1>2
  <1>5. \A u \in Tables : /\ Len(f[u]) \in Nat /\ Len(f[u]) <= Len(g[u])
                          /\ DOMAIN f[u] = 1 .. Len(f[u]) /\ DOMAIN g[u] = 1 .. Len(g[u])
                          /\ \A i \in DOMAIN f[u] : g[u][i] = f[u][i]
    BY <1>1, <1>2, <1>3, <1>4
  <1>6. \A u \in Tables : \A i \in DOMAIN g[u] : TableOf[g[u][i].tag] = u
    <2> SUFFICES ASSUME NEW u \in Tables, NEW i \in DOMAIN g[u] PROVE TableOf[g[u][i].tag] = u OBVIOUS
    <2>1. CASE i \in DOMAIN f[u] BY <2>1, <1>5 DEF TablesOK
    <2>2. CASE i \notin DOMAIN f[u]
      <3>1. u = t /\ i = Len(f[t]) + 1 BY <2>2, <1>2, <1>4, <1>5
      <3> QED BY <3>1, <1>4
    <2> QED BY <2>1, <2>2
  <1>7. \A u \in Tables : \A i, j \in DOMAIN g[u] : g[u][i] = g[u][j] => i = j
    <2> SUFFICES ASSUME NEW u \in Tables, NEW i \in DOMAIN g[u], NEW j \in DOMAIN g[u], g[u][i] = g[u][j] PROVE i = j
      OBVIOUS
    <2>1. \A k \in DOMAIN f[t] : g[t][k] # n BY <1>1, <1>5 DEF Elems
    <2>2. \A k \in DOMAIN g[u] : k \in DOMAIN f[u] \/ (u = t /\ k = Len(f[t]) + 1) BY <1>2, <1>4, <1>5
    <2>3. i \in DOMAIN f[u] /\ j \in DOMAIN f[u] => i = j BY <1>5 DEF TablesOK
    <2> QED BY <2>1, <2>2, <2>3, <1>4
  <1> QED BY <1>1, <1>2, <1>3, <1>4, <1>5, <1>6, <1>7 DEF TablesOK

\* A node at the end of a file's table, if its pointers are to what is there.
LEMMA FileGrows ==
    ASSUME NEW f, FileOK(f), NEW n \in Node, n \notin Elems(f[TableOf[n.tag]]),
           FileKids(f, TableOf[n.tag], Len(f[TableOf[n.tag]]) + 1, n)
    PROVE  FileOK([f EXCEPT ![TableOf[n.tag]] = Append(@, n)])
  <1> DEFINE t == TableOf[n.tag]
             g == [f EXCEPT ![t] = Append(@, n)]
  <1>1. TablesOK(f) BY DEF FileOK
  <1>2. /\ TablesOK(g)
        /\ t \in Tables /\ Len(g[t]) = Len(f[t]) + 1 /\ g[t][Len(f[t]) + 1] = n
        /\ \A u \in Tables : /\ Len(f[u]) \in Nat /\ Len(f[u]) <= Len(g[u])
                             /\ DOMAIN f[u] = 1 .. Len(f[u]) /\ DOMAIN g[u] = 1 .. Len(g[u])
                             /\ \A i \in DOMAIN f[u] : g[u][i] = f[u][i]
                             /\ u # t => g[u] = f[u]
    BY ONLY <1>1, Appended, n \in Node, n \notin Elems(f[TableOf[n.tag]]), ZenonT(60)
  <1>3. \A u \in Tables : Len(g[u]) \in Nat BY <1>2 DEF TablesOK
  <1>4. ASSUME NEW u \in Tables, NEW i \in Nat, NEW m \in Node, FileKids(f, u, i, m)
        PROVE  FileKids(g, u, i, m)
    <2> SUFFICES ASSUME NEW j \in DOMAIN m.kids
                 PROVE  /\ ~IsOwn(m.kids[j])
                        /\ u # "levels" =>
                              m.kids[j] < IF KidTables[m.tag][j] = u THEN i - 1 ELSE Len(g[KidTables[m.tag][j]])
      BY DEF FileKids
    <2> DEFINE k == KidTables[m.tag][j]
    <2>1. k \in Tables /\ m.kids[j] \in Int BY NodeFacts, CapacityAssumption DEF Pointers
    <2>2. ~IsOwn(m.kids[j]) /\ (u # "levels" => m.kids[j] < IF k = u THEN i - 1 ELSE Len(f[k])) BY <1>4 DEF FileKids
    <2>3. Len(f[k]) \in Nat /\ Len(g[k]) \in Nat /\ Len(f[k]) <= Len(g[k]) BY <1>2, <1>3, <2>1
    <2> HIDE DEF k, g
    <2>4. u # "levels" => m.kids[j] < IF k = u THEN i - 1 ELSE Len(g[k]) BY <2>1, <2>2, <2>3
    <2> QED BY <2>2, <2>4 DEF k, g
  <1>5. \A u \in Tables : \A i \in DOMAIN g[u] : FileKids(g, u, i, g[u][i])
    <2> SUFFICES ASSUME NEW u \in Tables, NEW i \in DOMAIN g[u] PROVE FileKids(g, u, i, g[u][i]) OBVIOUS
    <2>1. g[u][i] \in Node /\ i \in Nat BY <1>2 DEF TablesOK
    <2>2. FileKids(f, u, i, g[u][i])
      <3>1. CASE i \in DOMAIN f[u] BY <3>1, <1>2 DEF FileOK
      <3>2. CASE i \notin DOMAIN f[u]
        <4>1. u = t /\ i = Len(f[t]) + 1 BY <3>2, <1>2, <1>3
        <4> QED BY <4>1, <1>2
      <3> QED BY <3>1, <3>2
    <2> QED BY <2>1, <2>2, <1>4
  <1> QED BY <1>2, <1>5 DEF FileOK

\* The levels table with a list in it.
LEMMA WithListOK ==
    ASSUME FileOK(file), NEW l \in Pointers, Fits(l)
    PROVE  /\ FileOK(WithList(l))
           /\ ListPtr(l) \in 0 .. Len(WithList(l)["levels"]) - 1
           /\ \A u \in Tables \ {"levels"} : WithList(l)[u] = file[u]
  <1> DEFINE n == MkNode("list", <<l>>)
  <1>1. n \in Node /\ n.tag = "list" /\ n.kids = <<l>> /\ TableOf[n.tag] = "levels"
    BY MadeNodes DEF MkNode, TableOf
  <1>2. file \in [Tables -> Seq(Node)] /\ "levels" \in Tables BY DEF FileOK, TablesOK, Tables
  <1>3. WithList(l) = [file EXCEPT !["levels"] = Inserted(@, n)] BY DEF WithList
  <1>4. FileOK(WithList(l))
    <2>1. CASE n \in Elems(file["levels"])
      <3>1. WithList(l) = file BY <2>1, <1>2, <1>3 DEF Inserted
      <3> QED BY <3>1
    <2>2. CASE n \notin Elems(file["levels"])
      <3>1. WithList(l) = [file EXCEPT ![TableOf[n.tag]] = Append(@, n)] BY <2>2, <1>1, <1>2, <1>3 DEF Inserted
      <3>2. FileKids(file, "levels", Len(file["levels"]) + 1, n)
        BY <1>1, CapacityAssumption DEF FileKids, IsOwn, Fits, Pointers
      <3>3. n \notin Elems(file[TableOf[n.tag]]) BY <2>2, <1>1
      <3> HIDE DEF n
      <3> QED BY <3>1, <3>2, <3>3, <1>1, FileGrows
    <2> QED BY <2>1, <2>2
  <1>5. WithList(l)["levels"] = Inserted(file["levels"], n) BY <1>2, <1>3
  <1>6. ListPtr(l) \in 0 .. Len(WithList(l)["levels"]) - 1
    BY <1>1, <1>2, <1>5, InsertedFacts DEF ListPtr
  <1> QED BY <1>2, <1>3, <1>4, <1>6

\* A node at the end of one of a checker's tables.
LEMMA OwnGrows ==
    ASSUME NEW f, FileOK(f), NEW o, OwnOK(f, o), NEW n \in Node,
           n \notin Elems(o[TableOf[n.tag]]), n \notin Elems(f[TableOf[n.tag]]),
           OwnKids(f, o, TableOf[n.tag], Len(o[TableOf[n.tag]]) + 1, n),
           Len(o[TableOf[n.tag]]) < Capacity
    PROVE  OwnOK(f, [o EXCEPT ![TableOf[n.tag]] = Append(@, n)])
  <1> DEFINE t == TableOf[n.tag]
             g == [o EXCEPT ![t] = Append(@, n)]
  <1>1. TablesOK(o) BY DEF OwnOK
  <1>2. /\ TablesOK(g)
        /\ t \in Tables /\ Len(g[t]) = Len(o[t]) + 1 /\ g[t][Len(o[t]) + 1] = n
        /\ \A u \in Tables : /\ Len(o[u]) \in Nat /\ Len(o[u]) <= Len(g[u])
                             /\ DOMAIN o[u] = 1 .. Len(o[u]) /\ DOMAIN g[u] = 1 .. Len(g[u])
                             /\ \A i \in DOMAIN o[u] : g[u][i] = o[u][i]
                             /\ u # t => g[u] = o[u]
    BY ONLY <1>1, Appended, n \in Node, n \notin Elems(o[TableOf[n.tag]]), ZenonT(60)
  <1>3. \A u \in Tables : Len(g[u]) \in Nat BY <1>2 DEF TablesOK
  <1>4. ASSUME NEW u \in Tables, NEW i \in Nat, NEW m \in Node, OwnKids(f, o, u, i, m)
        PROVE  OwnKids(f, g, u, i, m)
    <2> SUFFICES ASSUME NEW j \in DOMAIN m.kids
                 PROVE  IF IsOwn(m.kids[j])
                        THEN Idx(m.kids[j]) < IF KidTables[m.tag][j] = u THEN i - 1 ELSE Len(g[KidTables[m.tag][j]])
                        ELSE KidTables[m.tag][j] # "level" => m.kids[j] < Len(f[KidTables[m.tag][j]])
      BY DEF OwnKids
    <2> DEFINE k == KidTables[m.tag][j]
    <2>1. k \in Tables /\ Idx(m.kids[j]) \in Int BY NodeFacts, CapacityAssumption DEF Pointers, Idx, IsOwn
    <2>2. IF IsOwn(m.kids[j]) THEN Idx(m.kids[j]) < IF k = u THEN i - 1 ELSE Len(o[k])
          ELSE k # "level" => m.kids[j] < Len(f[k])
      BY <1>4 DEF OwnKids
    <2>3. Len(o[k]) \in Nat /\ Len(g[k]) \in Nat /\ Len(o[k]) <= Len(g[k]) BY <1>2, <1>3, <2>1
    <2> HIDE DEF k, g
    <2>4. IsOwn(m.kids[j]) => Idx(m.kids[j]) < IF k = u THEN i - 1 ELSE Len(g[k]) BY <2>1, <2>2, <2>3
    <2> QED BY <2>2, <2>4 DEF k, g
  <1>5. \A u \in Tables : \A i \in DOMAIN g[u] :
          g[u][i] \in Node /\ i \in Nat /\ (i \in DOMAIN o[u] \/ (u = t /\ i = Len(o[t]) + 1))
    <2> SUFFICES ASSUME NEW u \in Tables, NEW i \in DOMAIN g[u]
                 PROVE  g[u][i] \in Node /\ i \in Nat /\ (i \in DOMAIN o[u] \/ (u = t /\ i = Len(o[t]) + 1))
      OBVIOUS
    <2>1. g[u][i] \in Node BY <1>2 DEF TablesOK
    <2>2. i \in Nat /\ i <= Len(g[u]) /\ i >= 1 BY <1>2, <1>3
    <2>3. CASE u = t BY <2>1, <2>2, <2>3, <1>2
    <2>4. CASE u # t BY <2>1, <2>2, <2>4, <1>2
    <2> QED BY <2>3, <2>4
  <1>6. \A u \in Tables : \A i \in DOMAIN g[u] : OwnKids(f, g, u, i, g[u][i])
    <2> SUFFICES ASSUME NEW u \in Tables, NEW i \in DOMAIN g[u] PROVE OwnKids(f, g, u, i, g[u][i]) OBVIOUS
    <2>1. OwnKids(f, o, u, i, g[u][i])
      <3>1. CASE i \in DOMAIN o[u] BY <3>1, <1>2 DEF OwnOK
      <3>2. CASE u = t /\ i = Len(o[t]) + 1 BY <3>2, <1>2
      <3> QED BY <3>1, <3>2, <1>5
    <2> QED BY <2>1, <1>4, <1>5
  <1>7. \A u \in Tables : Len(g[u]) <= Capacity
    <2> SUFFICES ASSUME NEW u \in Tables PROVE Len(g[u]) <= Capacity OBVIOUS
    <2>1. CASE u = t BY <2>1, <1>2, CapacityAssumption
    <2>2. CASE u # t BY <2>2, <1>2 DEF OwnOK
    <2> QED BY <2>1, <2>2
  <1>8. \A u \in Tables : \A i \in DOMAIN g[u], j \in DOMAIN f[u] : g[u][i] # f[u][j]
    <2> SUFFICES ASSUME NEW u \in Tables, NEW i \in DOMAIN g[u], NEW j \in DOMAIN f[u] PROVE g[u][i] # f[u][j] OBVIOUS
    <2>1. CASE i \in DOMAIN o[u] BY <2>1, <1>2 DEF OwnOK
    <2>2. CASE u = t /\ i = Len(o[t]) + 1
      <3>1. g[u][i] = n BY <2>2, <1>2
      <3>2. f[t][j] \in Elems(f[t]) BY <2>2 DEF Elems
      <3> QED BY <3>1, <3>2, <2>2
    <2> QED BY <2>1, <2>2, <1>5
  <1> QED BY <1>2, <1>6, <1>7, <1>8 DEF OwnOK

-----------------------------------------------------------------------------
(* Steps.                                                                  *)

LEMMA StopOK == IInv /\ Stop => IInv'
  BY DEF IInv, Stop, PhaseOK, AnswerOK, AnswerRight, Stored, NodeAt

\* The answer of a context in which nothing was allocated.
LEMMA NoAnswerOK ==
    ASSUME FileOK(file), Len(file["name"]) > 0, file["name"][1] = Anon, answer = NoAnswer
    PROVE  AnswerOK
  <1>1. "name" \in Tables /\ file["name"] \in Seq(Node) BY DEF FileOK, TablesOK, Tables
  <1>2. 0 \in Pointers /\ ~IsOwn(0) /\ Idx(0) = 0 BY CapacityAssumption DEF Pointers, IsOwn, Idx
  <1>3. answer.table = "name" /\ answer.node = Anon /\ answer.ptr = 0 BY DEF NoAnswer, FilePtr
  <1>4. answer \in [table : Tables, node : Node, ptr : Pointers] BY <1>1, <1>2, MadeNodes DEF NoAnswer, FilePtr
  <1>5. Anon \in Elems(file["name"]) BY <1>1 DEF Elems
  <1>6. AnswerRight BY <1>1, <1>2, <1>3, <1>5 DEF AnswerRight, Stored, NodeAt
  <1> QED BY <1>4, <1>6 DEF AnswerOK

\* A context without nodes of its own.
LEMMA EmptyOK == ASSUME NEW f PROVE OwnOK(f, Empty)
  <1>1. \A t \in Tables : Empty[t] = <<>> BY DEF Empty
  <1>2. Empty \in [Tables -> Seq(Node)] BY DEF Empty
  <1>3. TablesOK(Empty) BY <1>1, <1>2 DEF TablesOK
  <1> QED BY <1>1, <1>3, CapacityAssumption DEF OwnOK

LEMMA FileStep ==
    ASSUME IInv, phase = "reading", UNCHANGED <<phase, own, answer>>,
           FileOK(file'), Len(file'["name"]) > 0, file'["name"][1] = Anon
    PROVE  IInv'
  <1>1. own' = Empty /\ answer' = NoAnswer /\ phase' = "reading" BY DEF IInv, PhaseOK
  <1>2. OwnOK(file, own)' BY <1>1, EmptyOK
  <1>3. PhaseOK' BY <1>1 DEF PhaseOK
  <1>4. AnswerOK'
    <2>1. FileOK(file)' OBVIOUS
    <2>2. (FileOK(file) /\ Len(file["name"]) > 0 /\ file["name"][1] = Anon /\ answer = NoAnswer => AnswerOK)'
      BY NoAnswerOK, PTL
    <2> QED BY <1>1, <2>1, <2>2
  <1> QED BY <1>2, <1>3, <1>4 DEF IInv

LEMMA AssertNextOK ==
    ASSUME IInv, phase = "reading", NEW f, FileOK(f), f["name"] = file["name"], NEW n \in Node, NEW i,
           FileKids(f, TableOf[n.tag], Len(f[TableOf[n.tag]]) + 1, n),
           AssertNext(f, n, i)
    PROVE  IInv'
  <1> DEFINE t == TableOf[n.tag]
  <1>1. CASE n \notin Elems(f[t]) /\ i = Len(f[t])
    <2>1. file' = [f EXCEPT ![t] = Append(@, n)] /\ UNCHANGED <<phase, own, answer>> BY <1>1 DEF AssertNext
    <2>2. FileOK(file') BY <1>1, <2>1, FileGrows
    <2>3. f["name"] \in Seq(Node) /\ f \in [Tables -> Seq(Node)] /\ "name" \in Tables
      BY DEF FileOK, TablesOK, Tables
    <2>4. Len(f["name"]) > 0 /\ f["name"][1] = Anon BY DEF IInv, PhaseOK
    <2>5. file'["name"] = f["name"] \/ file'["name"] = Append(f["name"], n) BY <2>1, <2>3
    <2>6. Len(file'["name"]) > 0 /\ file'["name"][1] = Anon BY <2>3, <2>4, <2>5
    <2> QED BY <2>1, <2>2, <2>6, FileStep
  <1>2. CASE ~(n \notin Elems(f[t]) /\ i = Len(f[t]))
    <2>1. Stop BY <1>2 DEF AssertNext
    <2> QED BY <2>1, StopOK
  <1> QED BY <1>1, <1>2

LEMMA ReadNodeOK == ASSUME IInv, NEW n \in Node, NEW i \in Pointers, ReadNode(n, i) PROVE IInv'
  <1> DEFINE t == TableOf[n.tag]
  <1>1. CASE \A j \in DOMAIN n.kids : GetPtr(KidTables[n.tag][j], n.kids[j])
    <2>1. FileOK(file) /\ phase = "reading" /\ AssertNext(file, n, i) BY <1>1 DEF IInv, ReadNode, Reading
    <2>2. file \in [Tables -> Seq(Node)] BY <2>1 DEF FileOK, TablesOK
    <2>3. FileKids(file, t, Len(file[t]) + 1, n)
      <3> SUFFICES ASSUME NEW j \in DOMAIN n.kids
                   PROVE  /\ ~IsOwn(n.kids[j])
                          /\ n.kids[j] < IF KidTables[n.tag][j] = t THEN Len(file[t]) + 1 - 1
                                         ELSE Len(file[KidTables[n.tag][j]])
        BY DEF FileKids
      <3>1. n.kids[j] \in Int BY NodeFacts, CapacityAssumption DEF Pointers
      <3>2. n.kids[j] < Capacity /\ n.kids[j] < Len(file[KidTables[n.tag][j]]) BY <1>1 DEF GetPtr, Fits
      <3>3. t \in Tables /\ Len(file[t]) \in Nat BY <2>2, NodeFacts
      <3> QED BY <3>1, <3>2, <3>3, CapacityAssumption DEF IsOwn
    <2> QED BY <2>1, <2>3, AssertNextOK
  <1>2. CASE ~\A j \in DOMAIN n.kids : GetPtr(KidTables[n.tag][j], n.kids[j])
    <2>1. Stop BY <1>2 DEF ReadNode
    <2> QED BY <2>1, StopOK
  <1> QED BY <1>1, <1>2

LEMMA ReadConstOK ==
    ASSUME IInv, NEW p \in Pointers, NEW l \in Pointers, NEW i \in Pointers, ReadConst(p, l, i) PROVE IInv'
  <1> DEFINE f == WithList(l)
             n == MkNode("const", <<p, ListPtr(l)>>)
  <1>1. CASE GetPtr("name", p) /\ Fits(l) /\ Fits(ListPtr(l))
    <2>1. FileOK(file) /\ phase = "reading" /\ AssertNext(f, n, i) BY <1>1 DEF IInv, ReadConst, Reading
    <2>2. /\ FileOK(f) /\ ListPtr(l) \in 0 .. Len(f["levels"]) - 1
          /\ \A u \in Tables \ {"levels"} : f[u] = file[u]
      BY <1>1, <2>1, WithListOK
    <2>3. "name" \in Tables /\ "levels" \in Tables /\ f["name"] = file["name"] BY <2>2 DEF Tables
    <2>4. f \in [Tables -> Seq(Node)] BY <2>2 DEF FileOK, TablesOK
    <2>5. Len(f["levels"]) \in Nat BY <2>3, <2>4
    <2>6. ListPtr(l) \in Int /\ 0 <= ListPtr(l) /\ ListPtr(l) < Len(f["levels"]) BY <2>2, <2>5
    <2>7. p \in Int /\ p < Capacity /\ p < Len(f["name"]) /\ ListPtr(l) < Capacity
      BY <1>1, <2>3, CapacityAssumption DEF GetPtr, Fits, Pointers
    <2>8. ListPtr(l) \in Pointers BY <2>6, <2>7, CapacityAssumption DEF Pointers
    <2>9. n \in Node BY <2>8, MadeNodes
    <2>10. n.tag = "const" /\ n.kids = <<p, ListPtr(l)>> /\ TableOf[n.tag] = "expr"
           /\ KidTables[n.tag] = <<"name", "levels">>
      BY DEF MkNode, TableOf, KidTables
    <2>11. ~IsOwn(p) /\ ~IsOwn(ListPtr(l)) BY <2>6, <2>7, CapacityAssumption DEF IsOwn
    <2>12. FileKids(f, TableOf[n.tag], Len(f[TableOf[n.tag]]) + 1, n)
      <3> SUFFICES ASSUME NEW j \in DOMAIN n.kids
                   PROVE  ~IsOwn(n.kids[j]) /\ KidTables[n.tag][j] # "expr" /\ n.kids[j] < Len(f[KidTables[n.tag][j]])
        BY <2>10 DEF FileKids
      <3>1. j = 1 \/ j = 2 BY <2>10
      <3>2. CASE j = 1 BY <3>2, <2>7, <2>10, <2>11
      <3>3. CASE j = 2 BY <3>3, <2>6, <2>10, <2>11
      <3> QED BY <3>1, <3>2, <3>3
    <2> HIDE DEF f, n
    <2> QED BY <2>1, <2>2, <2>3, <2>9, <2>12, AssertNextOK
  <1>2. CASE ~(GetPtr("name", p) /\ Fits(l) /\ Fits(ListPtr(l)))
    <2>1. Stop BY <1>2 DEF ReadConst
    <2> QED BY <2>1, StopOK
  <1> QED BY <1>1, <1>2

LEMMA ReadUparamsOK == ASSUME IInv, NEW p \in Pointers, ReadUparams(p) PROVE IInv'
  <1> DEFINE param == MkNode("param", <<p>>)
             l == IndexOf(file["level"], param)
  <1>1. CASE GetPtr("name", p) /\ param \in Elems(file["level"]) /\ Fits(l) /\ Fits(ListPtr(l))
    <2>1. FileOK(file) /\ phase = "reading" /\ file' = WithList(l) /\ UNCHANGED <<phase, own, answer>>
      BY <1>1 DEF IInv, ReadUparams, Reading
    <2>2. file["level"] \in Seq(Node) /\ "name" \in Tables \ {"levels"} BY <2>1 DEF FileOK, TablesOK, Tables
    <2>3. l \in 0 .. Len(file["level"]) - 1 BY <1>1, <2>2, IndexFacts
    <2>4. l \in Pointers /\ Fits(l) BY <1>1, <2>2, <2>3, CapacityAssumption DEF Fits, Pointers
    <2> HIDE DEF l
    <2>5. FileOK(WithList(l)) /\ WithList(l)["name"] = file["name"] BY <2>1, <2>2, <2>4, WithListOK
    <2>6. Len(file["name"]) > 0 /\ file["name"][1] = Anon BY DEF IInv, PhaseOK
    <2> QED BY <2>1, <2>5, <2>6, FileStep
  <1>2. CASE ~(GetPtr("name", p) /\ param \in Elems(file["level"]) /\ Fits(l) /\ Fits(ListPtr(l)))
    <2>1. Stop BY <1>2 DEF ReadUparams
    <2> QED BY <2>1, StopOK
  <1> QED BY <1>1, <1>2

\* What a checker holds is stored, but for the elements of the file's lists.
LEMMA KnownFacts ==
    ASSUME IInv, NEW t \in Tables, NEW p \in Known(t)
    PROVE  IF IsOwn(p) THEN Idx(p) < Len(own[t]) ELSE t # "level" => p < Len(file[t])
  <1> USE CapacityAssumption
  <1>1. file \in [Tables -> Seq(Node)] /\ own \in [Tables -> Seq(Node)] BY DEF IInv, FileOK, OwnOK, TablesOK
  <1>2. Len(file[t]) \in Nat /\ Len(own[t]) \in Nat BY <1>1
  <1>3. CASE p \in FilePtrs(t) BY <1>2, <1>3 DEF FilePtrs, FilePtr, Fits, IsOwn
  <1>4. CASE p \in OwnPtrs(t) BY <1>2, <1>4 DEF OwnPtrs, OwnPtr, IsOwn, Idx
  <1>5. CASE p \notin FilePtrs(t) \cup OwnPtrs(t)
    <2>1. t = "level" BY <1>5 DEF Known
    <2>2. PICK n \in Elems(file["levels"]) : p = n.kids[1] BY <1>5 DEF Known
    <2>3. "levels" \in Tables BY DEF Tables
    <2>4. PICK i \in DOMAIN file["levels"] : n = file["levels"][i] BY <2>2 DEF Elems
    <2>5. n \in Node /\ TableOf[n.tag] = "levels" BY <1>1, <2>3, <2>4 DEF IInv, FileOK, TablesOK
    <2>6. n.tag = "list"
      <3>1. n.tag \in {"anon", "str", "zero", "imax", "param", "list", "var", "sort", "const", "app"}
        BY <2>5, NodeFacts DEF Tags, TableOf
      <3> QED BY <2>5, <3>1 DEF TableOf
    <2>7. DOMAIN n.kids = 1 .. 1 BY <2>5, <2>6, NodeFacts DEF KidTables
    <2>8. FileKids(file, "levels", i, n) BY <2>3, <2>4 DEF IInv, FileOK
    <2>9. ~IsOwn(p) BY <2>2, <2>7, <2>8 DEF FileKids
    <2> QED BY <2>1, <2>9
  <1> QED BY <1>3, <1>4, <1>5 DEF Known

LEMMA NewCheckerOK == ASSUME IInv, NewChecker PROVE IInv'
  <1>1. /\ own' = Empty /\ answer' = NoAnswer /\ phase = "checking" /\ UNCHANGED <<phase, file>>
    BY DEF NewChecker
  <1>2. FileOK(file)' /\ PhaseOK' BY <1>1 DEF IInv, PhaseOK
  <1>3. OwnOK(file, own)' BY <1>1, EmptyOK
  <1>4. AnswerOK'
    <2>1. (FileOK(file) /\ Len(file["name"]) > 0 /\ file["name"][1] = Anon /\ answer = NoAnswer => AnswerOK)'
      BY NoAnswerOK, PTL
    <2>2. (Len(file["name"]) > 0 /\ file["name"][1] = Anon)' BY <1>1 DEF IInv, PhaseOK
    <2> QED BY <1>1, <1>2, <2>1, <2>2
  <1> QED BY <1>2, <1>3, <1>4 DEF IInv

\* An answer that leads to the node asked for.
LEMMA AnswerStep ==
    ASSUME IInv, phase = "checking", UNCHANGED <<phase, file>>, OwnOK(file, own)',
           NEW n \in Node, NEW p \in Pointers, answer' = Answer(TableOf[n.tag], n, p),
           (Stored(TableOf[n.tag], p) /\ NodeAt(TableOf[n.tag], p) = n)',
           IsOwn(p) <=> n \notin Elems(file[TableOf[n.tag]])
    PROVE  IInv'
  <1>1. FileOK(file)' /\ PhaseOK' BY DEF IInv, PhaseOK
  <1>2. answer'.table = TableOf[n.tag] /\ answer'.node = n /\ answer'.ptr = p BY DEF Answer
  <1>3. answer' \in [table : Tables, node : Node, ptr : Pointers] BY NodeFacts DEF Answer
  <1>4. AnswerRight' BY <1>2 DEF AnswerRight, Stored, NodeAt
  <1> QED BY <1>1, <1>3, <1>4 DEF IInv, AnswerOK

LEMMA AllocFoundOK ==
    ASSUME IInv, phase = "checking", NEW n \in Node, InFile(n), AllocFound(n) PROVE IInv'
  <1> DEFINE t == TableOf[n.tag]
             i == IndexOf(file[t], n)
  <1>1. t \in Tables /\ file[t] \in Seq(Node) BY NodeFacts DEF IInv, FileOK, TablesOK
  <1>2. i \in 0 .. Len(file[t]) - 1 /\ file[t][i + 1] = n BY <1>1, IndexFacts DEF InFile
  <1>3. Len(file[t]) \in Nat BY <1>1
  <1>4. CASE Fits(i)
    <2>1. answer' = Answer(t, n, i) /\ UNCHANGED <<phase, file, own>> BY <1>4 DEF AllocFound, FilePtr
    <2> HIDE DEF i, t
    <2>2. i \in Pointers /\ ~IsOwn(i) /\ Idx(i) = i
      BY <1>2, <1>3, <1>4, CapacityAssumption DEF Fits, Pointers, IsOwn, Idx
    <2>3. PICK q \in Pointers : q = i BY <2>2
    <2>4. t = TableOf[n.tag] BY DEF t
    <2>5. file'[TableOf[n.tag]] = file[t] /\ ~IsOwn(q) /\ Idx(q) = q BY <2>1, <2>2, <2>3, <2>4
    <2>6. q < Len(file[t]) /\ file[t][q + 1] = n BY <1>2, <1>3, <2>3
    <2>7. (Stored(TableOf[n.tag], q) /\ NodeAt(TableOf[n.tag], q) = n)' BY <2>5, <2>6 DEF Stored, NodeAt
    <2>8. OwnOK(file, own)' BY <2>1 DEF IInv
    <2>9. n \in Elems(file[TableOf[n.tag]]) BY DEF InFile
    <2>10. answer' = Answer(TableOf[n.tag], n, q) /\ UNCHANGED <<phase, file>> BY <2>1, <2>3, <2>4
    <2> QED BY <2>5, <2>7, <2>8, <2>9, <2>10, AnswerStep
  <1>5. CASE ~Fits(i)
    <2>1. Stop BY <1>5 DEF AllocFound
    <2> QED BY <2>1, StopOK
  <1> QED BY <1>4, <1>5

LEMMA AllocOwnOK ==
    ASSUME IInv, phase = "checking", NEW n \in Node, ~InFile(n), AllocOwn(n),
           \A j \in DOMAIN n.kids : n.kids[j] \in Known(KidTables[n.tag][j])
    PROVE  IInv'
  <1> DEFINE t == TableOf[n.tag]
             s == Inserted(own[t], n)
             i == IndexOf(s, n)
  <1>1. t \in Tables /\ own[t] \in Seq(Node) /\ own \in [Tables -> Seq(Node)] /\ FileOK(file) /\ OwnOK(file, own)
    BY NodeFacts DEF IInv, OwnOK, TablesOK
  <1>2. s \in Seq(Node) /\ i \in 0 .. Len(s) - 1 /\ s[i + 1] = n BY <1>1, InsertedFacts
  <1>3. Len(s) \in Nat BY <1>2
  <1>4. CASE ChildrenStored(n) /\ Fits(i)
    <2>1. own' = [own EXCEPT ![t] = s] /\ answer' = Answer(t, n, OwnPtr(i)) /\ UNCHANGED <<phase, file>>
      BY <1>4 DEF AllocOwn
    <2>2. own'[t] = s BY <1>1, <2>1
    <2>3. OwnOK(file, own')
      <3>1. CASE n \in Elems(own[t])
        <4>1. own' = own BY <1>1, <2>1, <3>1 DEF Inserted
        <4> QED BY <1>1, <4>1
      <3>2. CASE n \notin Elems(own[t])
        <4>1. s = Append(own[t], n) BY <3>2 DEF Inserted
        <4>2. Len(s) = Len(own[t]) + 1 /\ Len(own[t]) \in Nat BY <1>1, <4>1
        <4>3. i = Len(own[t])
          <5>1. CASE i < Len(own[t])
            <6>1. i + 1 \in DOMAIN own[t] /\ own[t][i + 1] = s[i + 1] BY <1>1, <1>2, <4>1, <4>2, <5>1
            <6> QED BY <1>2, <3>2, <6>1 DEF Elems
          <5>2. i <= Len(own[t]) BY <1>2, <4>2
          <5> QED BY <1>2, <1>3, <4>2, <5>1, <5>2
        <4>4. Len(own[t]) < Capacity BY <1>4, <4>3 DEF Fits
        <4>5. OwnKids(file, own, t, Len(own[t]) + 1, n)
          <5> SUFFICES ASSUME NEW j \in DOMAIN n.kids
                       PROVE  IF IsOwn(n.kids[j])
                              THEN Idx(n.kids[j]) < IF KidTables[n.tag][j] = t THEN Len(own[t]) + 1 - 1
                                                    ELSE Len(own[KidTables[n.tag][j]])
                              ELSE KidTables[n.tag][j] # "level" => n.kids[j] < Len(file[KidTables[n.tag][j]])
            BY DEF OwnKids
          <5> DEFINE k == KidTables[n.tag][j]
          <5>1. k \in Tables /\ n.kids[j] \in Known(k) BY NodeFacts
          <5>2. IF IsOwn(n.kids[j]) THEN Idx(n.kids[j]) < Len(own[k]) ELSE k # "level" => n.kids[j] < Len(file[k])
            BY <5>1, KnownFacts
          <5>3. Len(own[t]) + 1 - 1 = Len(own[t]) BY <4>2
          <5> QED BY <5>2, <5>3
        <4>6. n \notin Elems(file[t]) BY DEF InFile
        <4>7. own' = [own EXCEPT ![t] = Append(@, n)] BY <2>1, <4>1
        <4> HIDE DEF i, s
        <4> QED BY <1>1, <3>2, <4>4, <4>5, <4>6, <4>7, OwnGrows
      <3> QED BY <3>1, <3>2
    <2> HIDE DEF i, s, t
    <2>4. OwnPtr(i) \in Pointers /\ IsOwn(OwnPtr(i)) /\ Idx(OwnPtr(i)) = i
      BY <1>2, <1>3, <1>4, CapacityAssumption DEF Fits, Pointers, OwnPtr, IsOwn, Idx
    <2>5. PICK q \in Pointers : q = OwnPtr(i) BY <2>4
    <2>6. IsOwn(q) /\ Idx(q) < Len(s) /\ s[Idx(q) + 1] = n BY <1>2, <1>3, <2>4, <2>5
    <2>7. t = TableOf[n.tag] BY DEF t
    <2>8. own'[TableOf[n.tag]] = s BY <2>2, <2>7
    <2>9. (Stored(TableOf[n.tag], q) /\ NodeAt(TableOf[n.tag], q) = n)' BY <2>6, <2>8 DEF Stored, NodeAt
    <2>10. n \notin Elems(file[TableOf[n.tag]]) BY DEF InFile
    <2>11. OwnOK(file, own)' BY <2>1, <2>3
    <2>12. answer' = Answer(TableOf[n.tag], n, q) /\ UNCHANGED <<phase, file>> BY <2>1, <2>5, <2>7
    <2> QED BY <2>6, <2>9, <2>10, <2>11, <2>12, AnswerStep
  <1>5. CASE ~(ChildrenStored(n) /\ Fits(i))
    <2>1. Stop BY <1>5 DEF AllocOwn
    <2> QED BY <2>1, StopOK
  <1> QED BY <1>4, <1>5

-----------------------------------------------------------------------------
(* Theorems.                                                               *)

LEMMA InitOK == Init => IInv
  <1> SUFFICES ASSUME Init PROVE IInv OBVIOUS
  <1>1. file = [Empty EXCEPT !["name"] = <<Anon>>, !["level"] = <<Zero>>] /\ own = Empty /\ answer = NoAnswer
        /\ phase = "reading"
    BY DEF Init
  <1>2. file["name"] = <<Anon>> /\ file["level"] = <<Zero>> /\ \A t \in Tables \ {"name", "level"} : file[t] = <<>>
    BY <1>1 DEF Empty, Tables
  <1>3. file \in [Tables -> Seq(Node)]
    <2>1. Empty \in [Tables -> Seq(Node)] BY DEF Empty
    <2>2. <<Anon>> \in Seq(Node) /\ <<Zero>> \in Seq(Node) BY MadeNodes
    <2> QED BY <1>1, <2>1, <2>2
  <1>4. \A t \in Tables : \A i \in DOMAIN file[t] : i = 1 /\ TableOf[file[t][i].tag] = t /\ file[t][i].kids = <<>>
    <2> SUFFICES ASSUME NEW t \in Tables, NEW i \in DOMAIN file[t]
                 PROVE  i = 1 /\ TableOf[file[t][i].tag] = t /\ file[t][i].kids = <<>>
      OBVIOUS
    <2>1. t = "name" \/ t = "level" BY <1>2
    <2>2. i = 1 BY <1>2, <2>1
    <2> QED BY <1>2, <2>1, <2>2 DEF Anon, Zero, MkNode, TableOf
  <1>5. FileOK(file) BY <1>3, <1>4 DEF FileOK, TablesOK, FileKids
  <1>6. OwnOK(file, own) BY <1>1, EmptyOK
  <1>7. Len(file["name"]) > 0 /\ file["name"][1] = Anon BY <1>2
  <1>8. PhaseOK BY <1>1, <1>7 DEF PhaseOK
  <1>9. AnswerOK BY <1>1, <1>5, <1>7, NoAnswerOK
  <1> QED BY <1>5, <1>6, <1>8, <1>9 DEF IInv

\* Nothing that the parser or a checker does disturbs the arenas.
THEOREM Inductive == Spec => []IInv
  <1>1. Init => IInv BY InitOK
  <1>2. IInv /\ [Next]_vars => IInv'
    <2> SUFFICES ASSUME IInv, [Next]_vars PROVE IInv' OBVIOUS
    <2>1. ASSUME NEW n \in Node, NEW i \in Pointers, ReadNode(n, i) PROVE IInv' BY <2>1, ReadNodeOK
    <2>2. ASSUME NEW p \in Pointers, NEW l \in Pointers, NEW i \in Pointers, ReadConst(p, l, i) PROVE IInv'
      BY <2>2, ReadConstOK
    <2>3. ASSUME NEW p \in Pointers, ReadUparams(p) PROVE IInv' BY <2>3, ReadUparamsOK
    <2>4. ASSUME EndOfFile PROVE IInv'
      BY <2>4 DEF EndOfFile, IInv, PhaseOK, AnswerOK, AnswerRight, Stored, NodeAt
    <2>5. ASSUME NewChecker PROVE IInv' BY <2>5, NewCheckerOK
    <2>6. ASSUME NEW t \in Tables, NEW p \in Known(t), Read(t, p) PROVE IInv' BY <2>6, StopOK DEF Read
    <2>7. ASSUME NEW n \in Node, Alloc(n) PROVE IInv' BY <2>7, AllocFoundOK, AllocOwnOK DEF Alloc
    <2>8. ASSUME UNCHANGED vars PROVE IInv'
      BY <2>8 DEF vars, IInv, PhaseOK, AnswerOK, AnswerRight, Stored, NodeAt
    <2> QED BY <2>1, <2>2, <2>3, <2>4, <2>5, <2>6, <2>7, <2>8 DEF Next
  <1> QED BY <1>1, <1>2, PTL DEF Spec

\* The types of the variables.
THEOREM TypeCorrect == Spec => []TypeOK
  <1>1. IInv => TypeOK BY DEF IInv, FileOK, OwnOK, TablesOK, PhaseOK, AnswerOK, TypeOK
  <1> QED BY <1>1, Inductive, PTL

\* In every context, of equal nodes the pointers are equal (alloc_* and the
\* parser's assert_*), whatever the tables' sizes and the capacity.
THEOREM NodesUnique == Spec => []Unique
  <1>1. IInv => Unique
    <2> SUFFICES ASSUME IInv, NEW t \in Tables, NEW p \in FilePtrs(t) \cup OwnPtrs(t),
                        NEW q \in FilePtrs(t) \cup OwnPtrs(t), NodeAt(t, p) = NodeAt(t, q)
                 PROVE  p = q
      BY DEF Unique
    <2>1. file[t] \in Seq(Node) /\ own[t] \in Seq(Node) BY DEF IInv, FileOK, OwnOK, TablesOK
    <2>2. \A r \in FilePtrs(t) : /\ r + 1 \in DOMAIN file[t] /\ r \in Int
                                 /\ NodeAt(t, r) = file[t][r + 1]
      BY <2>1, CapacityAssumption DEF FilePtrs, FilePtr, Fits, NodeAt, IsOwn, Idx
    <2>3. \A r \in OwnPtrs(t) : /\ (r - Capacity) + 1 \in DOMAIN own[t] /\ r \in Int
                                /\ NodeAt(t, r) = own[t][(r - Capacity) + 1]
      BY <2>1, CapacityAssumption DEF OwnPtrs, OwnPtr, NodeAt, IsOwn, Idx
    <2>4. /\ \A i, j \in DOMAIN file[t] : file[t][i] = file[t][j] => i = j
          /\ \A i, j \in DOMAIN own[t] : own[t][i] = own[t][j] => i = j
          /\ \A i \in DOMAIN own[t], j \in DOMAIN file[t] : own[t][i] # file[t][j]
      BY DEF IInv, FileOK, OwnOK, TablesOK
    <2>5. CASE p \in FilePtrs(t) /\ q \in FilePtrs(t)
      <3>1. p + 1 = q + 1 BY <2>2, <2>4, <2>5
      <3> QED BY <3>1, <2>2, <2>5
    <2>6. CASE p \in OwnPtrs(t) /\ q \in OwnPtrs(t)
      <3>1. (p - Capacity) + 1 = (q - Capacity) + 1 BY <2>3, <2>4, <2>6
      <3> QED BY <3>1, <2>3, <2>6, CapacityAssumption
    <2>7. CASE p \in FilePtrs(t) /\ q \in OwnPtrs(t) BY <2>2, <2>3, <2>4, <2>7
    <2>8. CASE p \in OwnPtrs(t) /\ q \in FilePtrs(t) BY <2>2, <2>3, <2>4, <2>8
    <2> QED BY <2>5, <2>6, <2>7, <2>8
  <1> QED BY <1>1, Inductive, PTL

\* What alloc_* hands out leads to the node asked for.
THEOREM AnswersRight == Spec => []AnswerRight
  <1>1. IInv => AnswerRight BY DEF IInv, AnswerOK
  <1> QED BY <1>1, Inductive, PTL

\* No node of the file or of a checker leads back to itself: its pointers are
\* to nodes that were stored before it.
THEOREM NoLoops == Spec => []Closed
  <1>1. IInv => Closed
    <2> SUFFICES ASSUME IInv PROVE Closed OBVIOUS
    <2>1. \A t \in Tables : \A i \in DOMAIN file[t] : FileKids(file, t, i, file[t][i]) BY DEF IInv, FileOK
    <2>2. \A t \in Tables : \A i \in DOMAIN own[t] : OwnKids(file, own, t, i, own[t][i]) BY DEF IInv, OwnOK
    <2> QED BY <2>1, <2>2 DEF Closed, FileKids, OwnKids
  <1> QED BY <1>1, Inductive, PTL

-----------------------------------------------------------------------------
(* Terms.  What a pointer leads to comes, in the order of this number,     *)
(* before what has the pointer: the file's tables before the checker's,    *)
(* and in either the names, the levels, their lists and the expressions.   *)

Before(f, t) ==
    CASE t = "name" -> 0
      [] t = "level" -> Len(f["name"])
      [] t = "levels" -> Len(f["name"]) + Len(f["level"])
      [] t = "expr" -> Len(f["name"]) + Len(f["level"]) + Len(f["levels"])

Rank(t, p) == IF IsOwn(p) THEN Size(file) + Before(own, t) + Idx(p) ELSE Before(file, t) + p

\* Pointers whose terms are seen whole after d steps.
Shallow(d, t, p) == Stored(t, p) => Rank(t, p) < d

CutOf(s) == Cut
DeeperOf(s, d, below) == Deeper(below)
Unfolding == INSTANCE Recursion WITH Base <- CutOf, Step <- DeeperOf

\* Terms unfold step by step.
LEMMA UnfoldedSteps == Unfolded[0] = Cut /\ \A d \in Nat : Unfolded[d + 1] = Deeper(Unfolded[d])
  <1> DEFINE F(g) == [d \in Nat |-> IF d = 0 THEN Cut ELSE Deeper(g[d - 1])]
  <1>1. \E g : g = [d \in Nat |-> IF d = 0 THEN CutOf(0) ELSE DeeperOf(0, d, g[d - 1])] BY Unfolding!HasSolution
  <1>2. \E g : g = F(g) BY <1>1 DEF CutOf, DeeperOf
  <1>3. Unfolded = CHOOSE g : g = F(g) BY DEF Unfolded
  <1>4. Unfolded = F(Unfolded) BY <1>2, <1>3
  <1>5. F(Unfolded)[0] = Cut /\ \A d \in Nat : F(Unfolded)[d + 1] = Deeper(Unfolded[d]) OBVIOUS
  <1> QED BY <1>4, <1>5

\* A node is in a table that comes after those of what it points to.
LEMMA KidTablesBefore ==
    ASSUME NEW n \in Node, NEW j \in DOMAIN n.kids
    PROVE  <<KidTables[n.tag][j], TableOf[n.tag]>> \in
              {<<"name", "name">>, <<"name", "level">>, <<"name", "expr">>, <<"level", "level">>, <<"level", "levels">>,
               <<"level", "expr">>, <<"levels", "expr">>, <<"expr", "expr">>}
  <1>1. n.tag \in {"anon", "str", "zero", "imax", "param", "list", "var", "sort", "const", "app"}
    BY NodeFacts DEF Tags, TableOf
  <1>2. j \in 1 .. Len(KidTables[n.tag]) BY NodeFacts
  <1> QED BY <1>1, <1>2 DEF KidTables, TableOf

\* The tables' sizes, and how many nodes are before a table.
LEMMA BeforeFacts ==
    ASSUME NEW f \in [Tables -> Seq(Node)]
    PROVE  /\ Size(f) \in Nat
           /\ \A t \in Tables : Len(f[t]) \in Nat /\ Before(f, t) \in Nat /\ Before(f, t) + Len(f[t]) <= Size(f)
           /\ \A k, t \in Tables :
                 <<k, t>> \in {<<"name", "level">>, <<"name", "expr">>, <<"level", "levels">>, <<"level", "expr">>,
                               <<"levels", "expr">>}
                 => Before(f, k) + Len(f[k]) <= Before(f, t)
  <1>1. \A t \in Tables : Len(f[t]) \in Nat OBVIOUS
  <1>2. Before(f, "name") = 0 /\ Before(f, "level") = Len(f["name"])
        /\ Before(f, "levels") = Len(f["name"]) + Len(f["level"])
        /\ Before(f, "expr") = Len(f["name"]) + Len(f["level"]) + Len(f["levels"])
    BY DEF Before
  <1>3. Tables = {"name", "level", "levels", "expr"} BY DEF Tables
  <1> QED BY <1>1, <1>2, <1>3 DEF Size

\* A stored node is one of its table, is counted, and comes after those it
\* points to.
LEMMA RankFacts ==
    ASSUME IInv, NEW t \in Tables, NEW p \in Pointers, Stored(t, p)
    PROVE  LET n == NodeAt(t, p) IN
           /\ n \in Node /\ TableOf[n.tag] = t
           /\ Rank(t, p) \in Nat /\ Rank(t, p) < Size(file) + Size(own)
           /\ \A j \in DOMAIN n.kids :
                 Stored(KidTables[n.tag][j], n.kids[j]) => Rank(KidTables[n.tag][j], n.kids[j]) < Rank(t, p)
  <1> DEFINE n == NodeAt(t, p)
  <1> USE CapacityAssumption
  <1>1. /\ file \in [Tables -> Seq(Node)] /\ own \in [Tables -> Seq(Node)] /\ FileOK(file) /\ OwnOK(file, own)
        /\ TablesOK(file) /\ TablesOK(own)
    BY DEF IInv, FileOK, OwnOK, TablesOK
  <1>2. p \in Int /\ 0 <= p BY DEF Pointers
  <1>3. CASE IsOwn(p)
    <2> DEFINE i == Idx(p) + 1
    <2>1. Idx(p) = p - Capacity /\ Idx(p) \in Nat BY <1>2, <1>3 DEF IsOwn, Idx
    <2>2. i \in DOMAIN own[t] /\ n = own[t][i] BY <1>1, <1>3, <2>1 DEF Stored, NodeAt
    <2>3. n \in Node /\ TableOf[n.tag] = t BY <1>1, <2>2 DEF TablesOK
    <2>4. Rank(t, p) = Size(file) + Before(own, t) + Idx(p) /\ Idx(p) < Len(own[t]) BY <1>3 DEF Rank, Stored
    <2>5. Rank(t, p) \in Nat /\ Rank(t, p) < Size(file) + Size(own)
      <3>1. Size(file) \in Nat BY <1>1, BeforeFacts
      <3>2. /\ Before(own, t) \in Nat /\ Len(own[t]) \in Nat /\ Size(own) \in Nat
            /\ Before(own, t) + Len(own[t]) <= Size(own)
        BY <1>1, BeforeFacts
      <3> QED BY <2>1, <2>4, <3>1, <3>2
    <2>6. ASSUME NEW j \in DOMAIN n.kids, Stored(KidTables[n.tag][j], n.kids[j])
          PROVE  Rank(KidTables[n.tag][j], n.kids[j]) < Rank(t, p)
      <3> DEFINE k == KidTables[n.tag][j]
                 q == n.kids[j]
      <3>1. k \in Tables /\ q \in Int /\ 0 <= q BY <2>3, NodeFacts DEF Pointers
      <3>2. OwnKids(file, own, t, i, n) BY <1>1, <2>2 DEF OwnOK
      <3>3. k = t \/ Before(own, k) + Len(own[k]) <= Before(own, t)
        BY <1>1, <2>3, <3>1, KidTablesBefore, BeforeFacts
      <3>4. CASE IsOwn(q)
        <4>1. Idx(q) < IF k = t THEN i - 1 ELSE Len(own[k]) BY <3>2, <3>4 DEF OwnKids
        <4>2. Rank(k, q) = Size(file) + Before(own, k) + Idx(q) /\ Idx(q) \in Int
          BY <3>1, <3>4 DEF Rank, Idx
        <4>3. Size(file) \in Nat /\ Before(own, k) \in Nat /\ Before(own, t) \in Nat /\ Len(own[k]) \in Nat
          BY <1>1, <3>1, BeforeFacts
        <4> HIDE DEF k, q, n
        <4>4. k = t => Rank(k, q) < Rank(t, p) BY <2>1, <2>4, <4>1, <4>2, <4>3
        <4>5. k # t => Rank(k, q) < Rank(t, p) BY <2>1, <2>4, <3>3, <4>1, <4>2, <4>3
        <4> QED BY <4>4, <4>5 DEF k, q
      <3>5. CASE ~IsOwn(q)
        <4>1. q < Len(file[k]) BY <2>6, <3>5 DEF Stored, Idx
        <4>2. Rank(k, q) = Before(file, k) + q BY <3>5 DEF Rank
        <4>3. Before(file, k) \in Nat /\ Before(file, k) + Len(file[k]) <= Size(file) /\ Size(file) \in Nat
              /\ Len(file[k]) \in Nat /\ Before(own, t) \in Nat
          BY <1>1, <3>1, BeforeFacts
        <4> HIDE DEF k, q, n
        <4>4. Rank(k, q) < Rank(t, p) BY <2>1, <2>4, <3>1, <4>1, <4>2, <4>3
        <4> QED BY <4>4 DEF k, q
      <3> QED BY <3>4, <3>5
    <2> QED BY <2>3, <2>5, <2>6
  <1>4. CASE ~IsOwn(p)
    <2> DEFINE i == p + 1
    <2>1. i \in DOMAIN file[t] /\ n = file[t][i] /\ p < Len(file[t])
      BY <1>1, <1>2, <1>4 DEF Stored, NodeAt, Idx
    <2>2. n \in Node /\ TableOf[n.tag] = t BY <1>1, <2>1 DEF TablesOK
    <2>3. Rank(t, p) = Before(file, t) + p BY <1>4 DEF Rank
    <2>4. Rank(t, p) \in Nat /\ Rank(t, p) < Size(file) + Size(own)
      <3>1. Size(own) \in Nat BY <1>1, BeforeFacts
      <3>2. /\ Before(file, t) \in Nat /\ Len(file[t]) \in Nat /\ Size(file) \in Nat
            /\ Before(file, t) + Len(file[t]) <= Size(file)
        BY <1>1, BeforeFacts
      <3> QED BY <1>2, <2>1, <2>3, <3>1, <3>2
    <2>5. ASSUME NEW j \in DOMAIN n.kids, Stored(KidTables[n.tag][j], n.kids[j])
          PROVE  Rank(KidTables[n.tag][j], n.kids[j]) < Rank(t, p)
      <3> DEFINE k == KidTables[n.tag][j]
                 q == n.kids[j]
      <3>1. k \in Tables /\ q \in Int /\ 0 <= q BY <2>2, NodeFacts DEF Pointers
      <3>2. FileKids(file, t, i, n) BY <1>1, <2>1 DEF FileOK
      <3>3. ~IsOwn(q) /\ (t # "levels" => q < IF k = t THEN i - 1 ELSE Len(file[k])) BY <3>2 DEF FileKids
      <3>4. q < Len(file[k]) BY <2>5, <3>3 DEF Stored, Idx
      <3>5. <<k, t>> \in {<<"name", "name">>, <<"name", "level">>, <<"name", "expr">>, <<"level", "level">>,
                          <<"level", "levels">>, <<"level", "expr">>, <<"levels", "expr">>, <<"expr", "expr">>}
        BY <2>2, KidTablesBefore
      <3>6. k = t \/ Before(file, k) + Len(file[k]) <= Before(file, t) BY <1>1, <3>1, <3>5, BeforeFacts
      <3>7. k = t => t # "levels" BY <3>5
      <3>8. Rank(k, q) = Before(file, k) + q BY <3>3 DEF Rank
      <3>9. Before(file, k) \in Nat /\ Before(file, t) \in Nat /\ Len(file[k]) \in Nat BY <1>1, <3>1, BeforeFacts
      <3> HIDE DEF k, q, n
      <3>10. k = t => Rank(k, q) < Rank(t, p) BY <1>2, <2>3, <3>1, <3>3, <3>7, <3>8, <3>9
      <3>11. k # t => Rank(k, q) < Rank(t, p) BY <1>2, <2>3, <3>1, <3>4, <3>6, <3>8, <3>9
      <3> QED BY <3>10, <3>11 DEF k, q
    <2> QED BY <2>2, <2>4, <2>5
  <1> QED BY <1>3, <1>4

\* What Deeper shows at a pointer.
LEMMA DeeperFacts ==
    ASSUME NEW below, NEW t \in Tables, NEW p \in Pointers
    PROVE  LET n == NodeAt(t, p) IN
           /\ ~Stored(t, p) => Deeper(below)[t][p] = <<"dangling", p>>
           /\ Stored(t, p) => Deeper(below)[t][p] = <<n.tag, n.data, [j \in DOMAIN n.kids |-> below[KidTables[n.tag][j]][n.kids[j]]]>>
  BY DEF Deeper

\* A term that is seen whole is not seen better one step deeper.
LEMMA TermsEnd ==
    ASSUME IInv
    PROVE  \A d \in Nat : \A t \in Tables, p \in Pointers :
              Shallow(d, t, p) => Unfolded[d + 1][t][p] = Unfolded[d][t][p]
  <1> DEFINE S == {d \in Nat : \A t \in Tables, p \in Pointers :
                      Shallow(d, t, p) => Unfolded[d + 1][t][p] = Unfolded[d][t][p]}
  <1>1. 0 \in S
    <2> SUFFICES ASSUME NEW t \in Tables, NEW p \in Pointers, Shallow(0, t, p)
                 PROVE  Unfolded[0 + 1][t][p] = Unfolded[0][t][p]
      OBVIOUS
    <2>1. ~Stored(t, p)
      <3>1. Stored(t, p) => Rank(t, p) \in Nat BY RankFacts
      <3> QED BY <3>1 DEF Shallow
    <2>2. Unfolded[0] = Cut /\ Unfolded[0 + 1] = Deeper(Cut) BY UnfoldedSteps
    <2>3. Cut[t][p] = <<"dangling", p>> BY <2>1 DEF Cut
    <2>4. Deeper(Cut)[t][p] = <<"dangling", p>> BY <2>1, DeeperFacts
    <2> QED BY <2>2, <2>3, <2>4
  <1>2. ASSUME NEW d \in Nat, d \in S PROVE d + 1 \in S
    <2> SUFFICES ASSUME NEW t \in Tables, NEW p \in Pointers, Shallow(d + 1, t, p)
                 PROVE  Unfolded[(d + 1) + 1][t][p] = Unfolded[d + 1][t][p]
      OBVIOUS
    <2> DEFINE n == NodeAt(t, p)
               U == Unfolded[d]
               V == Unfolded[d + 1]
    <2>1. V = Deeper(U) /\ Unfolded[(d + 1) + 1] = Deeper(V) BY UnfoldedSteps
    <2>2. CASE ~Stored(t, p)
      <3>1. Deeper(U)[t][p] = <<"dangling", p>> BY <2>2, DeeperFacts
      <3>2. Deeper(V)[t][p] = <<"dangling", p>> BY <2>2, DeeperFacts
      <3> QED BY <2>1, <3>1, <3>2
    <2>3. CASE Stored(t, p)
      <3>1. n \in Node BY <2>3, RankFacts
      <3>2. \A j \in DOMAIN n.kids : V[KidTables[n.tag][j]][n.kids[j]] = U[KidTables[n.tag][j]][n.kids[j]]
        <4> SUFFICES ASSUME NEW j \in DOMAIN n.kids
                     PROVE  V[KidTables[n.tag][j]][n.kids[j]] = U[KidTables[n.tag][j]][n.kids[j]]
          OBVIOUS
        <4>1. KidTables[n.tag][j] \in Tables /\ n.kids[j] \in Pointers BY <3>1, NodeFacts
        <4>2. Shallow(d, KidTables[n.tag][j], n.kids[j])
          <5> SUFFICES ASSUME Stored(KidTables[n.tag][j], n.kids[j])
                       PROVE  Rank(KidTables[n.tag][j], n.kids[j]) < d
            BY DEF Shallow
          <5>1. Rank(KidTables[n.tag][j], n.kids[j]) \in Nat BY <4>1, RankFacts
          <5>2. Rank(KidTables[n.tag][j], n.kids[j]) < Rank(t, p) /\ Rank(t, p) \in Nat BY <2>3, RankFacts
          <5>3. Rank(t, p) < d + 1 BY <2>3 DEF Shallow
          <5> QED BY <5>1, <5>2, <5>3
        <4> QED BY <1>2, <4>1, <4>2
      <3> DEFINE Kids(b) == [j \in DOMAIN n.kids |-> b[KidTables[n.tag][j]][n.kids[j]]]
      <3>3. Kids(V) = Kids(U) BY <3>2
      <3>4. Deeper(U)[t][p] = <<n.tag, n.data, Kids(U)>> BY <2>3, DeeperFacts
      <3>5. Deeper(V)[t][p] = <<n.tag, n.data, Kids(V)>> BY <2>3, DeeperFacts
      <3> HIDE DEF Kids
      <3> QED BY <2>1, <3>3, <3>4, <3>5
    <2> QED BY <2>2, <2>3
  <1> HIDE DEF S
  <1>3. Nat \subseteq S BY <1>1, <1>2, Unfolding!Induction
  <1> QED BY <1>3 DEF S

\* A node is its constructor, its data and its pointers.
LEMMA NodesEqual ==
    ASSUME NEW m \in Node, NEW n \in Node, m.tag = n.tag, m.data = n.data, m.kids = n.kids
    PROVE  m = n
  <1>1. PICK c \in Tags : m \in NodesOf(c) BY DEF Node
  <1>2. PICK e \in Tags : n \in NodesOf(e) BY DEF Node
  <1>3. m = [tag |-> m.tag, data |-> m.data, kids |-> m.kids] BY <1>1 DEF NodesOf
  <1>4. n = [tag |-> n.tag, data |-> n.data, kids |-> n.kids] BY <1>2 DEF NodesOf
  <1> QED BY <1>3, <1>4

\* A node is stored once.
LEMMA StoredOnce ==
    ASSUME IInv, NEW t \in Tables, NEW p \in Pointers, NEW q \in Pointers,
           Stored(t, p), Stored(t, q), NodeAt(t, p) = NodeAt(t, q)
    PROVE  p = q
  <1>1. /\ file[t] \in Seq(Node) /\ own[t] \in Seq(Node)
        /\ \A i, j \in DOMAIN file[t] : file[t][i] = file[t][j] => i = j
        /\ \A i, j \in DOMAIN own[t] : own[t][i] = own[t][j] => i = j
        /\ \A i \in DOMAIN own[t], j \in DOMAIN file[t] : own[t][i] # file[t][j]
    BY DEF IInv, FileOK, OwnOK, TablesOK
  <1>2. p \in Int /\ q \in Int /\ 0 <= p /\ 0 <= q /\ Capacity \in Int BY CapacityAssumption DEF Pointers
  <1>3. ASSUME NEW r \in Pointers, Stored(t, r)
        PROVE  IF IsOwn(r) THEN (r - Capacity) + 1 \in DOMAIN own[t] /\ NodeAt(t, r) = own[t][(r - Capacity) + 1]
               ELSE r + 1 \in DOMAIN file[t] /\ NodeAt(t, r) = file[t][r + 1]
    BY <1>1, <1>3, CapacityAssumption DEF Stored, NodeAt, IsOwn, Idx, Pointers
  <1>4. CASE IsOwn(p) /\ IsOwn(q)
    <2>1. (p - Capacity) + 1 = (q - Capacity) + 1 BY <1>1, <1>3, <1>4
    <2> QED BY <1>2, <2>1
  <1>5. CASE ~IsOwn(p) /\ ~IsOwn(q)
    <2>1. p + 1 = q + 1 BY <1>1, <1>3, <1>5
    <2> QED BY <1>2, <2>1
  <1>6. CASE IsOwn(p) /\ ~IsOwn(q) BY <1>1, <1>3, <1>6
  <1>7. CASE ~IsOwn(p) /\ IsOwn(q) BY <1>1, <1>3, <1>7
  <1> QED BY <1>4, <1>5, <1>6, <1>7

\* Terms that are seen whole are equal only at one pointer.
LEMMA TermsTell ==
    ASSUME IInv
    PROVE  \A d \in Nat : \A t \in Tables, p, q \in Pointers :
              Shallow(d, t, p) /\ Shallow(d, t, q) /\ Unfolded[d][t][p] = Unfolded[d][t][q] => p = q
  <1> DEFINE S == {d \in Nat : \A t \in Tables, p, q \in Pointers :
                      Shallow(d, t, p) /\ Shallow(d, t, q) /\ Unfolded[d][t][p] = Unfolded[d][t][q] => p = q}
  <1>1. 0 \in S
    <2> SUFFICES ASSUME NEW t \in Tables, NEW p \in Pointers, NEW q \in Pointers,
                        Shallow(0, t, p), Shallow(0, t, q), Unfolded[0][t][p] = Unfolded[0][t][q]
                 PROVE  p = q
      OBVIOUS
    <2>1. ASSUME NEW r \in Pointers, Shallow(0, t, r) PROVE Unfolded[0][t][r] = <<"dangling", r>>
      <3>1. Stored(t, r) => Rank(t, r) \in Nat BY RankFacts
      <3>2. ~Stored(t, r) BY <2>1, <3>1 DEF Shallow
      <3>3. Cut[t][r] = <<"dangling", r>> BY <3>2 DEF Cut
      <3> QED BY <3>3, UnfoldedSteps
    <2>2. <<"dangling", p>> = <<"dangling", q>> BY <2>1
    <2> QED BY <2>2
  <1>2. ASSUME NEW d \in Nat, d \in S PROVE d + 1 \in S
    <2> SUFFICES ASSUME NEW t \in Tables, NEW p \in Pointers, NEW q \in Pointers,
                        Shallow(d + 1, t, p), Shallow(d + 1, t, q), Unfolded[d + 1][t][p] = Unfolded[d + 1][t][q]
                 PROVE  p = q
      OBVIOUS
    <2> DEFINE U == Unfolded[d]
               Kids(n) == [j \in DOMAIN n.kids |-> U[KidTables[n.tag][j]][n.kids[j]]]
               m == NodeAt(t, p)
               n == NodeAt(t, q)
    <2>1. Unfolded[d + 1] = Deeper(U) BY UnfoldedSteps
    <2>2. ASSUME NEW r \in Pointers, Stored(t, r)
          PROVE  Deeper(U)[t][r] = <<NodeAt(t, r).tag, NodeAt(t, r).data, Kids(NodeAt(t, r))>>
      BY <2>2, DeeperFacts
    <2>3. ASSUME NEW r \in Pointers, ~Stored(t, r) PROVE Deeper(U)[t][r] = <<"dangling", r>> BY <2>3, DeeperFacts
    <2> HIDE DEF Kids, U
    <2>4. CASE ~Stored(t, p) /\ ~Stored(t, q)
      <3>1. <<"dangling", p>> = <<"dangling", q>> BY <2>1, <2>3, <2>4
      <3> QED BY <3>1
    <2>5. ASSUME NEW a \in Pointers, NEW b \in Pointers, ~Stored(t, a), Stored(t, b), Deeper(U)[t][a] = Deeper(U)[t][b]
          PROVE  FALSE
      <3> DEFINE x == <<"dangling", a>>
                 y == <<NodeAt(t, b).tag, NodeAt(t, b).data, Kids(NodeAt(t, b))>>
      <3>1. Deeper(U)[t][a] = x BY <2>3, <2>5
      <3>2. Deeper(U)[t][b] = y BY <2>2, <2>5
      <3>3. Len(x) = 2 /\ Len(y) = 3 OBVIOUS
      <3> HIDE DEF x, y
      <3>4. x = y BY <2>5, <3>1, <3>2
      <3>5. Len(x) = Len(y) BY <3>4
      <3>6. 2 = 3 BY <3>3, <3>5
      <3> QED BY <3>6
    <2>6. CASE Stored(t, p) /\ Stored(t, q)
      <3>1. m \in Node /\ TableOf[m.tag] = t /\ n \in Node /\ TableOf[n.tag] = t BY <2>6, RankFacts
      <3>2. <<m.tag, m.data, Kids(m)>> = <<n.tag, n.data, Kids(n)>>
        <4>1. Deeper(U)[t][p] = <<m.tag, m.data, Kids(m)>> BY <2>2, <2>6
        <4>2. Deeper(U)[t][q] = <<n.tag, n.data, Kids(n)>> BY <2>2, <2>6
        <4> QED BY <2>1, <4>1, <4>2
      <3>3. m.tag = n.tag /\ m.data = n.data /\ Kids(m) = Kids(n)
        <4> HIDE DEF m, n
        <4> QED BY <3>2
      <3>4. /\ m.kids \in [1 .. Len(KidTables[m.tag]) -> Pointers]
            /\ n.kids \in [1 .. Len(KidTables[m.tag]) -> Pointers]
        BY <3>1, <3>3, NodeFacts
      <3>5. \A j \in 1 .. Len(KidTables[m.tag]) : m.kids[j] = n.kids[j]
        <4> SUFFICES ASSUME NEW j \in 1 .. Len(KidTables[m.tag]) PROVE m.kids[j] = n.kids[j] OBVIOUS
        <4> DEFINE k == KidTables[m.tag][j]
        <4>1. j \in DOMAIN m.kids /\ j \in DOMAIN n.kids BY <3>4
        <4>2. k \in Tables /\ m.kids[j] \in Pointers /\ n.kids[j] \in Pointers BY <3>1, <3>4, <4>1, NodeFacts
        <4>3. U[k][m.kids[j]] = U[k][n.kids[j]]
          <5>1. Kids(m)[j] = U[KidTables[m.tag][j]][m.kids[j]] BY <4>1 DEF Kids
          <5>2. Kids(n)[j] = U[KidTables[n.tag][j]][n.kids[j]] BY <4>1 DEF Kids
          <5> QED BY <3>3, <5>1, <5>2
        <4>4. Shallow(d, k, m.kids[j])
          <5> SUFFICES ASSUME Stored(k, m.kids[j]) PROVE Rank(k, m.kids[j]) < d BY DEF Shallow
          <5>1. Rank(k, m.kids[j]) \in Nat BY <4>2, RankFacts
          <5>2. Rank(k, m.kids[j]) < Rank(t, p) /\ Rank(t, p) \in Nat BY <2>6, <4>1, RankFacts
          <5>3. Rank(t, p) < d + 1 BY <2>6 DEF Shallow
          <5> QED BY <5>1, <5>2, <5>3
        <4>5. Shallow(d, k, n.kids[j])
          <5> SUFFICES ASSUME Stored(k, n.kids[j]) PROVE Rank(k, n.kids[j]) < d BY DEF Shallow
          <5>1. Rank(k, n.kids[j]) \in Nat BY <4>2, RankFacts
          <5>2. k = KidTables[n.tag][j] BY <3>3
          <5>3. Rank(k, n.kids[j]) < Rank(t, q) /\ Rank(t, q) \in Nat BY <2>6, <4>1, <5>2, RankFacts
          <5>4. Rank(t, q) < d + 1 BY <2>6 DEF Shallow
          <5> QED BY <5>1, <5>3, <5>4
        <4> QED BY <1>2, <4>2, <4>3, <4>4, <4>5 DEF U
      <3>6. m.kids = n.kids BY <3>4, <3>5
      <3>7. m = n BY <3>1, <3>3, <3>6, NodesEqual
      <3> QED BY <2>6, <3>7, StoredOnce
    <2> QED BY <2>1, <2>4, <2>5, <2>6
  <1> HIDE DEF S
  <1>3. Nat \subseteq S BY <1>1, <1>2, Unfolding!Induction
  <1> QED BY <1>3 DEF S

\* A checker's pointers are pointers.
LEMMA KnownPointers == ASSUME IInv, NEW t \in Tables PROVE Known(t) \subseteq Pointers
  <1> SUFFICES ASSUME NEW p \in Known(t) PROVE p \in Pointers OBVIOUS
  <1> USE CapacityAssumption
  <1>1. file \in [Tables -> Seq(Node)] /\ own \in [Tables -> Seq(Node)] /\ Len(own[t]) <= Capacity
    BY DEF IInv, FileOK, OwnOK, TablesOK
  <1>2. Len(file[t]) \in Nat /\ Len(own[t]) \in Nat BY <1>1
  <1>3. CASE p \in FilePtrs(t) BY <1>2, <1>3 DEF FilePtrs, FilePtr, Fits, Pointers
  <1>4. CASE p \in OwnPtrs(t) BY <1>1, <1>2, <1>4 DEF OwnPtrs, OwnPtr, Pointers
  <1>5. CASE p \notin FilePtrs(t) \cup OwnPtrs(t)
    <2>1. PICK n \in Elems(file["levels"]) : p = n.kids[1] BY <1>5 DEF Known
    <2>2. "levels" \in Tables BY DEF Tables
    <2>3. PICK i \in DOMAIN file["levels"] : n = file["levels"][i] BY <2>1 DEF Elems
    <2>4. n \in Node /\ TableOf[n.tag] = "levels" BY <1>1, <2>2, <2>3 DEF IInv, FileOK, TablesOK
    <2>5. n.tag = "list"
      <3>1. n.tag \in {"anon", "str", "zero", "imax", "param", "list", "var", "sort", "const", "app"}
        BY <2>4, NodeFacts DEF Tags, TableOf
      <3> QED BY <2>4, <3>1 DEF TableOf
    <2> QED BY <2>1, <2>4, <2>5, NodeFacts DEF KidTables
  <1> QED BY <1>3, <1>4, <1>5 DEF Known

\* For every capacity and every file: pointers a checker can have are equal if
\* the terms they lead to are, all the way down, and these terms are finite.
\* This is what allows alloc_*, def_eq and the caches to compare pointers in
\* place of terms.
THEOREM PointersAreTermsHolds == Spec => []PointersAreTerms
  <1>1. IInv => PointersAreTerms
    <2> SUFFICES ASSUME IInv, NEW t \in Tables
                 PROVE  /\ \A p \in Known(t) : Unfolded[Size(file) + Size(own) + 1][t][p] = TermAt(t, p)
                        /\ \A p, q \in Known(t) : TermAt(t, p) = TermAt(t, q) => p = q
      BY DEF PointersAreTerms
    <2> DEFINE d == Size(file) + Size(own)
    <2>1. d \in Nat
      <3>1. file \in [Tables -> Seq(Node)] /\ own \in [Tables -> Seq(Node)] BY DEF IInv, FileOK, OwnOK, TablesOK
      <3>2. Size(file) \in Nat BY <3>1, BeforeFacts
      <3>3. Size(own) \in Nat BY <3>1, BeforeFacts
      <3> QED BY <3>2, <3>3
    <2>2. ASSUME NEW p \in Known(t) PROVE p \in Pointers /\ Shallow(d, t, p)
      BY <2>2, KnownPointers, RankFacts DEF Shallow
    <2>3. \A p \in Known(t) : TermAt(t, p) = Unfolded[d][t][p] BY DEF TermAt
    <2> HIDE DEF d
    <2>4. \A p \in Known(t) : Unfolded[d + 1][t][p] = TermAt(t, p) BY <2>1, <2>2, <2>3, TermsEnd
    <2>5. \A p, q \in Known(t) : TermAt(t, p) = TermAt(t, q) => p = q BY <2>1, <2>2, <2>3, TermsTell
    <2> QED BY <2>4, <2>5 DEF d
  <1> QED BY <1>1, Inductive, PTL

-----------------------------------------------------------------------------
(* Steps never change what a pointer leads to.                             *)

\* The tables of g begin with those of f.
Extends(f, g) == \A t \in Tables : Len(f[t]) <= Len(g[t]) /\ \A i \in 1 .. Len(f[t]) : g[t][i] = f[t][i]

LEMMA AppendExtends ==
    ASSUME NEW f \in [Tables -> Seq(Node)], NEW n \in Node, NEW t \in Tables
    PROVE  Extends(f, [f EXCEPT ![t] = Append(@, n)])
  <1> DEFINE g == [f EXCEPT ![t] = Append(@, n)]
  <1> SUFFICES ASSUME NEW u \in Tables
               PROVE  Len(f[u]) <= Len(g[u]) /\ \A i \in 1 .. Len(f[u]) : g[u][i] = f[u][i]
    BY DEF Extends
  <1>1. f[u] \in Seq(Node) /\ Len(f[u]) \in Nat OBVIOUS
  <1>2. CASE u = t
    <2>1. g[u] = Append(f[u], n) BY <1>2
    <2> QED BY <1>1, <2>1
  <1>3. CASE u # t
    <2>1. g[u] = f[u] BY <1>3
    <2> QED BY <1>1, <2>1
  <1> QED BY <1>2, <1>3

LEMMA InsertExtends ==
    ASSUME NEW f \in [Tables -> Seq(Node)], NEW n \in Node, NEW t \in Tables
    PROVE  Extends(f, [f EXCEPT ![t] = Inserted(@, n)])
  <1>1. CASE n \in Elems(f[t])
    <2>1. [f EXCEPT ![t] = Inserted(@, n)] = f BY <1>1 DEF Inserted
    <2>2. \A u \in Tables : Len(f[u]) \in Nat OBVIOUS
    <2> QED BY <2>1, <2>2 DEF Extends
  <1>2. CASE n \notin Elems(f[t])
    <2>1. [f EXCEPT ![t] = Inserted(@, n)] = [f EXCEPT ![t] = Append(@, n)] BY <1>2 DEF Inserted
    <2> QED BY <2>1, AppendExtends
  <1> QED BY <1>1, <1>2

\* A step adds to the file's tables, or to the checker's; only a new checker
\* starts with empty ones.
LEMMA TablesGrow == IInv /\ [Next]_vars => Extends(file, file') /\ (~NewChecker => Extends(own, own'))
  <1> SUFFICES ASSUME IInv, [Next]_vars PROVE Extends(file, file') /\ (~NewChecker => Extends(own, own'))
    OBVIOUS
  <1>1. file \in [Tables -> Seq(Node)] /\ own \in [Tables -> Seq(Node)] /\ FileOK(file)
    BY DEF IInv, FileOK, OwnOK, TablesOK
  <1>2. Extends(file, file) /\ Extends(own, own)
    <2>1. \A t \in Tables : Len(file[t]) \in Nat /\ Len(own[t]) \in Nat BY <1>1
    <2> QED BY <2>1 DEF Extends
  <1>3. CASE Stop \/ EndOfFile \/ UNCHANGED vars BY <1>2, <1>3 DEF Stop, EndOfFile, vars
  <1>4. ASSUME NEW n \in Node, NEW i \in Pointers, ReadNode(n, i)
        PROVE  Extends(file, file') /\ Extends(own, own')
    <2>1. CASE Stop BY <2>1, <1>2 DEF Stop
    <2>2. CASE AssertNext(file, n, i) /\ ~Stop
      <3>1. file' = [file EXCEPT ![TableOf[n.tag]] = Append(@, n)] /\ own' = own BY <2>2 DEF AssertNext
      <3> QED BY <1>1, <1>2, <3>1, NodeFacts, AppendExtends
    <2> QED BY <1>4, <2>1, <2>2 DEF ReadNode
  <1>5. ASSUME NEW p \in Pointers, NEW l \in Pointers, Fits(l) PROVE Extends(file, WithList(l))
    BY <1>1, InsertExtends, MadeNodes DEF WithList, Tables
  <1>6. ASSUME NEW p \in Pointers, NEW l \in Pointers, NEW i \in Pointers, ReadConst(p, l, i)
        PROVE  Extends(file, file') /\ Extends(own, own')
    <2>1. CASE Stop BY <2>1, <1>2 DEF Stop
    <2>2. CASE GetPtr("name", p) /\ Fits(l) /\ Fits(ListPtr(l)) /\ ~Stop
      <3> DEFINE n == MkNode("const", <<p, ListPtr(l)>>)
      <3>1. file' = [WithList(l) EXCEPT ![TableOf[n.tag]] = Append(@, n)] /\ own' = own
        BY <1>6, <2>2 DEF ReadConst, AssertNext
      <3>2. ListPtr(l) \in Pointers
        <4>1. ListPtr(l) \in 0 .. Len(WithList(l)["levels"]) - 1 /\ FileOK(WithList(l)) BY <1>1, <2>2, WithListOK
        <4>2. Len(WithList(l)["levels"]) \in Nat BY <4>1 DEF FileOK, TablesOK, Tables
        <4> QED BY <2>2, <4>1, <4>2, CapacityAssumption DEF Fits, Pointers
      <3>3. WithList(l) \in [Tables -> Seq(Node)] BY <1>1, <2>2, WithListOK DEF FileOK, TablesOK
      <3>4. n \in Node /\ TableOf[n.tag] \in Tables BY <3>2, MadeNodes, NodeFacts
      <3> HIDE DEF n
      <3>5. Extends(WithList(l), file') BY <3>1, <3>3, <3>4, AppendExtends
      <3>6. Extends(file, WithList(l)) BY <1>5, <2>2
      <3>7. \A t \in Tables : Len(file[t]) \in Nat /\ Len(WithList(l)[t]) \in Nat BY <1>1, <3>3
      <3>8. Extends(file, file')
        <4> SUFFICES ASSUME NEW t \in Tables
                     PROVE  Len(file[t]) <= Len(file'[t]) /\ \A j \in 1 .. Len(file[t]) : file'[t][j] = file[t][j]
          BY DEF Extends
        <4>1. /\ Len(file[t]) <= Len(WithList(l)[t])
              /\ \A j \in 1 .. Len(file[t]) : WithList(l)[t][j] = file[t][j]
          BY <3>6 DEF Extends
        <4>2. /\ Len(WithList(l)[t]) <= Len(file'[t])
              /\ \A j \in 1 .. Len(WithList(l)[t]) : file'[t][j] = WithList(l)[t][j]
          BY <3>5 DEF Extends
        <4>3. file' \in [Tables -> Seq(Node)] BY <3>1, <3>3, <3>4
        <4>4. Len(file'[t]) \in Nat BY <4>3
        <4> QED BY <3>7, <4>1, <4>2, <4>4
      <3> QED BY <1>2, <3>1, <3>8
    <2> QED BY <1>6, <2>1, <2>2 DEF ReadConst
  <1>7. ASSUME NEW p \in Pointers, ReadUparams(p) PROVE Extends(file, file') /\ Extends(own, own')
    <2> DEFINE l == IndexOf(file["level"], MkNode("param", <<p>>))
    <2>1. CASE Stop BY <2>1, <1>2 DEF Stop
    <2>2. CASE ~Stop
      <3>1. MkNode("param", <<p>>) \in Elems(file["level"]) /\ Fits(l) /\ file' = WithList(l) /\ own' = own
        BY <1>7, <2>2 DEF ReadUparams
      <3>2. file["level"] \in Seq(Node) BY <1>1 DEF Tables
      <3>3. l \in 0 .. Len(file["level"]) - 1 /\ Len(file["level"]) \in Nat BY <3>1, <3>2, IndexFacts
      <3>4. l \in Pointers BY <3>1, <3>3, CapacityAssumption DEF Fits, Pointers
      <3> HIDE DEF l
      <3> QED BY <1>2, <1>5, <3>1, <3>4
    <2> QED BY <2>1, <2>2
  <1>8. ASSUME NEW n \in Node, Alloc(n) PROVE Extends(file, file') /\ Extends(own, own')
    <2> DEFINE t == TableOf[n.tag]
    <2>1. CASE UNCHANGED <<file, own>> BY <2>1, <1>2
    <2>2. CASE file' = file /\ own' = [own EXCEPT ![t] = Inserted(own[t], n)]
      <3>1. own' = [own EXCEPT ![t] = Inserted(@, n)] BY <2>2
      <3>2. t \in Tables BY NodeFacts
      <3> HIDE DEF t
      <3>3. Extends(own, own') BY <1>1, <3>1, <3>2, InsertExtends
      <3> QED BY <1>2, <2>2, <3>3
    <2> QED BY <1>8, <2>1, <2>2 DEF Alloc, AllocFound, AllocOwn, Stop
  <1>9. ASSUME NewChecker PROVE Extends(file, file') /\ (~NewChecker => Extends(own, own'))
    BY <1>2, <1>9 DEF NewChecker
  <1>10. CASE \E t \in Tables : \E p \in Known(t) : Read(t, p)
    <2>1. Stop BY <1>10 DEF Read
    <2> QED BY <2>1, <1>3
  <1> QED BY <1>3, <1>4, <1>6, <1>7, <1>8, <1>9, <1>10 DEF Next

\* A pointer that leads to a node leads to the same one ever after, one into
\* the checker's tables until the next declaration's checker starts.  This is
\* what a cache with pointers for keys takes for granted.
THEOREM PointersKeepNodes ==
    Spec => [][\A t \in Tables : \A p \in Pointers :
                  Stored(t, p) /\ (IsOwn(p) => ~NewChecker) => Stored(t, p)' /\ NodeAt(t, p)' = NodeAt(t, p)]_vars
  <1>1. ASSUME IInv, IInv', [Next]_vars
        PROVE  \A t \in Tables : \A p \in Pointers :
                  Stored(t, p) /\ (IsOwn(p) => ~NewChecker) => Stored(t, p)' /\ NodeAt(t, p)' = NodeAt(t, p)
    <2> SUFFICES ASSUME NEW t \in Tables, NEW p \in Pointers, Stored(t, p), IsOwn(p) => ~NewChecker
                 PROVE  Stored(t, p)' /\ NodeAt(t, p)' = NodeAt(t, p)
      OBVIOUS
    <2>1. Idx(p) \in Nat BY CapacityAssumption DEF Pointers, IsOwn, Idx
    <2>2. /\ file[t] \in Seq(Node) /\ own[t] \in Seq(Node)
          /\ file'[t] \in Seq(Node) /\ own'[t] \in Seq(Node)
      BY <1>1 DEF IInv, FileOK, OwnOK, TablesOK
    <2>3. Len(file[t]) \in Nat /\ Len(own[t]) \in Nat /\ Len(file'[t]) \in Nat /\ Len(own'[t]) \in Nat BY <2>2
    <2>4. CASE IsOwn(p)
      <3>1. Extends(own, own') BY <1>1, <2>4, TablesGrow
      <3>2. Len(own[t]) <= Len(own'[t]) /\ \A i \in 1 .. Len(own[t]) : own'[t][i] = own[t][i] BY <3>1 DEF Extends
      <3>3. Idx(p) < Len(own[t]) BY <2>4 DEF Stored
      <3>4. Idx(p) + 1 \in 1 .. Len(own[t]) BY <2>1, <2>3, <3>3
      <3> QED BY <2>1, <2>3, <2>4, <3>2, <3>3, <3>4 DEF Stored, NodeAt
    <2>5. CASE ~IsOwn(p)
      <3>1. Extends(file, file') BY <1>1, TablesGrow
      <3>2. Len(file[t]) <= Len(file'[t]) /\ \A i \in 1 .. Len(file[t]) : file'[t][i] = file[t][i]
        BY <3>1 DEF Extends
      <3>3. Idx(p) < Len(file[t]) BY <2>5 DEF Stored
      <3>4. Idx(p) + 1 \in 1 .. Len(file[t]) BY <2>1, <2>3, <3>3
      <3> QED BY <2>1, <2>3, <2>5, <3>2, <3>3, <3>4 DEF Stored, NodeAt
    <2> QED BY <2>4, <2>5
  <1> QED BY <1>1, Inductive, PTL DEF Spec
=============================================================================
