------------------------------- MODULE Store --------------------------------
(***************************************************************************)
(* The arenas every name, level, list of levels and expression lives in:   *)
(* the tables the parser fills (src/src/parser.rs), and the checker's own  *)
(* tables, which start empty for every declaration (Ptr, LeanDag and       *)
(* TcCtx in src/src/util.rs).  A pointer is an index and a bit that tells  *)
(* whose table it is into.  Allocating looks for the node in the file's    *)
(* table before the checker's, so that two pointers of one checker are     *)
(* equal exactly if the terms are.  All caches, and the first test of      *)
(* def_eq, rest on that.                                                   *)
(*                                                                         *)
(* A node is its constructor, its pointers and what else it holds.  The    *)
(* hash and the other fields an expression caches are functions of these.  *)
(* Lists of levels have one element; strings and numbers are data, not     *)
(* tables; of constructors that differ in how many pointers they have into *)
(* the same tables one is kept.  Workers share the file's tables, which    *)
(* nothing changes any more, and no two share a checker.                   *)
(***************************************************************************)
EXTENDS Sequences, Integers

CONSTANTS
    Data,       \* strings, numbers, binder styles ...
    NoData,     \* ... of a node that has none
    Capacity,   \* pointers hold indices below this: 2^31
    MaxFile,    \* bound: how many nodes a file has
    MaxOwn      \* bound: how many nodes a checker allocates

ASSUME DataAssumption == NoData \in Data
ASSUME CapacityAssumption == Capacity \in Nat \ {0}
ASSUME BoundAssumption == MaxFile \in Nat /\ MaxOwn \in Nat

\* The tables, the constructors of each, and what these point to.
Tables == {"name", "level", "levels", "expr"}

TableOf ==
    [anon |-> "name", str |-> "name", zero |-> "level", imax |-> "level", param |-> "level",
     list |-> "levels", var |-> "expr", sort |-> "expr", const |-> "expr", app |-> "expr"]

Tags == DOMAIN TableOf

KidTables ==
    [anon |-> <<>>, str |-> <<"name">>, zero |-> <<>>, imax |-> <<"level", "level">>, param |-> <<"name">>,
     list |-> <<"level">>, var |-> <<>>, sort |-> <<"level">>, const |-> <<"name", "levels">>, app |-> <<"expr", "expr">>]

-----------------------------------------------------------------------------
(* Pointers, of one bit more than an index.                                *)

Pointers == 0 .. 2 * Capacity - 1

\* Mutant of Fits: the first index that needs the bit is let through.
FitsOrEqual(i) == i <= Capacity

\* Ptr::from panics unless the index leaves the bit free.
Fits(i) == i < Capacity

\* DagMarker::TcCtx sets the bit.
OwnPtr(i) == Capacity + i
FilePtr(i) == i

IsOwn(p) == p >= Capacity
Idx(p) == IF IsOwn(p) THEN p - Capacity ELSE p

NodesOf(c) ==
    [tag : {c}, data : IF c \in {"str", "var"} THEN Data ELSE {NoData}, kids : [1 .. Len(KidTables[c]) -> Pointers]]

Node == UNION {NodesOf(c) : c \in Tags}

MkNode(c, kids) == [tag |-> c, data |-> NoData, kids |-> kids]

VARIABLES
    phase,      \* "reading" or "checking", until "stopped" by a panic or an exit
    file,       \* the file's tables
    own,        \* the checker's
    answer      \* what was allocated last: the table, the node and its pointer

vars == <<phase, file, own, answer>>

Anon == MkNode("anon", <<>>)
Zero == MkNode("zero", <<>>)

Empty == [t \in Tables |-> <<>>]

\* Nothing has been allocated.
NoAnswer == [table |-> "name", node |-> Anon, ptr |-> FilePtr(0)]

\* Parser::new: the exporter counts the anonymous name and level zero as the
\* first of their kind without writing them.
Init ==
    /\ phase = "reading"
    /\ file = [Empty EXCEPT !["name"] = <<Anon>>, !["level"] = <<Zero>>]
    /\ own = Empty
    /\ answer = NoAnswer

Stop == phase' = "stopped" /\ UNCHANGED <<file, own, answer>>

Size(tables) == Len(tables["name"]) + Len(tables["level"]) + Len(tables["levels"]) + Len(tables["expr"])

-----------------------------------------------------------------------------
(* Reading.  An index set's insert_full: where the element is, or goes.    *)

Elems(s) == {s[i] : i \in DOMAIN s}

IndexOf(s, n) == (CHOOSE i \in DOMAIN s : s[i] = n) - 1

\* Mutant of Inserted: a vector in place of the set.
InsertedAgain(s, n) == Append(s, n)

Inserted(s, n) == IF n \in Elems(s) THEN s ELSE Append(s, n)

\* Mutant of GetPtr: an index may be the next one.
GetPtrOrNext(t, p) == Fits(p) /\ p <= Len(file[t])

\* get_name_ptr, get_level_ptr, get_expr_ptr: the index is one of the table.
GetPtr(t, p) == Fits(p) /\ p < Len(file[t])

Reading == phase = "reading" /\ Size(file) < MaxFile

\* assert_in, assert_il, assert_ie: the node has to be new, and the numbers
\* the file gives have to be consecutive.
AssertNext(tables, n, i) ==
    IF n \notin Elems(tables[TableOf[n.tag]]) /\ i = Len(tables[TableOf[n.tag]])
    THEN file' = [tables EXCEPT ![TableOf[n.tag]] = Append(@, n)] /\ UNCHANGED <<phase, own, answer>>
    ELSE Stop

\* A line with a name, a level or an expression, which the file numbers i.
ReadNode(n, i) ==
    /\ Reading
    /\ n.tag \notin {"list", "const"}
    /\ IF \A j \in DOMAIN n.kids : GetPtr(KidTables[n.tag][j], n.kids[j])
       THEN AssertNext(file, n, i)
       ELSE Stop

\* The levels table with one more list, and where in it the list is.
WithList(l) == [file EXCEPT !["levels"] = Inserted(@, MkNode("list", <<l>>))]
ListPtr(l) == IndexOf(WithList(l)["levels"], MkNode("list", <<l>>))

\* A line with a constant.  get_levels_ptr does not look whether the levels are
\* there.
ReadConst(p, l, i) ==
    /\ Reading
    /\ IF GetPtr("name", p) /\ Fits(l) /\ Fits(ListPtr(l))
       THEN AssertNext(WithList(l), MkNode("const", <<p, ListPtr(l)>>), i)
       ELSE Stop

\* get_uparams_ptr, for the universe parameters of a declaration: the level
\* has to be in the file already.
ReadUparams(p) ==
    LET param == MkNode("param", <<p>>)
        l == IndexOf(file["level"], param)
    IN
    /\ Reading
    /\ IF GetPtr("name", p) /\ param \in Elems(file["level"]) /\ Fits(l) /\ Fits(ListPtr(l))
       THEN file' = WithList(l) /\ UNCHANGED <<phase, own, answer>>
       ELSE Stop

EndOfFile ==
    /\ phase = "reading"
    /\ phase' = "checking"
    /\ UNCHANGED <<file, own, answer>>

-----------------------------------------------------------------------------
(* Checking.                                                               *)

\* check_declar: a new context with an empty arena.
NewChecker ==
    /\ phase = "checking"
    /\ own' = Empty
    /\ answer' = NoAnswer
    /\ UNCHANGED <<phase, file>>

\* The pointers into table t whose nodes are stored.
FilePtrs(t) == {FilePtr(i) : i \in {j \in 0 .. Len(file[t]) - 1 : Fits(j)}}
OwnPtrs(t) == {OwnPtr(i) : i \in 0 .. Len(own[t]) - 1}

Stored(t, p) == Idx(p) < Len(IF IsOwn(p) THEN own[t] ELSE file[t])

\* The pointers a checker can have: these, and those in the file's lists.
Known(t) == FilePtrs(t) \cup OwnPtrs(t) \cup {n.kids[1] : n \in IF t = "level" THEN Elems(file["levels"]) ELSE {}}

\* read_name, read_level, read_expr and the others: nothing but a result, or a
\* panic when the index is not in the table.
Read(t, p) ==
    /\ phase = "checking"
    /\ ~Stored(t, p)
    /\ Stop

\* child_stored, for the children in the table of the node itself.
ChildrenStored(n) ==
    \A j \in DOMAIN n.kids : KidTables[n.tag][j] = TableOf[n.tag] /\ IsOwn(n.kids[j]) => Stored(TableOf[n.tag], n.kids[j])

\* Mutant of InFile: the file is not looked at.
InFileNever(n) == FALSE

InFile(n) == n \in Elems(file[TableOf[n.tag]])

Answer(t, n, p) == [table |-> t, node |-> n, ptr |-> p]

AllocFound(n) ==
    LET t == TableOf[n.tag]
        i == IndexOf(file[t], n)
    IN IF Fits(i)
       THEN answer' = Answer(t, n, FilePtr(i)) /\ UNCHANGED <<phase, file, own>>
       ELSE Stop

AllocOwn(n) ==
    LET t == TableOf[n.tag]
        s == Inserted(own[t], n)
        i == IndexOf(s, n)
    IN IF ChildrenStored(n) /\ Fits(i)
       THEN /\ own' = [own EXCEPT ![t] = s]
            /\ answer' = Answer(t, n, OwnPtr(i))
            /\ UNCHANGED <<phase, file>>
       ELSE Stop

\* alloc_name, alloc_level, alloc_levels and alloc_expr.
Alloc(n) ==
    /\ phase = "checking" /\ Size(own) < MaxOwn
    /\ \A j \in DOMAIN n.kids : n.kids[j] \in Known(KidTables[n.tag][j])
    /\ IF InFile(n) THEN AllocFound(n) ELSE AllocOwn(n)

Next ==
    \/ \E n \in Node, i \in Pointers : ReadNode(n, i)
    \/ \E p, l, i \in Pointers : ReadConst(p, l, i)
    \/ \E p \in Pointers : ReadUparams(p)
    \/ EndOfFile
    \/ NewChecker
    \/ \E t \in Tables : \E p \in Known(t) : Read(t, p)
    \/ \E n \in Node : Alloc(n)

Spec == Init /\ [][Next]_vars

-----------------------------------------------------------------------------
(* Properties.                                                             *)

NodesIn(t) == {n \in Node : TableOf[n.tag] = t}

\* The variables have their types, and no table outgrows the numbers its
\* indices are written with.
TypeOK ==
    /\ phase \in {"reading", "checking", "stopped"}
    /\ file \in [Tables -> Seq(Node)] /\ own \in [Tables -> Seq(Node)]
    /\ \A t \in Tables : \A i \in DOMAIN file[t] : TableOf[file[t][i].tag] = t
    /\ \A t \in Tables : \A i \in DOMAIN own[t] : TableOf[own[t][i].tag] = t
    /\ \A t \in Tables : Len(own[t]) <= Capacity
    /\ answer \in [table : Tables, node : Node, ptr : Pointers]

NodeAt(t, p) == IF IsOwn(p) THEN own[t][Idx(p) + 1] ELSE file[t][Idx(p) + 1]

\* Equal nodes have equal pointers: no table has a node twice, and none of a
\* checker's is in the file too.  Comparing pointers is comparing nodes, and so
\* terms, as long as the nodes' pointers do not form a loop.
Unique ==
    \A t \in Tables : \A p, q \in FilePtrs(t) \cup OwnPtrs(t) : NodeAt(t, p) = NodeAt(t, q) => p = q

\* A pointer that was handed out leads to the node asked for, into the file
\* exactly if the file has the node.
AnswerRight ==
    /\ Stored(answer.table, answer.ptr)
    /\ NodeAt(answer.table, answer.ptr) = answer.node
    /\ IsOwn(answer.ptr) <=> answer.node \notin Elems(file[answer.table])

\* What a stored node points to was stored before it, and nothing in the file
\* points into a checker.  The elements of the file's lists are the exception,
\* and levels made from them: these may lead nowhere.
Closed ==
    \A t \in Tables :
        /\ \A i \in DOMAIN file[t] : \A j \in DOMAIN file[t][i].kids :
              LET k == KidTables[file[t][i].tag][j]
                  p == file[t][i].kids[j]
              IN ~IsOwn(p) /\ (t # "levels" => p < IF k = t THEN i - 1 ELSE Len(file[k]))
        /\ \A i \in DOMAIN own[t] : \A j \in DOMAIN own[t][i].kids :
              LET k == KidTables[own[t][i].tag][j]
                  p == own[t][i].kids[j]
              IN IF IsOwn(p) THEN Idx(p) < IF k = t THEN i - 1 ELSE Len(own[k])
                 ELSE k # "level" => p < Len(file[k])

\* The terms that pointers lead to, one node deeper than those below.
Deeper(below) ==
    [t \in Tables |-> [p \in Pointers |->
        IF ~Stored(t, p) THEN <<"dangling", p>>
        ELSE LET n == NodeAt(t, p)
             IN <<n.tag, n.data, [j \in DOMAIN n.kids |-> below[KidTables[n.tag][j]][n.kids[j]]]>>]]

\* What is seen of the terms without following a pointer, and after d steps.
Cut == [t \in Tables |-> [p \in Pointers |-> IF ~Stored(t, p) THEN <<"dangling", p>> ELSE <<"cut">>]]

Unfolded[d \in Nat] == IF d = 0 THEN Cut ELSE Deeper(Unfolded[d - 1])

TermAt(t, p) == Unfolded[Size(file) + Size(own)][t][p]

\* Two pointers of one checker are equal exactly if what they lead to is, all
\* the way down: the file's and the checker's tables share no term.  A term is
\* finite, that is, as many steps as there are nodes show all of it.
PointersAreTerms ==
    \A t \in Tables :
        /\ \A p \in Known(t) : Unfolded[Size(file) + Size(own) + 1][t][p] = TermAt(t, p)
        /\ \A p, q \in Known(t) : TermAt(t, p) = TermAt(t, q) => p = q
=============================================================================
