----------------------------- MODULE ExportFile -----------------------------
(***************************************************************************)
(* Reading an export file, declaration by declaration: parse_export_file   *)
(* and the declaration arms of Parser::go1 (src/src/parser.rs).            *)
(*                                                                         *)
(* A line of the file is one element of Lines.  What the tables of names,  *)
(* levels and expressions hold is abstracted to what admission tells       *)
(* apart.  Of an expression it keeps the constants that occur in it        *)
(* ("uses") and whether it is what it has to be ("sound"): the value has   *)
(* the declared type, the constructor satisfies check_ctor, the recursor   *)
(* is the one derived from its inductive type.  Lists of names stay        *)
(* sequences where the code looks at their order.                          *)
(***************************************************************************)
EXTENDS Sequences, Naturals

CONSTANTS
    Names,      \* the names an export file may give to declarations
    Lines,      \* the lines it may be made of
    MaxLines,   \* bound on its length
    PermitAll, Permitted, HardError,   \* config: unsafe_permit_all_axioms,
                                       \* permitted_axioms, unpermitted_axiom_hard_error
    RequiredPp  \* config: pp_declars, {} unless unknown_pp_declar_hard_error

ValueKinds == {"def", "thm", "opaque"}
MemberKinds == {"ind", "ctor", "rec"}
Kinds == ValueKinds \cup MemberKinds \cup {"axiom", "quot"}

\* A declaration: its name, its kind and the constants of its type and value.
\* The other fields mean what the structs of src/src/env.rs say for the kinds
\* that have them and are <<>>, {} or FALSE for the others:
\*   all     all_ind_names of an inductive type, all_inductives of a recursor
\*   ctors   all_ctor_names of an inductive type
\*   ind     inductive_name of a constructor
\*   nested  is_nested of an inductive type; for a constructor: one of its
\*           arguments applies a container to a type of the block
Declar == [name : Names, kind : Kinds, uses : SUBSET Names, sound : BOOLEAN,
           all : Seq(Names), ctors : SUBSET Names, ind : Names, nested : BOOLEAN]

\* A line: an axiom, a definition, theorem or opaque definition, a quotient
\* primitive, or the block of an inductive declaration.
Line == [inds : Seq(Declar), ctors : Seq(Declar), recs : Seq(Declar),
         single : Seq(Declar), unsafe : BOOLEAN]

\* The order in which the arm for inductive declarations inserts them.
Members(l) == l.inds \o l.ctors \o l.recs

ASSUME ConfigAssumption ==
    /\ PermitAll \in BOOLEAN
    /\ HardError \in BOOLEAN
    /\ Permitted \subseteq Names
    /\ RequiredPp \subseteq Names
    /\ PermitAll => ~HardError /\ Permitted = {}   \* Config::try_from
    /\ MaxLines \in Nat

\* The kinds whose lines carry no safety flag, so that no line of theirs is
\* "unsafe".
Flagless == {"thm", "quot"}

\* One declaration, or a block.
ASSUME LinesAssumption ==
    \A l \in Lines :
        /\ l \in Line
        /\ \A i \in DOMAIN l.inds : l.inds[i].kind = "ind"
        /\ \A i \in DOMAIN l.ctors : l.ctors[i].kind = "ctor"
        /\ \A i \in DOMAIN l.recs : l.recs[i].kind = "rec"
        /\ \A i \in DOMAIN l.single : l.single[i].kind \notin MemberKinds
        /\ l.single = <<>> \/ (Len(l.single) = 1 /\ Members(l) = <<>>)
        /\ l.unsafe => \A i \in DOMAIN l.single : l.single[i].kind \notin Flagless

\* The names the lines give to inductive types.
TypeNames == {n \in Names : \E l \in Lines : \E i \in DOMAIN l.inds : l.inds[i].name = n}

VARIABLES
    phase,              \* "reading", then "parsed", "accepted" or "rejected"
    line_num,           \* lines read
    declars,            \* the index map's values, by name ...
    index,              \* ... its positions ...
    len,                \* ... and its length
    mutual_block_sizes, \* start and size of the block of each inductive type
    skipped,            \* axioms that were ignored
    rec_names           \* ind_name_to_recursor_names

fileVars == <<line_num, declars, index, len, mutual_block_sizes, skipped>>
vars == <<phase, fileVars, rec_names>>

Phases == {"reading", "parsed", "accepted", "rejected"}

Init ==
    /\ phase = "reading"
    /\ line_num = 0
    /\ declars = [n \in {} |-> 0]
    /\ index = [n \in {} |-> 0]
    /\ len = 0
    /\ mutual_block_sizes = [n \in {} |-> 0]
    /\ skipped = {}
    /\ rec_names = [n \in {} |-> {}]

-----------------------------------------------------------------------------
Elems(s) == {s[i] : i \in DOMAIN s}

Declared == DOMAIN declars

\* The declarations ms are all new: no name is taken, none comes twice.
Fresh(ms) ==
    /\ \A i \in DOMAIN ms : ms[i].name \notin Declared
    /\ \A i, j \in DOMAIN ms : i # j => ms[i].name # ms[j].name

\* Extend the function f with the value vals[i] for the i-th of ms.
Extend(f, ms, vals) ==
    [n \in DOMAIN f \cup {ms[i].name : i \in DOMAIN ms} |->
        IF n \in DOMAIN f THEN f[n] ELSE vals[CHOOSE i \in DOMAIN ms : ms[i].name = n]]

\* declars.insert for each of ms in turn.
Insert(ms) ==
    /\ declars' = Extend(declars, ms, ms)
    /\ index' = Extend(index, ms, [i \in DOMAIN ms |-> len + i - 1])
    /\ len' = len + Len(ms)

\* A panic or an Err of the parser: the file is rejected before anything is
\* checked.
Fail == phase' = "rejected" /\ UNCHANGED <<fileVars, rec_names>>

Reading == phase = "reading" /\ line_num < MaxLines

\* Mutant of AxiomPermitted: no permitted_axioms list means that any will do.
AxiomPermittedByDefault(n) == PermitAll \/ n \in Permitted \/ ~HardError

AxiomPermitted(n) == PermitAll \/ n \in Permitted

ReadAxiom(l) ==
    /\ Reading
    /\ l.single # <<>> /\ l.single[1].kind = "axiom"
    /\ LET name == l.single[1].name IN
         \/ /\ ~l.unsafe /\ AxiomPermitted(name) /\ Fresh(l.single)
            /\ Insert(l.single)
            /\ line_num' = line_num + 1
            /\ UNCHANGED <<phase, mutual_block_sizes, skipped, rec_names>>
         \/ /\ ~l.unsafe /\ ~AxiomPermitted(name) /\ ~HardError
            /\ skipped' = skipped \cup {name}
            /\ line_num' = line_num + 1
            /\ UNCHANGED <<phase, declars, index, len, mutual_block_sizes, rec_names>>
         \/ /\ \/ l.unsafe
               \/ AxiomPermitted(name) /\ ~Fresh(l.single)
               \/ ~AxiomPermitted(name) /\ HardError
            /\ Fail

\* The arms Defn, Thm, Opaque and Quot.  "unsafe" stands for an unsafe or
\* partial definition too; the arms Thm and Quot have no flag to look at.
ReadSingle(l) ==
    /\ Reading
    /\ l.single # <<>> /\ l.single[1].kind # "axiom"
    /\ \/ /\ ~l.unsafe /\ Fresh(l.single)
          /\ Insert(l.single)
          /\ line_num' = line_num + 1
          /\ UNCHANGED <<phase, mutual_block_sizes, skipped, rec_names>>
       \/ (l.unsafe \/ ~Fresh(l.single)) /\ Fail

\* Mutant of ReadInductive: block_start is read after the types are inserted.
ReadInductiveLateStart(l) ==
    /\ Reading
    /\ l.single = <<>>
    /\ \/ /\ ~l.unsafe /\ Fresh(Members(l))
          /\ Insert(Members(l))
          /\ mutual_block_sizes' =
                Extend(mutual_block_sizes, l.inds,
                       [i \in DOMAIN l.inds |-> [start |-> len + Len(l.inds), size |-> Len(Members(l))]])
          /\ line_num' = line_num + 1
          /\ UNCHANGED <<phase, skipped, rec_names>>
       \/ (l.unsafe \/ ~Fresh(Members(l))) /\ Fail

\* The arm Inductive: types, then constructors, then recursors.
ReadInductive(l) ==
    /\ Reading
    /\ l.single = <<>>
    /\ \/ /\ ~l.unsafe /\ Fresh(Members(l))
          /\ Insert(Members(l))
          /\ mutual_block_sizes' =
                Extend(mutual_block_sizes, l.inds,
                       [i \in DOMAIN l.inds |-> [start |-> len, size |-> Len(Members(l))]])
          /\ line_num' = line_num + 1
          /\ UNCHANGED <<phase, skipped, rec_names>>
       \/ (l.unsafe \/ ~Fresh(Members(l))) /\ Fail

ReadLine(l) == ReadAxiom(l) \/ ReadSingle(l) \/ ReadInductive(l)

\* The pass over the declarations after the last line: every constructor has
\* to be listed by an inductive type.
CtorListed(c) ==
    /\ declars[c].ind \in Declared
    /\ declars[declars[c].ind].kind = "ind"
    /\ c \in declars[declars[c].ind].ctors

AllCtorsListed == \A c \in Declared : declars[c].kind = "ctor" => CtorListed(c)

\* The recursors that name n among their inductive types.
RecursorsOf(n) == {r \in Declared : declars[r].kind = "rec" /\ n \in Elems(declars[r].all)}

\* Mutant of EndOfFile: the loop leaves constructors alone.
EndOfFileTrustingCtors ==
    /\ phase = "reading"
    /\ \/ /\ RequiredPp \subseteq Declared
          /\ phase' = "parsed"
          /\ rec_names' = [n \in {m \in Names : RecursorsOf(m) # {}} |-> RecursorsOf(n)]
          /\ UNCHANGED fileVars
       \/ ~(RequiredPp \subseteq Declared) /\ Fail

EndOfFile ==
    /\ phase = "reading"
    /\ \/ /\ RequiredPp \subseteq Declared /\ AllCtorsListed
          /\ phase' = "parsed"
          /\ rec_names' = [n \in {m \in Names : RecursorsOf(m) # {}} |-> RecursorsOf(n)]
          /\ UNCHANGED fileVars
       \/ ~(RequiredPp \subseteq Declared /\ AllCtorsListed) /\ Fail
=============================================================================
