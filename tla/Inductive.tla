------------------------------ MODULE Inductive ------------------------------
(***************************************************************************)
(* The check of a block of inductive types (check_inductive_declar in      *)
(* src/src/inductive.rs, called by check_declar of src/src/tc.rs): every   *)
(* type of the block is checked with the whole block, every constructor    *)
(* and recursor as a declaration of its own.  The stages of the first are  *)
(* actions; they pass on the state of the block, st, and each works with a *)
(* new checker in the environment the stages before made.                  *)
(*                                                                         *)
(* While a type is checked, what the file declares is hidden by what the   *)
(* check itself declares under the same name.                              *)
(*                                                                         *)
(* A step works on a view of the state, v: the file and the environment,   *)
(* the declaration d that is checked and its name, and the variables.      *)
(***************************************************************************)
EXTENDS ExprTerms, Names

CONSTANTS
    Base,      \* the declarations of the file before the block, by name
    Blocks,    \* blocks a file may have there: lists of [name, d]
    MaxTypes   \* how many types a block may grow to

ASSUME MaxTypesAssumption == MaxTypes \in Nat

VARIABLES
    block,     \* the block of the file
    pos,       \* the declaration of it that is checked
    stage,     \* what is done next; to start with, the declaration's kind
    at,        \* for the item of the stage at this position
    done,      \* the recursors of the file's types that were compared
    st,        \* InductiveCheckState
    temp,      \* the declarations that hide the file's
    tc         \* the checker of the stage

vars == <<block, pos, stage, at, done, st, temp, tc>>

SE == INSTANCE SequencesExt
ToSet(s) == {s[i] : i \in DOMAIN s}
NoDecls == [n \in {} |-> 0]
Prefix(decls, k) == [n \in {decls[i].name : i \in 1 .. k} |-> decls[CHOOSE i \in 1 .. k : decls[i].name = n].d]

\* The declarations of the file.
File == Prefix(block, Len(block)) @@ Base

\* A type sees the whole block, and has no declaration to compare universe
\* parameters with.
View ==
    LET d == block[pos].d
        whole == d.kind = "ind"
    IN [file |-> File, before |-> DOMAIN (Prefix(block, pos - 1) @@ Base),
        env |-> temp @@ Prefix(block, IF whole THEN Len(block) ELSE pos - 1) @@ Base,
        scope |-> IF whole THEN STRING ELSE ToSet(d.uparams),
        d |-> d, name |-> block[pos].name, st |-> st, temp |-> temp, done |-> done, at |-> at]

R(v) == INSTANCE Recursors WITH Env <- v.env, DeclUparams <- v.scope, NatExtension <- TRUE, StringExtension <- FALSE
N(v) == INSTANCE NestedBlocks WITH Env <- v.env, DeclUparams <- v.scope, NatExtension <- TRUE, StringExtension <- FALSE

NoState == <<"none">>
Checker(uniq) == R([env |-> NoDecls, scope |-> {}])!Checker(uniq)

Init ==
    /\ block \in Blocks
    /\ pos = 1 /\ stage = block[1].d.kind /\ at = 1 /\ done = {}
    /\ st = NoState /\ temp = NoDecls
    /\ tc = Checker(0)

-----------------------------------------------------------------------------
(* Going on.  The work of a step starts from the view and the checker and  *)
(* returns what it makes of the block's state, the declarations and the    *)
(* checker.                                                                *)

Made(state, declared, s) == [st |-> state, temp |-> declared, s |-> s]
Checked(v, s) == Made(v.st, v.temp, s)
NewState(v, o) == Made(o.r, v.temp, o.s)
NewDecls(v, o) == Made(v.st, o.r, o.s)

\* The next stage has a checker of its own: no cache outlives the environment
\* it was filled in.
NewChecker(o) == [o EXCEPT !.s = IF @.panicked THEN @ ELSE Checker(@.uniq)]

Unless(s, next) == IF s.panicked THEN "rejected" ELSE next

\* One of the items of a stage.
Item(s, Items(_), Work(_, _)) ==
    /\ stage = s /\ at \in Items(View)
    /\ LET o == Work(View, tc) IN stage' = Unless(o.s, s) /\ st' = o.st /\ temp' = o.temp /\ tc' = o.s
    /\ at' = at + 1
    /\ UNCHANGED <<block, pos, done>>

\* The end of a stage of Size items.
Leave(s, Size(_), Next_(_), Work(_, _)) ==
    /\ stage = s /\ at > Size(View)
    /\ LET o == Work(View, tc) IN stage' = Unless(o.s, Next_(View)) /\ st' = o.st /\ temp' = o.temp /\ tc' = o.s
    /\ at' = 1
    /\ UNCHANGED <<block, pos, done>>

\* A stage of one item.
Whole(s, next, Work(_, _)) == Leave(s, LAMBDA v : 0, LAMBDA v : next, Work)

\* The end of a declaration; the next one is checked on a context of its own.
NextDeclar(s, Size(_), Work(_, _)) ==
    /\ stage = s /\ at > Size(View)
    /\ stage' = Unless(Work(View, tc), IF pos = Len(block) THEN "accepted" ELSE block[pos + 1].d.kind)
    /\ pos' = pos + 1 /\ at' = 1 /\ done' = {}
    /\ st' = NoState /\ temp' = NoDecls
    /\ tc' = Checker(0)
    /\ UNCHANGED block

\* check_declar_info_unwrap
CheckDeclarInfo(v, s) ==
    LET l == R(v)!EnsureInfersAsSort(v.d.ty, s) IN
    IF ~R(v)!NoDupesAllParams(R(v)!Params(v.d.uparams)) \/ ~R(v)!Closed(v.d.ty) THEN R(v)!Dead(s) ELSE l.s

-----------------------------------------------------------------------------
(* The stages of a type.                                                   *)

IsDeclared(v, n, kind) == n \in DOMAIN v.file /\ v.file[n].kind = kind
BlockIsDeclared(v) ==
    \A n \in ToSet(v.d.all) :
        IsDeclared(v, n, "ind") /\ \A c \in ToSet(v.file[n].ctors) : IsDeclared(v, c, "ctor")

RECURSIVE BinderMentions(_, _, _)
BinderMentions(v, ty, names) ==
    ty[1] = "pi" /\ (R(v)!FindConstNamed(ty[2], names) \/ BinderMentions(v, ty[3], names))

\* ExportFile::is_recursive
IsRecursive(v, n) == \E c \in ToSet(v.file[n].ctors) : BinderMentions(v, v.file[c].ty, ToSet(v.file[n].all))

\* No name the check may make up for itself.
NoNestedNames(v) ==
    \A n \in ToSet(v.d.all) \cup ToSet(v.d.ctors) \cup {v.name} : ~R(v)!HasNestedPfx(v.file[n].ty)

ScanBlock(v, s) ==
    R(v)!Require(/\ BlockIsDeclared(v)
                 /\ v.d.is_recursive = \E n \in ToSet(v.d.all) : IsRecursive(v, n)
                 /\ NoNestedNames(v), s)

Scan == Whole("ind", "info", LAMBDA v, s : Checked(v, ScanBlock(v, s)))

CheckInfo ==
    Whole("info", "headers", LAMBDA v, s : NewChecker(Checked(v, R(v)!Require(v.d.all # <<>>, CheckDeclarInfo(v, s)))))

\* header_of_ty, and collect_unmodified_mutuals
HeaderOf(v, n) ==
    LET ctors == v.file[n].ctors
    IN [name |-> n, ty |-> v.file[n].ty, ctors |-> [j \in DOMAIN ctors |-> [name |-> ctors[j], ty |-> v.file[ctors[j]].ty]]]

FileHeaders(v) == [i \in DOMAIN v.d.all |-> HeaderOf(v, v.d.all[i])]

Specialized(v, o) == Made(o.st, v.temp, o.s)

BeginSpecialize ==
    Whole("headers", "specialize",
          LAMBDA v, s : Specialized(v, N(v)!BeginSpecialize(v.d.uparams, v.d.num_params, FileHeaders(v), s)))

Types(v) == DOMAIN v.st.types

\* The block has outgrown the bound: the code would go on.
HasOutgrown(state) == Len(state.types) > MaxTypes

SpecializeType ==
    Item("specialize", LAMBDA v : IF HasOutgrown(v.st) THEN {} ELSE Types(v),
         LAMBDA v, s : Specialized(v, N(v)!SpecializeType(v.at, v.st, s)))

NumTypes(v) == Len(v.st.types)

EndSpecialize ==
    Leave("specialize", NumTypes, LAMBDA v : "specs",
          LAMBDA v, s : NewChecker(Specialized(v, N(v)!EndSpecialize(v.st, s))))

CheckSpec == Item("specs", Types, LAMBDA v, s : NewState(v, R(v)!CheckInductiveSpec(v.at, v.st, s)))

DeclareTypes ==
    Leave("specs", NumTypes, LAMBDA v : "ctors", LAMBDA v, s : NewChecker(Made(v.st, R(v)!MkIndTysEnvExt(v.st), s)))

Positions(v) == R(v)!CtorPositions(v.st)
NumCtors(v) == Len(Positions(v))
CtorAt(v, p) == v.st.types[p[1]].ctors[p[2]]

CheckCtorAt(v, p, s) == R(v)!CheckCtor(v.st.types[p[1]].name, CtorAt(v, p).ty, v.st, s)

CheckCtor ==
    Item("ctors", LAMBDA v : DOMAIN Positions(v), LAMBDA v, s : Checked(v, CheckCtorAt(v, Positions(v)[v.at], s)))

DeclareCtors ==
    Leave("ctors", NumCtors, LAMBDA v : "elim",
          LAMBDA v, s : NewChecker(NewDecls(v, R(v)!MkCtorsEnvExt(v.st, v.temp, s))))

\* mk_elim_level and init_k_target
FindElim(v, s) ==
    LET o == R(v)!MkElimLevel(v.st, s) IN
    IF o.s.panicked THEN Checked(v, o.s) ELSE Made(R(v)!InitKTarget(o.r), v.temp, o.s)

FindElimLevel == Whole("elim", "motives", FindElim)

MakeMotives ==
    Whole("motives", "minors",
          LAMBDA v, s : LET m == R(v)!MkMajors(v.st, s) IN NewState(v, R(v)!MkMotives(m.r, m.s)))

MakeMinors == Whole("minors", "recursors", LAMBDA v, s : NewState(v, R(v)!MkMinors(v.st, s)))

RecNames(v) == [i \in Types(v) |-> RecName(v.st.types[i].name)]

WithRecursors(v, s) ==
    LET o == R(v)!MkRecursors(v.st, s)
        recs == [n \in ToSet(RecNames(v)) |-> o.r[CHOOSE i \in DOMAIN o.r : o.r[i].name = n].d]
    IN IF o.s.panicked THEN Checked(v, o.s) ELSE Made(v.st, recs @@ v.temp, o.s)

MakeRecursors == Whole("recursors", "names", LAMBDA v, s : NewChecker(WithRecursors(v, s)))

-----------------------------------------------------------------------------
(* Comparing with the file.                                                *)

\* mk_base_rec_names and mk_specialized_rec_to_unspecialized_map
BaseRecNames(v) == {RecName(n) : n \in ToSet(v.d.all)}
RecMap(v) == N(v)!SpecializedRecMap(v.st.types, Len(v.d.all))
RestoredNames(v) == BaseRecNames(v) \cup {RecMap(v)[k][2] : k \in DOMAIN RecMap(v)}

\* ind_name_to_recursor_names
FileRecNames(v, n) == {r \in DOMAIN v.file : v.file[r].kind = "rec" /\ n \in ToSet(v.file[r].all)}

\* The file has the recursors that were made, by name, and no other.
SameNames(v, s) ==
    R(v)!Require(FileRecNames(v, v.name) = IF R(v)!IsNested(v.st) THEN RestoredNames(v) ELSE ToSet(RecNames(v)), s)

CompareNames ==
    Leave("names", LAMBDA v : 0, LAMBDA v : IF R(v)!IsNested(v.st) THEN "restore" ELSE "compare",
          LAMBDA v, s : Checked(v, SameNames(v, s)))

\* InductiveData::aux_data_ck
SameTypeData(old, new) ==
    /\ old.num_params = new.num_params /\ old.num_indices = new.num_indices /\ old.is_nested = new.is_nested
    /\ ToSet(old.ctors) = ToSet(new.ctors)
    /\ IF new.is_nested THEN ToSet(old.all) \subseteq ToSet(new.all) ELSE ToSet(old.all) = ToSet(new.all)

\* ConstructorData::aux_data_ck
SameCtorData(old, new) ==
    /\ old.inductive = new.inductive /\ old.idx = new.idx
    /\ old.num_params = new.num_params /\ old.num_fields = new.num_fields

\* RecursorData::aux_data_ck
SameRecData(old, new) ==
    /\ old.num_params = new.num_params /\ old.num_indices = new.num_indices
    /\ old.num_motives = new.num_motives /\ old.num_minors = new.num_minors
    /\ old.is_k = new.is_k
    /\ ToSet(old.all) = ToSet(new.all)

\* assert_def_eq of two closed terms, from an empty cache.
AssertSame(v, old, new, s) ==
    IF ~R(v)!Closed(old) \/ ~R(v)!Closed(new) THEN R(v)!Dead(s) ELSE R(v)!AssertDefEq(old, new, R(v)!Clear(s))

\* assert_nonnested_tys_def_eq and assert_nonnested_ctors_def_eq
CompareTy(v, n, s) ==
    AssertSame(v, v.file[n].ty, v.temp[n].ty, R(v)!Require(SameTypeData(v.file[n], v.temp[n]), s))
CompareCtorTy(v, n, s) ==
    AssertSame(v, v.file[n].ty, v.temp[n].ty, R(v)!Require(SameCtorData(v.file[n], v.temp[n]), s))

FileTypes(v) == DOMAIN v.d.all

CompareType == Item("compare", FileTypes, LAMBDA v, s : Checked(v, CompareTy(v, v.d.all[v.at], s)))

CompareCtor ==
    Item("compare", LAMBDA v : {NumTypes(v) + k : k \in DOMAIN Positions(v)},
         LAMBDA v, s : Checked(v, CompareCtorTy(v, CtorAt(v, Positions(v)[v.at - NumTypes(v)]).name, s)))

\* assert_nonnested_rec_rule_def_eq.  That the two rules do not share a spelling
\* is asserted as well and not modelled.
CompareRule(v, old, new, old_uparams, s) ==
    IF old.ctor # new.ctor \/ old.nfields # new.nfields THEN R(v)!Dead(s)
    ELSE AssertSame(v, old.val, R(v)!SubstLevels(new.val, v.st.rec_uparams, R(v)!Params(old_uparams)), s)

\* All rules of two recursors.
CompareRules(v, olds, news, Compare(_, _, _), s) ==
    IF Len(olds) # Len(news) THEN R(v)!Dead(s)
    ELSE SE!FoldLeft(LAMBDA t, i : IF t.panicked THEN t ELSE Compare(olds[i], news[i], t), s, [i \in DOMAIN olds |-> i])

\* assert_nonnested_recursors_def_eq: the universe parameters may have other
\* names in the file.
CompareRec(v, old, new, s) ==
    LET ty == R(v)!SubstLevels(old.ty, old.uparams, R(v)!Params(v.st.rec_uparams)) IN
    IF \/ ~SameRecData(old, new)
       \/ ~R(v)!NoDupesAllParams(R(v)!Params(old.uparams)) \/ Len(old.uparams) # Len(v.st.rec_uparams)
    THEN R(v)!Dead(s)
    ELSE CompareRules(v, old.rec_rules, new.rec_rules,
                      LAMBDA x, y, t : CompareRule(v, x, y, old.uparams, t), AssertSame(v, ty, new.ty, s))

CompareRecNamed(v, n, s) == IF IsDeclared(v, n, "rec") THEN CompareRec(v, v.file[n], v.temp[n], s) ELSE R(v)!Dead(s)

CompareRecursor ==
    Item("compare", LAMBDA v : {NumTypes(v) + NumCtors(v) + i : i \in Types(v)},
         LAMBDA v, s : Checked(v, CompareRecNamed(v, RecNames(v)[v.at - NumTypes(v) - NumCtors(v)], s)))

Compared == NextDeclar("compare", LAMBDA v : NumTypes(v) + NumCtors(v) + NumTypes(v), LAMBDA v, s : s)

\* restore_and_check, for a type and its constructors, which are translated
\* back.
RestoreCtor(v, c, s) ==
    LET ty == N(v)!RestoreE(v.temp[c].ty, v.st, RecMap(v), s) IN
    IF ~SameCtorData(v.file[c], v.temp[c]) \/ ty.s.panicked THEN R(v)!Dead(s)
    ELSE AssertSame(v, v.file[c].ty, ty.r, ty.s)

RestoreTy(v, n, s) ==
    SE!FoldLeft(LAMBDA t, c : IF t.panicked THEN t ELSE RestoreCtor(v, c, t), CompareTy(v, n, s), v.file[n].ctors)

RestoreType == Item("restore", FileTypes, LAMBDA v, s : Checked(v, RestoreTy(v, v.d.all[v.at], s)))

\* check_restored_recursor1: levels as they are spelled, and the number of
\* fields of a rule is not compared.
RestoreRec(v, n, s) ==
    LET k == N(v)!RecEntry(n, RecMap(v))
        resolved == IF k = 0 THEN n ELSE RecMap(v)[k][2]
        new == N(v)!RestoreRecursor1(n, v.d.all, v.st, RecMap(v), s)
        old == v.file[resolved]
    IN IF new.s.panicked THEN new.s
       ELSE IF ~IsDeclared(v, resolved, "rec") THEN new.s
       ELSE IF ~SameRecData(old, new.r) THEN R(v)!Dead(s)
       ELSE CompareRules(v, old.rec_rules, new.r.rec_rules,
                         LAMBDA x, y, t : IF x.ctor # y.ctor THEN R(v)!Dead(t) ELSE AssertSame(v, x.val, y.val, t),
                         AssertSame(v, old.ty, new.r.ty, new.s))

\* The recursors of the types of the file come in the order of a hash set.
OneOf(s, Size(_), Names(_), Work(_, _, _)) ==
    /\ stage = s /\ at = Size(View) + 1
    /\ \E n \in Names(View) \ done :
          /\ done' = done \cup {n}
          /\ LET t == Work(View, n, tc) IN stage' = Unless(t, s) /\ tc' = t
    /\ UNCHANGED <<block, pos, at, st, temp>>

NumFileTypes(v) == Len(v.d.all)

RestoreBaseRecursor == OneOf("restore", NumFileTypes, BaseRecNames, RestoreRec)

RestoreCopyRecursor ==
    Item("restore", LAMBDA v : IF v.done = BaseRecNames(v) THEN {NumFileTypes(v) + k : k \in DOMAIN RecMap(v)} ELSE {},
         LAMBDA v, s : Checked(v, RestoreRec(v, RecMap(v)[v.at - NumFileTypes(v)][1], s)))

Restored == NextDeclar("restore", LAMBDA v : NumFileTypes(v) + Len(RecMap(v)), LAMBDA v, s : s)

-----------------------------------------------------------------------------
(* The declarations that are not types.                                    *)

CheckConstructor ==
    NextDeclar("ctor", LAMBDA v : 0,
               LAMBDA v, s : R(v)!Require(v.d.inductive \in DOMAIN v.file, CheckDeclarInfo(v, s)))

\* Its types come before it.
CheckRecursor ==
    NextDeclar("rec", LAMBDA v : 0,
               LAMBDA v, s : R(v)!Require(/\ v.d.all # <<>> /\ IsDeclared(v, v.d.all[1], "ind")
                                          /\ ToSet(v.d.all) \subseteq v.before, CheckDeclarInfo(v, s)))

\* The check is over, or the block has outgrown the bound: the code would go
\* on.
Outgrown == stage = "specialize" /\ HasOutgrown(st)
Stopped == stage \in {"accepted", "rejected"} \/ Outgrown
Done == Stopped /\ UNCHANGED vars

Step ==
    \/ Scan \/ CheckInfo \/ BeginSpecialize \/ SpecializeType \/ EndSpecialize
    \/ CheckSpec \/ DeclareTypes \/ CheckCtor \/ DeclareCtors
    \/ FindElimLevel \/ MakeMotives \/ MakeMinors \/ MakeRecursors
    \/ CompareNames \/ CompareType \/ CompareCtor \/ CompareRecursor \/ Compared
    \/ RestoreType \/ RestoreBaseRecursor \/ RestoreCopyRecursor \/ Restored
    \/ CheckConstructor \/ CheckRecursor

Next == Step \/ Done

\* Weak fairness of Step, which can be taken unless Stopped: the check is one
\* thread that does nothing else.
Fairness == []<>Stopped \/ []<><<TRUE>>_vars

Spec == Init /\ [][Next]_vars /\ Fairness
-----------------------------------------------------------------------------
(* Properties.                                                             *)

T == INSTANCE RecursorSpec WITH Env <- File

Of(kind) == {i \in DOMAIN block : block[i].d.kind = kind}
Groups == {block[i].d.all : i \in Of("ind")}
RecursorsOf(b) == {block[i].name : i \in {j \in Of("rec") : ToSet(block[j].d.all) \cap ToSet(b) # {}}}

\* A block that passes is well formed: its fields are small enough and its types
\* occur positively, in every family that nesting adds as well.
AcceptedIsWellFormed == [][stage' = "accepted" => \A b \in Groups : T!WellFormed(b)]_vars

\* The recursors of a block that passes are the textbook's: they eliminate into
\* data only where that is allowed, K where proofs decide, and those of nested
\* occurrences are in their order, although all were made for the copies.
RecursorsAreTextbook == [][stage' = "accepted" => \A b \in Groups : T!RecursorsAgree(b, RecursorsOf(b))]_vars

\* A well-formed block with its textbook recursors passes: replacing nested
\* occurrences and translating back loses none.
WellFormedIsAccepted ==
    [][stage' = "rejected" =>
          ~ /\ \A b \in Groups : T!WellFormed(b) /\ T!RecursorsAgree(b, RecursorsOf(b))
            /\ \A i \in Of("rec") : T!Typed(block[i].d.ty, ToSet(block[i].d.uparams), 0)]_vars

\* What a recursor of a block that passes reduces to has the type of what was
\* reduced.
RulesPreserveTypes ==
    stage = "accepted" =>
        \A i \in Of("rec") : \A rule \in ToSet(block[i].d.rec_rules) : T!RulePreservesType(block[i].name, rule)

\* What the check declares for itself hides nothing of the file but the block,
\* and no two of its declarations have one name.
OwnNamesAreNew ==
    /\ DOMAIN temp \cap DOMAIN File \subseteq {block[i].name : i \in DOMAIN block}
    /\ stage = "elim" => Cardinality(DOMAIN temp) = Len(st.types) + NumCtors(View)

\* Every check comes to an end: nested occurrences that were met before are not
\* replaced anew.
CheckEnds == <>(stage \in {"accepted", "rejected"})
=============================================================================
