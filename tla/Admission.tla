----------------------------- MODULE Admission ------------------------------
(***************************************************************************)
(* What it takes for an export file to be accepted: ExportFile::           *)
(* check_declar (src/src/tc.rs) and check_inductive_declar                 *)
(* (src/src/inductive.rs) on every declaration of the parsed file.  Each   *)
(* looks at the one immutable map of declarations through an Env           *)
(* (src/src/env.rs), which hides the positions from its cutoff on.  No     *)
(* check builds on another's result, so whether an accepted file is a      *)
(* sequence of legal additions to an environment is a global property of   *)
(* these local checks.                                                     *)
(*                                                                         *)
(* The order of the checks and the threads they run on are CheckAll's; its *)
(* verdict is that all of them return, which is one step here.             *)
(***************************************************************************)
EXTENDS ExportFile

CONSTANTS
    RecName,    \* the name I.rec of the recursor of each type I
    AuxRecName, \* I.rec_1: a nested block's recursor for its container type,
                \* named after the block's first type
    Quots,      \* the names Quot, Quot.mk, Quot.lift and Quot.ind
    Lift, Eq, EqRefl

ASSUME RecNameAssumption ==
    /\ RecName \in [TypeNames -> Names]
    /\ AuxRecName \in [TypeNames -> Names]
    /\ \A m, n \in TypeNames : /\ RecName[m] = RecName[n] => m = n
                              /\ RecName[m] # AuxRecName[n]
    /\ Lift \in Quots

-----------------------------------------------------------------------------
(* The environment.                                                        *)

\* Mutant of ByName: the declaration sees itself.
ByNameInclusive(n) == index[n] + 1

\* EnvLimit::ByName: everything before n.
ByName(n) == index[n]

\* EnvLimit::ByIndex of the end of n's block: everything up to and including
\* the block's own constructors and recursors.
BlockEnd(n) == mutual_block_sizes[n].start + mutual_block_sizes[n].size

\* Env::get_old_declar
Visible(n, cutoff) == n \in Declared /\ index[n] < cutoff

AllVisible(ns, cutoff) == \A n \in ns : Visible(n, cutoff)

IsA(n, kind) == n \in Declared /\ declars[n].kind = kind

-----------------------------------------------------------------------------
(* check_declar, one operator per arm.  Inferring the type of a constant   *)
(* panics when the environment does not have it.                           *)

CheckPlain(n) == declars[n].sound /\ AllVisible(declars[n].uses, ByName(n))

CheckConstructor(n) ==
    /\ declars[n].sound
    /\ AllVisible(declars[n].uses, ByName(n))
    /\ declars[n].ind \in Declared

\* Mutant of CheckRecursor: only the first of its types is looked at, as in
\* the version VERIFICATION.md describes in section 2.
CheckRecursorFirstOnly(n) ==
    LET all == declars[n].all IN
    /\ AllVisible(declars[n].uses, ByName(n))
    /\ all # <<>> /\ IsA(all[1], "ind")

\* The rules of the recursor are not looked at here.
CheckRecursor(n) ==
    LET all == declars[n].all IN
    /\ AllVisible(declars[n].uses, ByName(n))
    /\ all # <<>> /\ IsA(all[1], "ind")
    /\ \A i \in DOMAIN all : all[i] \in Declared /\ index[all[i]] < index[n]

\* Mutant of CheckQuot: check_eq leaves the constructors of Eq alone.
CheckQuotAnyCtors(n) ==
    /\ n \in Quots
    /\ declars[n].sound
    /\ n = Lift => IsA(Eq, "ind") /\ Visible(Eq, ByName(n))

\* check_quot compares the type with the one it expects and infers nothing.  To
\* be "sound" includes that the names Quot and Quot.mk, which the expected types
\* are made from, are in the file's table of names (name_cache's unwrap).
\* check_eq, before Quot.lift, looks at Eq and its constructor.
CheckQuot(n) ==
    /\ n \in Quots
    /\ declars[n].sound
    /\ n = Lift => /\ IsA(Eq, "ind") /\ Visible(Eq, ByName(n))
                   /\ IsA(EqRefl, "ctor") /\ Visible(EqRefl, ByName(n))
                   /\ declars[Eq].ctors = {EqRefl}

-----------------------------------------------------------------------------
(* check_inductive_declar.                                                 *)

Block(n) == Elems(declars[n].all)

\* The checks on the whole map: is_recursive and the search for _nested names.
ScanBlock(n) ==
    /\ \A m \in Block(n) : IsA(m, "ind")
    /\ \A c \in declars[n].ctors : IsA(c, "ctor")

\* collect_unmodified_mutuals
CollectMutuals(n) ==
    /\ declars[n].all # <<>>
    /\ \A m \in Block(n) :
          /\ IsA(m, "ind") /\ Visible(m, BlockEnd(n))
          /\ \A c \in declars[m].ctors : IsA(c, "ctor") /\ Visible(c, BlockEnd(n))

\* check_inductive_specs and check_ctor: a constructor ends in its own type.
CheckSpecs(n) ==
    \A m \in Block(n) :
        /\ declars[m].sound
        /\ \A c \in declars[m].ctors : declars[c].sound /\ m \in declars[c].uses

\* st.is_nested(), found out by specialize_nested
Nests(n) == \E m \in Block(n) : \E c \in declars[m].ctors : declars[c].nested

\* The names of the recursors mk_recursors derives, restored to names outside
\* the check.
DerivedRecs(n) ==
    {RecName[m] : m \in Block(n)}
        \cup (IF Nests(n) THEN {AuxRecName[declars[n].all[1]]} ELSE {})

\* Mutant of RecursorNamesMatch: recursors the file has on top pass.
RecursorNamesContained(n) ==
    n \in DOMAIN rec_names /\ DerivedRecs(n) \subseteq rec_names[n]

\* ck_recursor_names_simple
RecursorNamesMatch(n) == n \in DOMAIN rec_names /\ rec_names[n] = DerivedRecs(n)

\* InductiveData::aux_data_ck, on every type of the block
TypesMatch(n) ==
    \A m \in Block(n) :
        /\ declars[m].nested = Nests(n)
        /\ IF Nests(n) THEN Block(m) \subseteq Block(n) ELSE Block(m) = Block(n)

\* ConstructorData::aux_data_ck
CtorsMatch(n) == \A m \in Block(n) : \A c \in declars[m].ctors : declars[c].ind = m

\* Mutant of IsDerived: aux_data_ck does not compare all_inductives.
IsDerivedIgnoringTypes(r, n) == declars[r].sound

\* Mutant of IsDerived: the types and rules are not compared.
IsDerivedByData(r, n) == Block(r) = Block(n)

\* The comparison of an exported recursor with the derived one.
IsDerived(r, n) == Block(r) = Block(n) /\ declars[r].sound

\* assert_nonnested_recursors_def_eq; for a nested block
\* check_restored_recursor1, which passes over what it cannot see.
RecursorsMatch(n) ==
    \A r \in DerivedRecs(n) :
        IF IsA(r, "rec") /\ Visible(r, BlockEnd(n)) THEN IsDerived(r, n) ELSE Nests(n)

CheckInductive(n) ==
    /\ ScanBlock(n)
    /\ declars[n].sound
    /\ AllVisible(declars[n].uses, BlockEnd(n))
    /\ CollectMutuals(n)
    /\ CheckSpecs(n)
    /\ RecursorNamesMatch(n)
    /\ TypesMatch(n)
    /\ CtorsMatch(n)
    /\ RecursorsMatch(n)

CheckDeclar(n) ==
    CASE declars[n].kind \in ValueKinds \cup {"axiom"} -> CheckPlain(n)
      [] declars[n].kind = "quot" -> CheckQuot(n)
      [] declars[n].kind = "ctor" -> CheckConstructor(n)
      [] declars[n].kind = "rec" -> CheckRecursor(n)
      [] declars[n].kind = "ind" -> CheckInductive(n)

-----------------------------------------------------------------------------
CheckAllDeclars ==
    /\ phase = "parsed"
    /\ phase' = IF \A n \in Declared : CheckDeclar(n) THEN "accepted" ELSE "rejected"
    /\ UNCHANGED <<fileVars, rec_names>>

Done == phase \in {"accepted", "rejected"} /\ UNCHANGED vars

Next == (\E l \in Lines : ReadLine(l)) \/ EndOfFile \/ CheckAllDeclars \/ Done

Spec == Init /\ [][Next]_vars
-----------------------------------------------------------------------------
(* Properties.                                                             *)

TypeOK ==
    /\ phase \in Phases
    /\ line_num \in 0 .. MaxLines
    /\ len \in Nat
    /\ DOMAIN index = Declared
    /\ \A n \in Declared :
          declars[n] \in Declar /\ declars[n].name = n /\ index[n] \in 0 .. len - 1
    /\ DOMAIN mutual_block_sizes = {n \in Declared : declars[n].kind = "ind"}
    /\ \A n \in DOMAIN mutual_block_sizes :
          mutual_block_sizes[n] \in [start : Nat, size : Nat]
    /\ skipped \subseteq Names
    /\ \A n \in DOMAIN rec_names : n \in Names /\ rec_names[n] \subseteq Declared

Accepted == phase = "accepted"

\* The window recorded for an inductive type holds the type; the windows of two
\* types are the same or have no position in common.
BlocksAreWindows ==
    \A n \in DOMAIN mutual_block_sizes :
        LET w == mutual_block_sizes[n] IN
        /\ w.start <= index[n] /\ index[n] < w.start + w.size /\ w.start + w.size <= len
        /\ \A m \in DOMAIN mutual_block_sizes :
              LET v == mutual_block_sizes[m] IN
              w = v \/ w.start + w.size <= v.start \/ v.start + v.size <= w.start

OfKind(kind) == {n \in Declared : declars[n].kind = kind}

\* The recursors derived for the block of n are exported with the block, where
\* the check of n sees them.
RecursorsInBlock(n) == \A r \in DerivedRecs(n) : Visible(r, BlockEnd(n))

\* Checking every declaration on its own against a prefix of the file comes to
\* extending an environment step by step: each declaration of an accepted file
\* rests on earlier ones, the type of an inductive type at most on its own
\* block.  The types of the quotient primitives are compared with the expected
\* ones and not inferred.
EarlierUses ==
    Accepted =>
        \A n \in Declared \ OfKind("quot") : \A m \in declars[n].uses :
            /\ m \in Declared
            /\ \/ index[m] < index[n]
               \/ n \in OfKind("ind") /\ index[m] < BlockEnd(n)

\* "the unpermitted axiom will simply be ignored ... and will cause a hard error
\* only if another exported declaration actually tries to use it" (README.md,
\* unpermitted_axiom_hard_error).  A name that was skipped is in use only where
\* the file declares it a second time, as something else.
SkippedAxiomsStayOut ==
    Accepted =>
        /\ \A n \in OfKind("axiom") : (PermitAll \/ n \in Permitted) /\ n \notin skipped
        /\ \A n \in Declared \ OfKind("quot") : declars[n].uses \cap skipped \subseteq Declared
        /\ HardError => skipped = {}

\* No orphan recursors: the types a recursor names are declared before it and
\* the first is an inductive type.  All of them are, wherever the check of the
\* first one gets to see the recursor.
RecursorsFollowTheirTypes ==
    Accepted =>
        \A r \in OfKind("rec") :
            LET all == declars[r].all IN
            /\ all # <<>> /\ IsA(all[1], "ind")
            /\ \A m \in Block(r) : m \in Declared /\ index[m] < index[r]
            /\ RecursorsInBlock(all[1]) => \A m \in Block(r) : IsA(m, "ind")

\* Every recursor carries a name derived from each inductive type it names, and
\* a type's derived recursors are all in the file.
RecursorNamesComplete ==
    Accepted =>
        \A n \in OfKind("ind") :
            {r \in OfKind("rec") : n \in Block(r)} = DerivedRecs(n)

\* A recursor exported with its block is the one derived from the block, and
\* unless the block is nested there is no other place for it.
RecursorsAreDerived ==
    Accepted =>
        \A n \in OfKind("ind") : \A r \in DerivedRecs(n) :
            /\ Visible(r, BlockEnd(n)) => Block(r) = Block(n) /\ declars[r].sound
            /\ ~Nests(n) => Visible(r, BlockEnd(n))

\* A constructor comes after its inductive type and in the same block, and is
\* one the check of the type has seen.
CtorsComeWithTheirType ==
    Accepted =>
        \A c \in OfKind("ctor") :
            LET n == declars[c].ind IN
            /\ IsA(n, "ind") /\ c \in declars[n].ctors
            /\ RecursorsInBlock(n) =>
                  index[n] < index[c] /\ index[c] < BlockEnd(n) /\ declars[c].sound

\* The types of a mutual group agree on who is in the group, and were exported
\* as one block.
GroupsAreBlocks ==
    Accepted =>
        \A n \in OfKind("ind") :
            RecursorsInBlock(n) =>
                /\ n \in Block(n)
                /\ \A m \in Block(n) :
                      /\ Block(m) = Block(n)
                      /\ mutual_block_sizes[m] = mutual_block_sizes[n]

\* Quot.lift rests on Eq being the inductive type whose one constructor is
\* Eq.refl; check_eq looks at the list of constructors in Eq, the rest of the
\* file at the type each constructor names.
QuotRestsOnEq ==
    Accepted /\ Lift \in OfKind("quot") =>
        /\ IsA(Eq, "ind") /\ index[Eq] < index[Lift]
        /\ RecursorsInBlock(Eq) =>
              /\ {c \in OfKind("ctor") : declars[c].ind = Eq} = {EqRefl}
              /\ index[Eq] < index[EqRefl] /\ index[EqRefl] < index[Lift]

\* "the restored recursor is checked against the one the export file declares,
\* if any" (check_restored_recursor1): a recursor the file declares is the
\* derived one.
DeclaredRecursorsAreChecked ==
    Accepted =>
        \A n \in OfKind("ind") : \A r \in DerivedRecs(n) : IsA(r, "rec") => declars[r].sound
=============================================================================
