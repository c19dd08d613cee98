# nanoda in TLA+

nanoda is an external type checker for Lean 4: it reads an export file, checks
every declaration in it again, and reports whether all of them are well typed.
The program is in `src/src/*.rs`; most functions carry Verus annotations, which
are erased when it is compiled. This directory holds models of the program in
TLA+, the TLC configurations that check them on small instances, and theorems
about six of the components (the check driver, admission, the arenas, levels,
binders and an invocation) whose proofs TLAPS checks.

What can be wrong in such a program is seldom a single step. It shares caches
between thousands of calls, reuses the numbers of variables, compares terms by
comparing pointers, checks each declaration on its own against a prefix of a
file, and divides that work among threads. Each of these is right only if
something holds about all earlier steps, and those are the properties stated
here.

## 1. Inventory

Line numbers refer to `src/src/`. "Hard" names what makes the part hard to test.

| Part | State it keeps | Operations | Hard |
|---|---|---|---|
| Driver (`main.rs`) | configuration, destination, exit code | `main`, `use_config` | the order of opening, reading, checking and printing; failures that must not be forgotten |
| Configuration and report (`util.rs` 2090-2420, `pretty_printer.rs` 390-450, 970-1000) | options, list of requests, errors | `Config::try_from`, `get_pp_destination`, `pp_selected_declars` | partial failure of a report; two conversions of names to text |
| Check driver (`tc.rs` 258-340) | shared counter `task_num`, threads | `check_all_declars`, serial and parallel | interleaving, panicking threads, threads that cannot be created |
| Parser: declarations (`parser.rs` 372-445, 783-936) | `declars`, `mutual_block_sizes`, `skipped`, line number | one handler per kind of line, a pass at the end of the file | files that spread, repeat or misname parts of a mutual group |
| Parser: tables and arenas (`parser.rs` 455-782, `util.rs` 130-900) | the file's tables and a checker's own | one handler per kind of node, `alloc_*`, `read_*` | uniqueness of pointers, forward references, the bit that separates arenas |
| Environment (`env.rs`) | view of the finished file up to a cutoff | `get_declar`, `ByName`, `ByNameInclusive` | a cutoff that is off by one |
| Declaration admission (`tc.rs` 149-258, `inductive.rs` 1080-1300, 4130-4460, `quot.rs`) | none of its own | `check_declar`, `check_inductive_declar`, `check_quot` | checks that together rule out bad files are spread over four source files |
| Type checker (`tc.rs`) | `TcCache`, `eager_mode`, binder counter | `infer`, `whnf`, `def_eq` and what they call | stale caches, modes that must be restored, the order of the rules |
| Binders (`expr.rs`, `util.rs` 900-1000, 2590-2700) | `inst_cache`, `abstr_cache`, `dsubst_cache`, two counters | `inst`, `abstr`, `abstr_levels`, `subst_expr_levels`, `mk_dbj_level`, `mk_unique`, `replace_dbj_level` | caches keyed by less than what the result depends on; reused numbers |
| Universe levels (`level.rs`) | none | `leq`, `eq_antisymm`, `simplify`, `subst_level`, tests for zero | a decision procedure with a dozen ordered arms |
| Inductive types (`inductive.rs`) | `InductiveCheckState` | telescopes, positivity, elimination level, recursors, nested specialisation | comparisons by pointer, generated names, renaming back by position |
| Quotients (`quot.rs`) | none | `check_quot`, `check_eq` | rests on an `Eq` found in the file |
| Names (`name.rs`, `util.rs`) | none | `get_pfx`, `replace_pfx`, `concat_name`, `append_index_after` | generated names that collide |
| Pretty printer, debug printer | output of one call | rendering | layout only |
| Hashing, union-find, strong reduction | | | `union_find.rs` and `strong_reduce` have no caller |
| Ghost code (`*_model.rs`, `*_bridge.rs`, ...) | | | erased at compilation |

How the parts meet. `main` reads a `Config`, opens the destination of the
report, and has the parser turn the export file into an `ExportFile`: the tables
and the map of declarations, immutable from then on. `check_all_declars` hands
each declaration to `check_declar`, on one thread or several. Every check builds
a fresh arena, context and type checker that reads the file's tables and sees
the declarations up to a cutoff. A check that fails panics; the panic ends its
thread and, when that thread is joined, the run. A run that is left prints the
requested declarations and one message. There is no message passing, no
persistence and no time-out: concurrency is the shared counter alone, and
failure is a panic, an abort on a full stack, a thread that cannot be created,
or a file that cannot be opened or written.

What makes each part correct is listed with the module that models it (section
3); `PROJECT.json` has the hazards line by line.

## 2. Modules

    Verdict  <-- refined by --  CheckAll  <-- CheckAll_proofs
    ExportFile <- Admission     <-- Admission_proofs
    Store                       <-- Store_proofs
    LevelTerms <- Levels        <-- Levels_proofs
    LevelTerms <- ExprNodes <- ExprTerms
    ExprNodes <- Traversals <- Binders, CachedTerms
    Binders  <-- refined by --  Exprs;   Binders, CachedTerms <- Exprs
    Exprs                       <-- Binders_proofs
    ExprTerms <- Environment <- TypeChecker, Typing
    TypeChecker <- Quotients
    TypeChecker, Typing, Quotients <- Checks
    TypeChecker, Names <- BlockTerms <- BlockChecks <- Recursors
                          BlockTerms <- NestedBlocks
    Typing, Names <- InductiveSpec <- RecursorSpec
    Recursors, NestedBlocks, RecursorSpec <- Inductive
    Session                     <-- Session_proofs
    Recursion <.. StructuralRecursion, Store_proofs, Session_proofs, Levels_proofs, Binders_proofs
    StructuralRecursion <.. Levels_proofs, Binders_proofs

An arrow reads "is extended by", a dotted one "is instantiated by"; `MC*` modules
only give constants their values (`MCVocabularies` also restricts a file to lines
of one vocabulary, and `MCCheckAll` lets the number of threads be one as well).
`Recursion` and `StructuralRecursion` are about no part of the program: they prove
that recursive definitions have the solutions they name. `Session` uses the promise
of `Verdict` as one step. `Admission` takes from the type checker whether an expression is
well typed, as the field `sound` of a declaration. `TypeChecker` decides levels
with the operators of `LevelTerms`, the same ones that `Levels` checks on its own,
and `Inductive` makes its comparisons with the operators of `TypeChecker`. Both
handle binders with the operators of `ExprTerms`, which have no caches; that the
caches make no difference is what `CachedTerms` and `Exprs` are about.

`TypeChecker` and `Typing` have the environment as the constant `Env`. A check
that works in several environments (each stage of `Inductive` makes a larger
one; `Checks` exchanges `Eq`) takes them by an instance with a parameter,
`R(v) == INSTANCE Recursors WITH Env <- v.env, ...`.

Recursion in the modules with theorems is recursive functions: on the depth of
the unfolding in `Store`, on sequences by the folds of the community modules in
`Session`, on levels in `LevelTerms`, on expressions in `Traversals`,
`CachedTerms` and `Binders`. `RECURSIVE` operators are kept to the modules without
theorems (`ExprTerms` and what is built on it).

## 3. Correspondence with the code

### Verdict and CheckAll: the check driver

`Verdict` says what checking a file promises whatever the number of threads:
declarations are checked one at a time, in any order, at most once; the run is
accepted only when every one was checked without error and rejected only for a
reason. `CheckAll` is the code: `ChooseDriver` is the test on `num_threads`;
`SerialCheck` and `SerialReturn` the loop of the serial driver; `Spawn`,
`SpawnFails`, `StartJoining`, `Join`, `ParReturn` and `Unwound` the main thread
of the parallel one; `Fetch(t)` the `fetch_add`, `CheckDeclar(t)` the check of
the declaration that was fetched. How each check ends is the rigid variable
`outcome`, so that a run covers every assignment of results. `checked` and
`failed` are history. A panic in a worker ends that worker; main notices when it
joins it, and the scope then waits for the others. An abort (a full stack) takes
the process down at once.

Properties: no index is given out twice (`NoDeclarTwice`); acceptance means that
every declaration was checked and nobody is still at work
(`AcceptedMeansAllChecked`); a panicking worker takes no work from the others
(`OneSurvivorDrainsTheQueue`); the driver implements `Verdict`
(`ImplementsVerdict`); and the verdict is reached and is the file's
(`VerdictIsTheFiles`, liveness).

Fairness (`FairSpec`): weak fairness of the main thread and of each worker. The
operating system runs every thread that can run, `fetch_add` and `spawn` do not
block, `join` blocks only while its thread runs, and a check is taken to return,
panic or abort. Lean's rules terminate in principle; the program has no time-out,
so a check that ran for ever would hang the run, and the model does not have it.

### ExportFile and Admission: what an accepted file can be

`ExportFile` reads one line of declarations per step: `ReadAxiom` with the two
fates of an axiom that is not permitted, `ReadSingle` for definitions, theorems,
opaques and quotient primitives, `ReadInductive` for a block (types, then
constructors, then recursors, with the window recorded in
`mutual_block_sizes`). A line marked unsafe (theorems and quotient primitives have
no such mark) and a name that is taken end the run.
`EndOfFile` is the pass after the last line: requested declarations, every
constructor listed by its type, and the index of recursors by type
(`rec_names`). `Admission` adds `check_declar`: `CheckPlain`,
`CheckConstructor`, `CheckRecursor`, `CheckQuot` and `CheckInductive`, the last
with the scan of the block, the comparison of names of recursors, of
constructors, types and recursors (`check_inductive_declar`). The cutoffs
`ByName` and `BlockEnd` are functions of the position.

All of `CheckAllDeclars` is one step: `CheckAll` has shown that order and threads
do not matter. A declaration is reduced to its name, kind, the constants it
mentions, what it says about its group, and `sound`: whether the type checker
and the inductive module would accept its expressions (for a quotient primitive also
whether the file's table of names has the names its type is compared through).

Abstractions to be aware of. The types of `Quot` and its companions are compared
with expected ones and so do not count as uses. The constants in a recursor's
rules are not modelled. A nested block derives one auxiliary recursor.
`is_recursive`, the position of a constructor and the number of parameters are
folded into `sound`.

Several properties have the condition `RecursorsInBlock`: the recursors derived
for a block are exported with it. The code relies on it without checking it for
nested blocks, which is the first finding below.

Findings the runs support:

* `admission_stray`: the recursors of a nested block may be exported on a later
  line. They then match by name only, and are accepted without being compared
  with the derived ones, which the comment at `inductive.rs:4369` says they are.
* `session_both`: README.md:41 and 43 of the repository promise output to both
  destinations when both are configured; `get_pp_destination` takes the file.
* `session_quiet`: README.md:47 of the repository promises no additional output on
  success when `print_success_message` is off; `use_config` then still tells of the
  axioms it skipped (`main.rs:64`).

### Store: arenas and pointers

A pointer is an index and a bit that says whether it is into the file's tables
or the checker's own. Reading a line (`ReadNode`, `ReadConst`, `ReadUparams`)
checks the index the line states and the pointers it mentions and inserts the
node; `NewChecker` starts an empty arena; `Alloc` looks in the file's table, then
in the checker's, then appends, and panics when the index would reach the bit;
`Read` follows a pointer. Lists of levels are the exception the code makes: their
elements are not looked up when the line is read, so that they may lead nowhere.

Properties: equal nodes have equal pointers (`Unique`), an answer leads to the
node asked for (`AnswerRight`), and equal pointers are equal terms all the way
down, which are finite (`PointersAreTerms`). Every cache of the checker and the
first test of `def_eq` rest on these. Only constructors that differ in how they
use the tables are distinguished; lists have one element; strings and numbers are
data. Workers share the tables of the file, which no longer change, and share
nothing else, so that one checker at a time is enough.

### LevelTerms and Levels: universe levels

`LevelTerms` translates `level.rs`: `Simplify`, `LeqCore` with its arms in the
order of the code, `EqAntisymm`, `SubstLevel`, the four tests for zero. `Interp`
is the reference: the number a level denotes under an assignment to its
parameters. A call that would panic gives a third answer. `Levels` makes one call
and compares: `LeqExact` (with equality and the tests for zero), `SimplifyExact`, `SubstExact`.

What recurs on a level is a recursive function on `Level`, the levels no deeper
than `LevelDepth`, and the operator named `...Arm` is what the code does with one
node. `leq_core` and `simplify` call one another on levels that are not parts of
their arguments, so that they are functions of how deep the calls may still go:
`Runs[n]` holds the answers n calls deep, `Answers` makes one call more, and
`FullRun` is `Runs[CallDepth]`. A level or a call beyond the bounds has the answer
"deep", which no operation of the code gives and `LeqExact` does not allow.

`LeqExact` is two claims. `LeqSound`: a "yes" is right and nothing panics.
`LeqComplete`: a "no" is right, provided that the level on the right has an imax
only at its top or on the right of another. Without that proviso it is false of
the code: `u + 1 <= max(imax(u + 1, u), 1)` holds for every `u`, by one side of the
max at zero and by the other elsewhere, while `leq_core` tries the sides of a max
one at a time for all values at once, and says no. No document promises more (the
contract in the source states soundness alone), and a wrong "no" only refuses a
declaration.

### ExprNodes, Traversals, CachedTerms, ExprTerms, Binders and Exprs: binders

`ExprNodes` has the nodes and what the code makes of a leaf. `CachedTerms`
translates `inst`, `abstr`, `abstr_levels`, `replace_params` and
`subst_expr_levels`: what a node records about its loose variables and locals,
the test that skips a node by that record, and the caches. A traversal is its
`skip`, its `leaf` and the part of the offset that goes `by` the node into a key.
`Visits` is the order in which it is done with the sites (a node and its offset),
parts first; `Visit` looks one up in the cache and otherwise builds its node from
the answers for its parts; `Cached` does that for all of them. Below a hit the code
visits nothing, and `Visits` has those sites nevertheless: the traversal was done
with them when it made the entry, so that they are hits as well and change
nothing. `SubstExprLevels` adds `dsubst_cache`, the one cache that is never
cleared.

`Exprs` is a walk through a term as `infer`, `whnf`, `def_eq_binder_aux` and the
inductive module walk: `Open` a telescope with locals numbered by level or with
unique ones, `CloseLambda`, `CloseTelescope`, `Leave` (an early return), `Focus` on
a part, `Beta`, `Zeta`, `Unfold`, `ReplaceParams`. The caches go from one call to
the next as the fields of `TcCtx` do.

`Binders` is what that walk promises on terms alone. Its traversals have no
cache, skip nothing, and are the ones the model functions of `expr_model.rs` and
`beta_model.rs` describe (`subst_full`, `abstr_full`, `abstr_levels_full`,
`subst_expr_levels`, `shift`, `subst1`): `Traverse` goes through a term once, and
an operation is what it does with a leaf. Its actions are those of `Exprs`:
`Enter`, `Generalize`, `Discharge`, `GoBack`, `Narrow`, `Contract`,
`ContractLet`, `UnfoldConst`, `Rename`. Beside the expression at hand goes
`plain`, what it stands for: the same term with de Bruijn indices, on which each
step does what the textbook says, where reducing substitutes one argument at a
time.

`Denotes` says that the two stay together, and `InScope` that every local at hand
is one of those that are open and that the numbers nest as the code counts on.
`ImplementsBinders` says that `Exprs`, with its caches and short cuts, takes only
steps of `Binders`. All three are proved (section 5). Names and styles of binders
and literals are left out, and an expression deeper than `ExprDepth` is not
reached: a step that would make one is not taken.

`ExprTerms` has the same traversals for the modules about types, with the tests
that skip a node and without the caches, as `RECURSIVE` operators, and the
reference that `Typing` and `InductiveSpec` use.

### Environment, TypeChecker, Typing, Quotients and Checks: the type checker

`TypeChecker` translates `tc.rs`: inference with and without checking,
reduction (beta, zeta, delta, iota with K and structure eta, quotients,
projections, the fourteen operations on number literals), and definitional
equality (quick tests, proof irrelevance, lazy delta with hints, eta, structure
eta, unit types, string literals against lists of characters, the shortcut for
`Bool.true`). Its operators pass a state along: the caches, the binder counter,
the eager mode, and whether the checker has panicked. `Quotients` is `quot.rs`:
the four types the primitives have to have, built from locals as the code builds
them, and what `Quot.lift` asks of the file's `Eq`. `Typing` is the reference
and shares none of it: it has no caches, unfolds everything, has no cheap paths
and no modes; a literal is unary or a list of characters, an operation is what
the file defines it as, and the types of the quotient primitives are written
down as terms. `Checks` makes calls one after another on one checker:
`CallInfer`, `CallWhnf`, `CallDefEq`, `CallCheckDeclar`, `CallCheckQuot`.

Properties: `def_eq` says yes exactly where it should (`DefEqSound`,
`DefEqComplete`), inference succeeds exactly on typed terms with their type
(`InferExact`), `whnf` is a weak head normal form of its argument
(`WhnfExact`), a declaration or a quotient primitive passes exactly when it
should (`DeclarExact`), and whatever a call adds to a cache is true, with no
binder left open and the mode as it was (`CallsLeaveOnlyFacts`).

Left out: the bounds of u16 (on the binder counter and on the number of loose
variables: no term checked here comes near them) and the caches inside one
traversal (which are in `Exprs`). Two incompletenesses known of Lean itself are kept out of the universe
of terms: neutral functions into a unit type, and structures whose only fields
are proofs. Two more of the code's own are kept out of the declarations: no check
compares the list of universe parameters of a quotient primitive with the type
(the names have to be `u` and `v`), and the expected type of `Eq.refl` is made
with `Eq`'s parameter name, so that an `Eq.refl` with another name is refused.

### Names, BlockTerms, BlockChecks, NestedBlocks, Recursors and Inductive: inductive types

A block of inductive types is checked when the first of its types is, by one long
function with the stages that are the actions of `Inductive`. `Scan` and
`CheckInfo` look at the declarations of the file; `BeginSpecialize`,
`SpecializeType` (once per type, the copies included) and `EndSpecialize` replace
nested occurrences (`NestedBlocks`); `CheckSpec` checks a header and
`DeclareTypes` puts the types into an environment of the check's own; `CheckCtor`
checks universes and positivity of one constructor, `DeclareCtors` declares them
(`BlockChecks`); `FindElimLevel`, `MakeMotives`, `MakeMinors` and `MakeRecursors`
build the recursors (`Recursors`). Then either `CompareType`, `CompareCtor` and
`CompareRecursor` compare with the file directly, or, in a nested block,
`RestoreType`, `RestoreBaseRecursor` (in any order: the code goes through a hash
set) and `RestoreCopyRecursor` translate back first. Constructors and recursors
are declarations of their own as well (`CheckConstructor`, `CheckRecursor`), and
every type of the block runs through all of it again.

`st` is `InductiveCheckState`; `temp` is the environment extension whose
declarations hide the file's; every stage has a new checker `tc`, which keeps only
the counter of unique locals, as in the code. A step takes a view of the state,
the environments included, and returns what it makes of the state, the
declarations and the checker.

The reference, `InductiveSpec` and `RecursorSpec`, never replaces a nested
occurrence: `List Tree` is one more family of the block. It says which blocks are
well formed (headers, universes, positivity in every family), into what a block
may be eliminated, and what type and rules each family's recursor has.

Properties: a block that passes is well formed (`AcceptedIsWellFormed`) and its
recursors are the textbook's (`RecursorsAreTextbook`), whose rules preserve types
by `Typing` (`RulesPreserveTypes`); a well-formed block with its recursors passes
(`WellFormedIsAccepted`); what the check declares for itself hides nothing of the
file and no two of its names collide (`OwnNamesAreNew`); and the check comes to an
end (`CheckEnds`, liveness).

Fairness: while the check is not over it goes on. It is one thread which waits for
nothing; the formula `[]<>Stopped \/ []<><<TRUE>>_vars` is weak fairness of the
next step, with the condition under which a step is possible written out.
`MaxTypes` bounds how many types a block may grow to: specialising a type that
occurs in its own parameters (`T (T p)`) never ends in the code either, and no
such block is among those checked.

Known differences that the blocks stay clear of, since no document of the
repository says otherwise: the order and number of a constructor's universe
parameters are not compared with the type's; a header may mention an undeclared
parameter, or another type of the block; a nested block's recursors must use the
names of universe parameters that are generated for them, and the number of fields
in their rules is not compared; a container's header that is a product only after
unfolding panics. An assertion that the two sides of a rule are not spelled alike
is not modelled.

### Session: an invocation from its configuration to its exit code

`ReadConfig` has the combinations `Config::try_from` refuses, `OpenDestination`,
`OpenExportFile`, `ReadLine`, `EndOfFile` and `CheckAllDeclars` follow `main` in
order, `SelectDeclars` and `PrintNext` are `pp_selected_declars` with the
conversion of a name to text and of a text to a name, `WriteLine` the buffered
writer (a write may fail or be short, and the error of the flush on drop is
lost), and `Message` and `Finish` the last message and the exit code. The process
is sequential and every step is taken or fails; no fairness is assumed.

Texts are sequences of the segments between dots, and a segment may be empty: a
name's text does not tell where a string of its own has a dot, or whether a
component is a number or a string of digits, and leaves out blanks at the start.

Properties: exit code 0 means that the whole file was checked but for axioms that
are not permitted (`SuccessMeansChecked`); an axiom that was admitted is one that
a listed text stands for (`AdmittedAreListed`); whatever writes fail, all that is
due ends in the report or in the errors, each in order (`ReportComplete`); a
declaration written like a request is found again by the pretty printer, and one
that the parser let through is missed only if it cannot be read back
(`RequestsAreFound`); the message that there were no errors is true: its number,
its list of skipped axioms, and that all that was due has been printed
(`MessageIsTrue`).

What these leave open, since the code does it and no document says otherwise. The
list of permitted axioms is compared by text, so that an axiom whose name cannot
be read back, such as one with a dot in a component, is admitted along with one
that is written alike; `AdmittedAreListed` is about the names that can. A text
that a short write cut counts as printed: the code does not notice. When the pretty
printer has errors, the message lists these and not the skipped axioms; without
`print_success_message` nobody hears of the errors. The output file is opened
without being truncated. How a declaration is rendered is left out.

## 4. Runs

| Run | Question | Bounds, and why they are enough |
|---|---|---|
| `checkall` | the two drivers | 3 threads or one, 4 declarations, every assignment of outcomes, creation of a thread may fail. With fewer declarations than threads plus one, no worker would come back for a second index while two others hold one |
| `admission` | what can be in an accepted file | all files of up to 3 lines over one of four vocabularies: axioms and definitions; whole blocks of one or two types (one line); the same in pieces; nested blocks. A group of two types, its constructor and its recursors can be on three different lines, in any order |
| `admission_quot` | what the quotient primitives rest on | an `Eq` of every shape, before, after or without `Quot.lift`, under a configuration that rejects axioms and requires a declaration |
| `admission_stray` | a violation, see the findings | nested vocabulary |
| `levels` | level arithmetic | order and equality for a term of depth 2 against one of depth 1 over two parameters, and order for a term of depth 1 against one of depth 3 over one; tests and simplification for terms up to depth 3; substitution of up to two parameters with lists of unequal lengths. Values 0, 1, 2 and 7 for the parameters tell apart all terms of this size: between two such terms the difference in successors is below 4. `LevelDepth` = 12 and `CallDepth` = 40 are beyond what these terms reach, which `LeqExact` checks: no call of `leq` answers "deep". The runs that use `LevelTerms` for types have the same values |
| `exprs` | binders and caches | 30 terms, chosen to share parts between depths and to have dependent telescopes and redexes with too few and too many arguments; 4 steps that open or reduce. A cache entry takes one step to make and a second to be found where it does not belong, and leaving a telescope and opening another takes two, so that 4 leave room for both. `ExprDepth` = 12 leaves room for what four steps make of the starting terms |
| `checks` | the type checker | about 100 terms over an environment with every kind of declaration, every call on a new checker and one of 12 further calls on what it left behind. Operations on numbers are taken at their boundaries: below zero, by zero, a remainder of zero, overlapping bits; strings have up to two characters. Quotient primitives: each name with the four types and 13 that are one mistake away, and nine other versions of `Eq` |
| `inductive` | blocks of inductive types | 24 well-formed blocks (plain, indexed, mutual, recursive under products, in `Prop`, universe polymorphic, nested once, twice and through two containers) with the recursors they have to have, and with single mistakes in types, constructors, recursors or data; each of them is checked to its end. The largest grows to 6 types, which is `MaxTypes` |
| `session` | an invocation | all combinations of the options that the configuration looks at, and of those about output, on 15 files: names that are written alike, that cannot be read back, blank or anonymous; axioms permitted and not; files that do not parse or do not check; up to three lines |
| `session_both`, `session_quiet` | violations, see the findings | as above |
| `store` | arenas | the parser's initial nodes and two more; three allocations; room for two indices before the bit, so that the bit is reached from either side |

Deadlock is checked wherever the system has an end of its own (`Done`). It is not
in `exprs`, where the walk ends after its last step, and in `store`, where a
panic ends it. Liveness is checked in `checkall` and `inductive`; no other part
waits for anything or repeats until something is found.

Every property of a passing run has a mutant in `PROJECT.json`: a version of one
definition as a plausible bug would have it, defined in front of the right one,
under which TLC finds that property violated.

## 5. Theorems

For any values of the constants, from the assumptions named in the modules:

`CheckAll_proofs`. `TypeCorrect` (which no run repeats), `NothingLost`, `NothingTwice`,
`AcceptanceIsSound`, `SurvivorDrainsTheQueue`, `DriversImplementVerdict`. The inductive invariant `IInv`
adds to the properties what relates the program counters: which driver is
running (`DriverInv`), that results are booked under the declaration they belong
to (`OutcomeInv`), that the counter is ahead of everything handed out
(`CounterInv`), how far main's progress bounds the workers' (`MainInv`), and the
prefix checked by the serial loop (`SerialInv`). That nothing is given out twice
needs that indices at work are below the counter; that acceptance is sound needs
in addition that main has joined every worker and that a worker leaves only when
the counter is past the end; that a panic leaves nothing behind follows from the
same two facts about one worker that left. The refinement maps each step to one of `Verdict` or
to a stutter.

`Admission_proofs`. `TypeCorrect`, `WindowsHold` (the windows of blocks hold
their types and do not overlap), `UsesAreEarlier` (checking each declaration
against a prefix of the finished file amounts to building an environment in
order), `SkippedStayOut`, `RecursorsFollowTypes`, `RecursorNamesAgree`,
`DerivedRecursors`, `CtorsWithTypes`, `GroupsExportedTogether`,
`QuotOnDeclaredEq`. Here `IInv` says that positions are distinct and below the
length, where the declarations of a block lie within its window (`OriginInv`),
and what the end of the file and acceptance have established (`PhaseInv`); the
properties of an accepted file follow from it and from the comparisons of
`CheckAllDeclars`. They hold for any set of lines, so for blocks of any size and
files of any length.

`Store_proofs`. `TypeCorrect`, `NodesUnique`, `AnswersRight`, `NoLoops` (what a
stored node points to was stored before it), `PointersAreTermsHolds`,
`PointersKeepNodes`. `IInv` is the conjunction of what the parser keeps
(`FileOK`), what allocation keeps (`OwnOK`), which phase the tables are in
(`PhaseOK`), and what the last answer was (`AnswerOK`). A pointer's term is its
unfolding, a recursive function of how deep to go. `NoLoops` gives every pointer a
rank, its place in the order of storing, which is smaller for what its node
points to; by induction on the rank the unfolding is finite and pointers with the
same unfolding are the same pointer, since equal nodes are stored once. The exception in the statement is the one the code makes: a list
of levels whose elements the file has not defined. `PointersKeepNodes` is about
two states of a step: no step changes what a pointer leads to, except that a new
checker drops the tables of the one before.

`Session_proofs`. `AccountHolds`, `SuccessMeansCheckedHolds`,
`AdmittedAreListedHolds`, `ReportHolds`, `RequestsAreFoundHolds`,
`ReportCompleteHolds`, `MessageIsTrueHolds`. `IInv` says of each line that was read
that it is among the declarations or among the skipped axioms and why (`LinesInv`, which also counts
them), which stages come after the end of the file and after the check
(`StageInv`), and that the last message is the one computed from what was parsed
(`EndInv`): success alone says nothing of the lines, so the account has to be kept
from the first line on. The theorems hold for files of any length and for any
permitted axioms. The report has an invariant of its own, `PrintInv`. `PrintNext`
deals with one request at a time, so it splits the requests into those dealt with
and those left (`Progress`): of the first part, some that are declared have been
printed, and those that have not, with some that have, are in the errors, each in
order (`Reported`). Which ones is not known, since any write may fail, and a write of
the separator after the text; the witness grows by one request in each step
(`PrintNextInv`). It also keeps that nothing is printed before the selection
(`NothingYet`), that without a destination the axioms asked for are an error
(`NotAsked`), that declarations come from the file (`FromTheFile`) and that the
parser has let no unknown request pass where it must not (`Passed`). The message of a
run without errors is true because no request can then be left out. What
flattening does with one more element is proved by induction on the length.

`Levels_proofs`. `SimplifyExactHolds`, `SubstExactHolds`, `LeqSoundHolds`, for any
bounds and any values of the parameters that contain 0. Levels come in stages
(`LevelsTo`), so an induction on the stage is an induction on levels
(`LevelInduction`), and every function on levels follows the rules of its arms
(`InterpRules`, `SubstRules` and so on). `SubstMeaning` is the substitution lemma. `Sound(run)` says of
the answers n calls deep that a "yes" holds under every assignment, that nothing
panics where every imax is normal, and that simplifying keeps what a level denotes
and makes it normal; each of the three needs the others one call further down,
since `simplify` asks `leq` whether the left side of an imax is at most one, and
`leq_core` simplifies what it substitutes. `OneCallMore` makes the step: one
lemma per arm of `simplify` and of `leq_core`, the two cases of a parameter
covering every assignment (`ByCasesFacts`), and an imax pushed into its right side
keeping what it denotes (`PushFacts`). The theorems about `leq` and `simplify`
therefore do not depend on their coming to an end, which is part of `LeqComplete`.

`Binders_proofs`. `DenotesHolds`, `InScopeHolds`, for any closed starting terms,
any constant with its value and any bound on the depth. Expressions come in
stages (`ExprsTo`), as levels do. The laws of traversals are proved for any
treatment of the leaves, by induction on the expression: two that treat the leaves
alike agree (`Congruence`), and one after another is one that does both to each
leaf (`Fusion`). What the proofs need of the code's operations then follows by a
look at one leaf: instantiating with new locals and then abstracting these and the
older ones is abstracting the older ones alone (`Opening`), abstracting the inner
locals and then the outer ones is abstracting all of them (`ClosingUp`),
abstracting by level is abstracting the locals from that level on
(`ClosingByLevel`), and instantiating with several arguments at once is
substituting one by one (`PassingOne`, `PassingAll`). The invariant `IInv` has four parts. `Stands`: the
expression at hand has no loose variable, its locals are open, and abstracting
them gives `plain`. `Scoped`: the same of the type of each open local over the
locals before it; without it nothing would be known of a body once its type is
inferred from the types of its locals. `Numbered`: unique locals are outermost
and those of the type checker numbered from 0 inwards; without it, a number given
again could be that of an open local and abstracting would take one for the other.
`FramesOK`: what a telescope was entered with stood for its meaning over the locals
open then, and these are still open; `GoBack` and `Rename` return to it.
`NextKeeps` has one lemma per action. TLC has checked `IInv` on the states of the
run `exprs`.

The second half of `Binders_proofs` is about `Exprs`: `CachedImplements`,
`CachedDenotes`, `CachedInScope`, `DSubstStaysRight`, `CachedIsPlain`. The argument
goes up in four steps.

1. One traversal. What a node records is right (`LooseParts`, `FVarsUnfold`), so
   that a node that is skipped is one the plain traversal returns as it is
   (`SkippedByInst`, `SkippedByAbstr`). The sites are visited parts first
   (`VisitsInOrder`). `CachedIsPlain`: a traversal that starts from an empty cache
   returns what the plain one returns, provided that it is `Faithful`: it skips only
   what the plain traversal leaves alone, and its keys tell apart whatever the
   leaves do. The induction is on how many sites it is done with: every entry so far
   is the plain result for its key, and every site so far has one, so that the next
   one finds what it needs (`VisitKeepsRight`).
2. The traversals of the code are faithful and do to a leaf what those of `Binders`
   do: `InstIsFull`, `AbstrIsPlain` (the code finds a local by its last place in the
   list), `AbstrLevelsIsFull`, `SubstAuxIsFull`. For `subst_expr_levels` the empty
   cache is not enough, since `dsubst_cache` lasts; `DSubstRight` says that each of
   its entries is the substitution its key asks for, which later calls rely on and
   keep (`SubstIsFull`).
3. Telescopes. The code opens binders one at a time, the type of each over the
   locals before it, and closes them from the innermost out: `TelescopeIsPlain`,
   `CloseByLevelsIsPlain`, `CloseByAbstrIsPlain`.
4. Steps. Each action of `Exprs` is one of `Binders` (`OpenEnters`,
   `CloseLambdaGeneralizes`, `LeaveGoesBack`, `CloseTelescopeDischarges`,
   `ReplaceParamsRenames`, `FocusNarrows`, `BetaContracts`, `ZetaContracts`,
   `UnfoldUnfolds`, together `StepsImplement`) in a state where `IInv` and
   `DSubstRight` hold. `IInv` is needed: that closing by levels and closing by a list
   are the same traversal depends on how the open locals are numbered. The
   conjunction `CachedInv` is inductive, `ImplementsBinders` follows, and with it what
   was proved of `Binders` holds of `Exprs`.

`Recursion`, `StructuralRecursion`. tlapm 1.4.5 cannot instantiate the library's
induction theorems, which take an operator as a parameter. These two modules take
the operator as a CONSTANT instead: an `INSTANCE` with the operator in its place
has the theorem for it. `Recursion` proves that a recursion on the natural numbers
has a solution (`HasSolution`, from agreeing solutions on initial segments), and
`StructuralRecursion` that one on data in stages has (`HasFold`). These are facts
about recursion, not about the program; the proofs about `Store`, `Session`, `Levels`
and `Binders` unfold recursive functions by them.

Only model-checked, and why:

* `VerdictIsTheFiles`, `CheckEnds`: liveness under fairness is out of the prover's
  reach.
* `LeqComplete`, the other half of `LeqExact`. It says that a call comes to an end and
  that a "no" is right. The first needs a measure that decreases from a call of
  `leq_core` to those it makes, although a substitution and `simplify` lie between
  them; the second needs, for each arm that says no, an assignment at which the
  order fails. `LeqSound`, the half that the acceptance of a file rests on, is proved.
* `DefEqSound`, `DefEqComplete`, `InferExact`, `WhnfExact`, `DeclarExact`,
  `RulesPreserveTypes`, `OwnNamesAreNew` and the other properties of `Checks` and
  `Inductive`. Their operators call one another as `infer`, `whnf` and `def_eq` do and
  are `RECURSIVE`; tlapm has no arithmetic in modules that reach one. As recursive
  functions they would not help: what they compute is defined by no decreasing
  measure (that `whnf` of a well-typed term ends is the normalisation of the
  calculus), and that reduction and conversion keep types is its metatheory, far
  beyond induction on expressions. What these modules share with proved ones is how
  they handle levels (`Levels_proofs`) and binders (`Binders_proofs`).

## 6. Not modelled

* Rendering of declarations: layout, read by people, on which no check depends.
* The bounds of u16 on binders and loose variables, at which the checker panics.
* Hash functions: tables are sets in `Store`.
* `union_find.rs` and `strong_reduce`, which have no caller; tests and scripts;
  ghost code.

## 7. Plan

1. Done: the check driver and its abstract specification, the parser and
   admission, levels, binders, the type checker with literals and quotients,
   inductive types with nesting, an invocation, the arenas; proofs for the check
   driver, admission, the arenas, an invocation with its report, levels, and what
   the walk under binders promises (`Binders`).
2. Done: `CachedTerms`, the traversals of the code with recursive functions on the
   terms up to a depth, and the theorem that `Exprs` implements `Binders`.
3. Open: a measure for `leq_core`, from which the first part of `LeqComplete` would
   follow; one set of traversals for `CachedTerms` and `ExprTerms`, so that the
   modules about types use the operators the theorems are about.
