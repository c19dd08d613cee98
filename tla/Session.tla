------------------------------ MODULE Session -------------------------------
(***************************************************************************)
(* One invocation of nanoda_bin, from the configuration file to the exit   *)
(* code: main and use_config (src/src/main.rs), Config and PpDestination   *)
(* (src/src/util.rs), parse_export_file (src/src/parser.rs) and            *)
(* pp_selected_declars (src/src/pretty_printer.rs).                        *)
(*                                                                         *)
(* A name is a sequence of components, a string or a number each.  What is *)
(* written for a component is a sequence of segments, the pieces between   *)
(* dots: more than one when the string itself contains a dot.  A text, as  *)
(* it stands in the configuration, is a sequence of segments.              *)
(*                                                                         *)
(* The lines of an export file are reduced to the declarations they add    *)
(* (ExportFile.tla has the real ones), and checking them to its verdict    *)
(* (Verdict.tla).                                                          *)
(***************************************************************************)
EXTENDS Sequences, Naturals, SequencesExt

CONSTANTS
    Segments,   \* pieces of text without a dot
    Empty,      \* the one that has no characters
    Numerals,   \* those that parse as a u64
    Canonical,  \* how that number is written
    Configs,    \* the configurations; the fields are those of Config
    Worlds      \* what the files hold and whether they can be opened

ASSUME NumeralsAssumption ==
    /\ Empty \in Segments
    /\ Numerals \subseteq Segments \ {Empty}
    /\ Canonical \in [Numerals -> Numerals]
    /\ \A s \in Numerals : Canonical[Canonical[s]] = Canonical[s]

\* A text without characters is one segment, as for str::split.
Texts == Seq(Segments) \ {<<>>}

Component == [num : BOOLEAN, text : Texts]

Names == Seq(Component)

\* An Option is a set of at most one element.
Config == [export_file_path : BOOLEAN, use_stdin : BOOLEAN,
           permitted_axioms : SUBSET SUBSET Texts, unsafe_permit_all_axioms : BOOLEAN,
           unpermitted_axiom_hard_error : BOOLEAN,
           pp_declars : SUBSET Seq(Texts), unknown_pp_declar_hard_error : BOOLEAN,
           pp_output_path : BOOLEAN, pp_to_stdout : BOOLEAN,
           print_axioms : BOOLEAN, print_success_message : BOOLEAN]

\* A line adds an axiom or another declaration, or does not parse; the check
\* of a declaration returns or panics.
Line == [name : Names, axiom : BOOLEAN, parses : BOOLEAN, checks : BOOLEAN]

\* The configuration file is missing, is not a configuration, or is one; the
\* output file and the export file can be opened or cannot; a checker thread
\* can be had or cannot.
World == [config : {"missing", "malformed", "ok"}, output : BOOLEAN,
          export : BOOLEAN, threads : BOOLEAN, lines : Seq(Line)]

ASSUME InputsAssumption ==
    /\ \A c \in Configs : c \in Config
    /\ \A c \in Configs : (\A p, q \in c.permitted_axioms : p = q) /\ (\A p, q \in c.pp_declars : p = q)
    /\ \A w \in Worlds : w \in World
    /\ \A w \in Worlds : \A i \in DOMAIN w.lines : \A j \in DOMAIN w.lines[i].name :
          w.lines[i].name[j].num => \E s \in Numerals : w.lines[i].name[j].text = <<Canonical[s]>>

VARIABLES
    config,       \* the configuration; rigid
    world,        \* rigid
    stage,        \* the statement of use_config that is next
    destination,  \* what pp_destination writes to: "file", "stdout" or nothing
    line_num,     \* lines of the export file read
    declars,      \* the declarations, in order
    skipped,      \* axioms left out
    requests,     \* what pp_selected_declars has still to print
    buffer,       \* the destination's BufWriter
    output,       \* what reached the file or the standard output
    errs,         \* the pretty printer's errors
    message,      \* what main prints last
    exit          \* "none" while running, "ok", "error", "panic" or "declined", code 2

rigid == <<config, world>>
parsed == <<line_num, declars, skipped>>
printing == <<requests, buffer, output, errs>>
vars == <<rigid, stage, destination, parsed, printing, message, exit>>

Stages == {"config", "destination", "export", "lines", "check", "select", "print", "message", "over"}

Init ==
    /\ config \in Configs
    /\ world \in Worlds
    /\ stage = "config"
    /\ destination = {}
    /\ line_num = 0
    /\ declars = <<>>
    /\ skipped = <<>>
    /\ requests = <<>>
    /\ buffer = <<>>
    /\ output = <<>>
    /\ errs = <<>>
    /\ message = [kind |-> "none"]
    /\ exit = "none"

-----------------------------------------------------------------------------
(* Names and texts.                                                        *)

\* Parser::name_to_string writes a dot only after a prefix that is not empty:
\* components without characters leave no trace at the start of a name.
NameToString(n) ==
    LET blank == {i \in DOMAIN n : \A j \in 1 .. i : n[j].text = <<Empty>>}
    IN IF blank = DOMAIN n THEN <<Empty>>
       ELSE FlattenSeq([i \in DOMAIN n |-> IF i \in blank THEN <<>> ELSE n[i].text])

\* TcCtx::name_from_str splits at every dot; a segment that parses as a
\* number becomes one.
ComponentOf(s) == IF s \in Numerals THEN [num |-> TRUE, text |-> <<Canonical[s]>>] ELSE [num |-> FALSE, text |-> <<s>>]

\* Mutant of NameFromStr: every segment is a string.
NameFromStrings(t) == [i \in DOMAIN t |-> [num |-> FALSE, text |-> <<t[i]>>]]

NameFromStr(t) == [i \in DOMAIN t |-> ComponentOf(t[i])]

Elems(s) == {s[i] : i \in DOMAIN s}

\* A filter: the elements of s at these places, in order.
At(s, places) == FlattenSeq([i \in DOMAIN s |-> IF i \in places THEN <<s[i]>> ELSE <<>>])

DeclaredNames == {d.name : d \in Elems(declars)}

DeclaredTexts == {NameToString(n) : n \in DeclaredNames}

-----------------------------------------------------------------------------
(* Ending.  An Err of use_config is printed with a hint and is exit code 1; *)
(* a panic ends the checker thread, and main panics when it joins it.       *)
End(how) == stage' = "over" /\ exit' = how

Fail(how) == End(how) /\ UNCHANGED <<rigid, destination, parsed, printing, message>>

Continue(next) == stage' = next /\ UNCHANGED <<rigid, printing, message, exit>>

\* Config::try_from.  It does not matter how many axioms permitted_axioms
\* lists: an empty list is refused next to unsafe_permit_all_axioms too.
Consistent(c) ==
    /\ c.export_file_path # c.use_stdin
    /\ c.unsafe_permit_all_axioms => ~c.unpermitted_axiom_hard_error /\ c.permitted_axioms = {}

ReadConfig ==
    /\ stage = "config"
    /\ \/ /\ world.config = "ok" /\ Consistent(config)
          /\ Continue("destination")
          /\ UNCHANGED <<destination, parsed>>
       \/ world.config = "missing" /\ Fail("error")
       \/ world.config = "malformed" /\ Fail("panic")
       \/ world.config = "ok" /\ ~Consistent(config) /\ Fail("error")

\* get_pp_destination, before any work is done: pp_to_stdout is not looked at
\* when there is a path.
OpenDestination ==
    /\ stage = "destination"
    /\ \/ /\ config.pp_output_path => world.output
          /\ destination' = CASE config.pp_output_path -> {"file"}
                              [] config.pp_to_stdout /\ ~config.pp_output_path -> {"stdout"}
                              [] OTHER -> {}
          /\ Continue("export")
          /\ UNCHANGED parsed
       \/ config.pp_output_path /\ ~world.output /\ Fail("error")

OpenExportFile ==
    /\ stage = "export"
    /\ \/ /\ config.export_file_path => world.export
          /\ Continue("lines")
          /\ UNCHANGED <<destination, parsed>>
       \/ config.export_file_path /\ ~world.export /\ Fail("error")

\* Mutant of AxiomPermitted: a listed axiom permits those below it.
AxiomPermittedBelow(n) ==
    config.unsafe_permit_all_axioms
    \/ \E list \in config.permitted_axioms : \E t \in list : IsPrefix(t, NameToString(n))

\* Parser::axiom_permitted compares texts.
AxiomPermitted(n) ==
    config.unsafe_permit_all_axioms \/ \E list \in config.permitted_axioms : NameToString(n) \in list

\* Parser::go1 for one declaration.  What does not parse is an error of the
\* JSON, a panic, or a back-reference that BackRef::assert_in declines.
ReadLine ==
    /\ stage = "lines" /\ line_num < Len(world.lines)
    /\ LET l == world.lines[line_num + 1]
           wanted == l.axiom => AxiomPermitted(l.name)
       IN \/ /\ l.parses /\ wanted /\ l.name \notin DeclaredNames
             /\ declars' = Append(declars, l)
             /\ line_num' = line_num + 1
             /\ Continue("lines")
             /\ UNCHANGED <<destination, skipped>>
          \/ /\ l.parses /\ ~wanted /\ ~config.unpermitted_axiom_hard_error
             /\ skipped' = Append(skipped, NameToString(l.name))
             /\ line_num' = line_num + 1
             /\ Continue("lines")
             /\ UNCHANGED <<destination, declars>>
          \/ ~l.parses /\ \E how \in {"error", "panic", "declined"} : Fail(how)
          \/ l.parses /\ wanted /\ l.name \in DeclaredNames /\ Fail("panic")
          \/ l.parses /\ ~wanted /\ config.unpermitted_axiom_hard_error /\ Fail("error")

\* What the user listed and the file does not declare, by the text.
UnknownRequests == {t \in UNION {Elems(p) : p \in config.pp_declars} : t \notin DeclaredTexts}

EndOfFile ==
    /\ stage = "lines" /\ line_num = Len(world.lines)
    /\ \/ /\ config.unknown_pp_declar_hard_error => UnknownRequests = {}
          /\ Continue("check")
          /\ UNCHANGED <<destination, parsed>>
       \/ config.unknown_pp_declar_hard_error /\ UnknownRequests # {} /\ Fail("error")

\* Mutant of CheckAllDeclars: axioms are not checked.
CheckAllDeclarsButAxioms ==
    /\ stage = "check"
    /\ \/ /\ \A d \in Elems(declars) : d.checks \/ d.axiom
          /\ Continue("select")
          /\ UNCHANGED <<destination, parsed>>
       \/ (\E d \in Elems(declars) : ~d.checks) /\ Fail("panic")

\* check_all_declars returns only if every check does, and panics otherwise.
CheckAllDeclars ==
    /\ stage = "check"
    /\ \/ /\ \A d \in Elems(declars) : d.checks
          /\ Continue("select")
          /\ UNCHANGED <<destination, parsed>>
       \/ (~world.threads \/ \E d \in Elems(declars) : ~d.checks) /\ Fail("panic")

-----------------------------------------------------------------------------
(* pp_selected_declars.                                                    *)

Axioms == At(declars, {i \in DOMAIN declars : declars[i].axiom})

\* The requests of the configuration, in order.
ListedRequests ==
    IF config.pp_declars = {} THEN <<>>
    ELSE LET p == CHOOSE q \in config.pp_declars : TRUE
         IN [i \in DOMAIN p |-> [text |-> p[i], name |-> NameFromStr(p[i])]]

\* The axioms, in order; one that is also listed comes twice.
AxiomRequests == [i \in DOMAIN Axioms |-> [text |-> NameToString(Axioms[i].name), name |-> Axioms[i].name]]

\* Without a destination only the axioms are missed: no error says that the
\* listed declarations are not printed.
SelectDeclars ==
    /\ stage = "select"
    /\ IF destination # {}
          THEN /\ requests' = ListedRequests \o (IF config.print_axioms THEN AxiomRequests ELSE <<>>)
               /\ stage' = "print"
               /\ UNCHANGED errs
          ELSE /\ errs' = IF config.print_axioms THEN Append(errs, [kind |-> "axioms", text |-> <<Empty>>]) ELSE errs
               /\ stage' = "message"
               /\ UNCHANGED requests
    /\ UNCHANGED <<rigid, destination, parsed, buffer, output, message, exit>>

Whole(n) == [name |-> n, whole |-> TRUE]
Cut(n) == [name |-> n, whole |-> FALSE]

\* write_line, a write of the text and one of the separator.  A write that
\* does not fit flushes the buffer first, and one that is larger than the
\* buffer goes out directly, once, and possibly in part.  When a flush
\* fails some of the buffer may be out; the text may be in the buffer if it
\* is the separator that did not fit.
WriteLine(n) ==
    \/ /\ buffer' = Append(buffer, Whole(n))
       /\ UNCHANGED <<output, errs>>
    \/ /\ output' = output \o buffer
       /\ buffer' = <<Whole(n)>>
       /\ UNCHANGED errs
    \/ \E e \in {Whole(n), Cut(n)} :
          /\ output' = output \o Append(buffer, e)
          /\ buffer' = <<>>
          /\ UNCHANGED errs
    \/ \E k \in 0 .. Len(buffer), last \in {<<>>, <<Whole(n)>>} :
          /\ output' = output \o SubSeq(buffer, 1, k)
          /\ buffer' = SubSeq(buffer, k + 1, Len(buffer)) \o last
          /\ errs' = Append(errs, [kind |-> "write", text |-> Head(requests).text])

\* Mutant of PrintNext: the first write that fails ends the report.
PrintNextUnlessFailed ==
    /\ stage = "print" /\ requests # <<>>
    /\ LET r == Head(requests) IN
         \/ r.name \in DeclaredNames /\ WriteLine(r.name)
         \/ /\ r.name \notin DeclaredNames
            /\ errs' = Append(errs, [kind |-> "not_found", text |-> r.text])
            /\ UNCHANGED <<buffer, output>>
    /\ requests' = IF Head(requests).name \in DeclaredNames /\ errs' # errs THEN <<>> ELSE Tail(requests)
    /\ UNCHANGED <<rigid, stage, destination, parsed, message, exit>>

PrintNext ==
    /\ stage = "print" /\ requests # <<>>
    /\ LET r == Head(requests) IN
         \/ r.name \in DeclaredNames /\ WriteLine(r.name)
         \/ /\ r.name \notin DeclaredNames
            /\ errs' = Append(errs, [kind |-> "not_found", text |-> r.text])
            /\ UNCHANGED <<buffer, output>>
    /\ requests' = Tail(requests)
    /\ UNCHANGED <<rigid, stage, destination, parsed, message, exit>>

EndOfRequests ==
    /\ stage = "print" /\ requests = <<>>
    /\ stage' = "message"
    /\ UNCHANGED <<rigid, destination, parsed, printing, message, exit>>

-----------------------------------------------------------------------------
(* The end of use_config: the message is made, the destination dropped.    *)

\* Mutant of Message: the pretty printer's errors are not looked at.
MessageRegardless ==
    CASE config.print_success_message ->
            [kind |-> "checked", number |-> Len(declars), skipped |-> skipped]
      [] ~config.print_success_message /\ skipped # <<>> ->
            [kind |-> "skipped", skipped |-> skipped]
      [] OTHER -> [kind |-> "none"]

\* Without print_success_message the pretty printer's errors are dropped;
\* with it and with such errors, the skipped axioms are.
Message ==
    CASE config.print_success_message /\ errs = <<>> ->
            [kind |-> "checked", number |-> Len(declars), skipped |-> skipped]
      [] config.print_success_message /\ errs # <<>> ->
            [kind |-> "pp_errors", number |-> Len(declars), errs |-> errs]
      [] ~config.print_success_message /\ skipped # <<>> ->
            [kind |-> "skipped", skipped |-> skipped]
      [] OTHER -> [kind |-> "none"]

\* Dropping the BufWriter flushes it and ignores an error of the flush.
Finish ==
    /\ stage = "message"
    /\ \E k \in 0 .. Len(buffer) : /\ output' = output \o SubSeq(buffer, 1, k)
                                   /\ buffer' = SubSeq(buffer, k + 1, Len(buffer))
    /\ message' = Message
    /\ End("ok")
    /\ UNCHANGED <<rigid, destination, parsed, requests, errs>>

Done == stage = "over" /\ UNCHANGED vars

Next ==
    \/ ReadConfig \/ OpenDestination \/ OpenExportFile \/ ReadLine \/ EndOfFile
    \/ CheckAllDeclars \/ SelectDeclars \/ PrintNext \/ EndOfRequests \/ Finish \/ Done

Spec == Init /\ [][Next]_vars

-----------------------------------------------------------------------------
(* Properties.                                                             *)

Succeeded == exit = "ok"

\* Exit code 0 means that the whole file was read, that every declaration of
\* it was checked without a panic, and that what was left out is an axiom that
\* the configuration does not permit.
SuccessMeansChecked ==
    Succeeded =>
        \A i \in DOMAIN world.lines :
            LET l == world.lines[i] IN
            /\ l.parses
            /\ \/ l \in Elems(declars) /\ l.checks /\ (l.axiom => AxiomPermitted(l.name))
               \/ l.axiom /\ ~AxiomPermitted(l.name) /\ NameToString(l.name) \in Elems(skipped)

\* The axioms of these lines that are permitted, or are not, in order.
AxiomsOf(lines, permitted) ==
    At(lines, {i \in DOMAIN lines : lines[i].axiom /\ (permitted <=> AxiomPermitted(lines[i].name))})

NamesOf(s) == [i \in DOMAIN s |-> s[i].name]
WrittenNames(s) == [i \in DOMAIN s |-> NameToString(s[i].name)]

\* What the configuration asks for: what it lists and, with print_axioms, every
\* permitted axiom of the file.
Due ==
    LET axioms == IF config.print_axioms THEN AxiomsOf(world.lines, TRUE) ELSE <<>>
    IN ListedRequests \o [i \in DOMAIN axioms |-> [text |-> NameToString(axioms[i].name), name |-> axioms[i].name]]

ErrorsOf(s) ==
    [i \in DOMAIN s |-> [kind |-> IF s[i].name \in DeclaredNames THEN "write" ELSE "not_found", text |-> s[i].text]]

\* A name that can be read back from the text it is written as: no string in
\* it has a dot or is digits, and the first one is not blank.
Plain(n) ==
    /\ n # <<>> /\ n[1].text # <<Empty>>
    /\ \A i \in DOMAIN n : n[i].num \/ (Len(n[i].text) = 1 /\ n[i].text[1] \notin Numerals)

\* An axiom that was admitted is one that the configuration names: the name
\* that some listed text stands for is its name.  The code compares texts, and
\* the claim is for the names that can be read back from theirs; another axiom
\* is admitted along with one that is written alike.
AdmittedAreListed ==
    \A d \in Elems(declars) :
        d.axiom /\ Plain(d.name) /\ ~config.unsafe_permit_all_axioms =>
            \E list \in config.permitted_axioms : \E t \in list : NameFromStr(t) = d.name

\* The report is complete and in order, whatever fails on the way: all that is
\* due ends in what was handed to the destination, or in the errors, or, when
\* the separator could not be written, in both; each of the two is in the order
\* in which it is due.  A failed write does not keep the rest from being
\* printed.  (The text in a write's error is a note of this model, and a text
\* that was cut by a short write counts as printed, as it does in the code.)
ReportComplete ==
    Succeeded /\ destination # {} =>
        LET due == Due
        IN \E printed \in SUBSET {i \in DOMAIN due : due[i].name \in DeclaredNames} :
              /\ NamesOf(output \o buffer) = NamesOf(At(due, printed))
              /\ \E both \in SUBSET printed : errs = ErrorsOf(At(due, both \cup (DOMAIN due \ printed)))

\* The two conversions agree as far as they can: the parser looks for a
\* requested declaration by its text and the pretty printer by the name that
\* the text stands for.  Every declaration that is written like a request and
\* can be read back from that is printed, or its write fails; and a request
\* that passed the parser is found, unless none of the declarations written
\* like it can be read back: they have a string component with a dot or digits,
\* or a blank at the start.
RequestsAreFound ==
    Succeeded /\ destination # {} /\ config.unknown_pp_declar_hard_error =>
        \A t \in UNION {Elems(p) : p \in config.pp_declars} :
            LET written == {n \in DeclaredNames : NameToString(n) = t}
            IN /\ written # {}
               /\ \A n \in written :
                     Plain(n) => \/ \E e \in Elems(output \o buffer) : e.name = n
                                 \/ [kind |-> "write", text |-> t] \in Elems(errs)
               /\ [kind |-> "not_found", text |-> t] \in Elems(errs) => \A n \in written : ~Plain(n)

\* "Checked n declarations with no errors" is said truthfully: n and the axioms
\* it says were skipped make up the file, these are all the axioms that are not
\* permitted and no others, in order, and all that was due to be printed was,
\* in order; without a destination, no axioms were asked for.
MessageIsTrue ==
    Succeeded /\ message.kind = "checked" =>
        /\ message.number + Len(message.skipped) = Len(world.lines)
        /\ message.skipped = WrittenNames(AxiomsOf(world.lines, FALSE))
        /\ destination = {} => ~config.print_axioms
        /\ destination # {} => NamesOf(output \o buffer) = NamesOf(Due)

\* README.md:47: "If `"print_success_message"` is set to false, no additional
\* output will be printed on success".
QuietOnSuccess ==
    Succeeded /\ ~config.print_success_message => message.kind = "none"

\* README.md:41: "if both options are set, the pretty printer output will be
\* written to both stdout and the specified path".
BothDestinations ==
    Succeeded /\ config.pp_output_path /\ config.pp_to_stdout => destination = {"file", "stdout"}

=============================================================================
