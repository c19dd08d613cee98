----------------------------- MODULE MCSession ------------------------------
(* Session on the configurations and files that differ for one of its       *)
(* decisions: what is consistent, what is permitted, what is printed.       *)
EXTENDS Session

MCEmpty == ""
MCSegments == {MCEmpty, "a", "b", "1", "01"}
MCNumerals == {"1", "01"}
MCCanonical == [s \in MCNumerals |-> "1"]

Str(s) == [num |-> FALSE, text |-> s]
Num(s) == [num |-> TRUE, text |-> <<s>>]

A == <<Str(<<"a">>)>>
A1 == A \o <<Num("1")>>
AStr1 == A \o <<Str(<<"1">>)>>
AB == A \o <<Str(<<"b">>)>>
Dotted == <<Str(<<"a", "b">>)>>
Anonymous == <<>>
Blank == <<Str(<<MCEmpty>>)>>
BlankA == Blank \o A

Axiom(n) == [name |-> n, axiom |-> TRUE, parses |-> TRUE, checks |-> TRUE]
Def(n) == [Axiom(n) EXCEPT !.axiom = FALSE]
IllTyped(l) == [l EXCEPT !.checks = FALSE]
Garbled(l) == [l EXCEPT !.parses = FALSE]

Default == [export_file_path |-> TRUE, use_stdin |-> FALSE, permitted_axioms |-> {},
            unsafe_permit_all_axioms |-> FALSE, unpermitted_axiom_hard_error |-> TRUE,
            pp_declars |-> {}, unknown_pp_declar_hard_error |-> TRUE, pp_output_path |-> FALSE,
            pp_to_stdout |-> FALSE, print_axioms |-> TRUE, print_success_message |-> FALSE]

\* Every combination of the options that Config::try_from looks at.
Sources ==
    {[Default EXCEPT !.export_file_path = e, !.use_stdin = i, !.permitted_axioms = p,
                     !.unsafe_permit_all_axioms = u, !.unpermitted_axiom_hard_error = h,
                     !.print_success_message = m] :
        e \in BOOLEAN, i \in BOOLEAN, p \in {{}, {{}}, {{<<"a">>, <<"a", "b">>}}},
        u \in BOOLEAN, h \in BOOLEAN, m \in BOOLEAN}

\* Every combination of the options about output, with three policies for
\* axioms and requests for one or two declarations, a repeated one included.
Policies ==
    {[Default EXCEPT !.permitted_axioms = {{<<"a">>, <<"a", "1">>}}, !.unpermitted_axiom_hard_error = FALSE],
     [Default EXCEPT !.use_stdin = TRUE, !.export_file_path = FALSE,
                     !.unsafe_permit_all_axioms = TRUE, !.unpermitted_axiom_hard_error = FALSE]}

Listings == {{}, {<<>>}, {<<<<"a">>>>}, {<<<<"a", "1">>>>}, {<<<<"a", "b">>, <<"a">>>>}, {<<<<"a">>, <<"a">>>>},
             {<<<<"a", "01">>>>}, {<<<<MCEmpty>>>>}, {<<<<MCEmpty, "a">>>>}}

Printing ==
    {[p EXCEPT !.pp_declars = l, !.unknown_pp_declar_hard_error = u, !.pp_output_path = o,
               !.pp_to_stdout = s, !.print_axioms = x, !.print_success_message = m] :
        p \in Policies, l \in Listings, u \in BOOLEAN, o \in BOOLEAN, s \in BOOLEAN, x \in BOOLEAN, m \in BOOLEAN}

MCConfigs == Sources \cup Printing

MCLines ==
    {<<>>, <<Axiom(A)>>, <<Def(A), Axiom(A1)>>, <<Axiom(A), Axiom(AStr1)>>, <<Axiom(AB), Axiom(Dotted), Def(A)>>,
     <<Axiom(A), Def(AB), Axiom(A1)>>, <<Def(A), Def(A)>>, <<Axiom(A), IllTyped(Def(AB))>>, <<IllTyped(Axiom(A))>>,
     <<Axiom(AB), Garbled(Def(A))>>, <<Def(Blank), Axiom(BlankA)>>, <<Def(Anonymous), Axiom(BlankA), Axiom(A)>>,
     <<Axiom(Dotted), Axiom(A), Axiom(A1)>>,
     <<IllTyped(Axiom(AB)), Def(A)>>, <<Def(AB), Def(A), Axiom(A1)>>}

Fine == [config |-> "ok", output |-> TRUE, export |-> TRUE, threads |-> TRUE, lines |-> <<>>]

MCWorlds ==
    {[Fine EXCEPT !.lines = l, !.output = o] : l \in MCLines, o \in BOOLEAN}
        \cup {[Fine EXCEPT !.config = "missing"], [Fine EXCEPT !.config = "malformed"], [Fine EXCEPT !.export = FALSE],
              [Fine EXCEPT !.threads = FALSE, !.lines = <<Def(A)>>]}
=============================================================================
