------------------------------ MODULE Verdict ------------------------------
(***************************************************************************)
(* What the checking phase of nanoda promises its caller, whatever the     *)
(* number of threads: declarations are checked one at a time and at most   *)
(* once, in any order; the run is accepted only when every declaration has *)
(* been checked without error, and it is rejected only for a reason: a     *)
(* declaration whose check panicked, or a thread that could not be         *)
(* created.  A check that exhausts its stack takes the process down.       *)
(*                                                                         *)
(* The drivers of src/src/tc.rs (CheckAll.tla) are shown to implement this *)
(* specification.                                                          *)
(***************************************************************************)
EXTENDS Naturals

CONSTANT NumDeclars     \* how many declarations the export file holds

Declars == 0 .. NumDeclars - 1

\* What checking one declaration does: it returns, it panics (the checker's
\* way of rejecting), or it overflows its stack and aborts the process.
Outcomes == {"ok", "panic", "abort"}

VARIABLES
    outcome,     \* outcome[d]: what checking d does; fixed by the file
    checked,     \* the declarations whose check returned
    failed,      \* the declarations whose check panicked
    verdict      \* "running", "accepted", "rejected" or "aborted"

vars == <<outcome, checked, failed, verdict>>

Init == /\ outcome \in [Declars -> Outcomes]
        /\ checked = {}
        /\ failed = {}
        /\ verdict = "running"

Untouched(d) == d \notin checked \cup failed

\* Several threads may be checking when one of them has already failed, so
\* a failure does not stop the others.
Check(d) ==
    /\ verdict = "running"
    /\ Untouched(d)
    /\ \/ /\ outcome[d] = "ok"
          /\ checked' = checked \cup {d}
          /\ UNCHANGED <<failed, verdict>>
       \/ /\ outcome[d] = "panic"
          /\ failed' = failed \cup {d}
          /\ UNCHANGED <<checked, verdict>>
       \/ /\ outcome[d] = "abort"
          /\ verdict' = "aborted"
          /\ UNCHANGED <<checked, failed>>
    /\ UNCHANGED outcome

Accept ==
    /\ verdict = "running"
    /\ checked = Declars
    /\ verdict' = "accepted"
    /\ UNCHANGED <<outcome, checked, failed>>

\* A declaration was refused.
Reject ==
    /\ verdict = "running"
    /\ failed # {}
    /\ verdict' = "rejected"
    /\ UNCHANGED <<outcome, checked, failed>>

\* The operating system refused a checker thread: the run fails although no
\* declaration is to blame.
ResourceFailure ==
    /\ verdict = "running"
    /\ verdict' = "no_thread"
    /\ UNCHANGED <<outcome, checked, failed>>

Next == \/ \E d \in Declars : Check(d)
        \/ Accept
        \/ Reject
        \/ ResourceFailure

Spec == Init /\ [][Next]_vars

=============================================================================
