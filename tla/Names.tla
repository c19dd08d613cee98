------------------------------- MODULE Names --------------------------------
(***************************************************************************)
(* Hierarchical names (src/src/name.rs): what the checks of inductive      *)
(* types build names with.  A name is the string of its components with    *)
(* dots between them; a numeric component is a component like any other.   *)
(***************************************************************************)
EXTENDS Naturals, Sequences, TLC

Str(pfx, sfx) == pfx \o "." \o sfx

\* pfx is a proper prefix of n, in whole components.
HasPfx(n, pfx) == Len(n) > Len(pfx) /\ SubSeq(n, 1, Len(pfx) + 1) = pfx \o "."

\* get_pfx(n) is the name root.
HasRoot(n, root) == n = root \/ HasPfx(n, root)

\* A name that does not start with outgoing comes back as it was.
ReplacePfx(n, outgoing, incoming) ==
    IF n = outgoing THEN incoming
    ELSE IF HasPfx(n, outgoing) THEN incoming \o SubSeq(n, Len(outgoing) + 1, Len(n))
    ELSE n

ConcatName(n1, n2) == n1 \o "." \o n2

AppendIndexAfter(n, i) == n \o "_" \o ToString(i)

RecName(ind) == Str(ind, "rec")
=============================================================================
