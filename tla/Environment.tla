---------------------------- MODULE Environment -----------------------------
(***************************************************************************)
(* Env (src/src/env.rs): the declarations a term is read in, by name, and  *)
(* what is read off the spine of a term with it.                           *)
(***************************************************************************)
EXTENDS ExprTerms

CONSTANTS Env   \* the environment: names to declarations

\* The record of a declaration: kind, uparams and ty; val and hint (with h, the
\* height of a regular one) of a definition; num_params, num_indices, ctors and
\* is_recursive of an inductive type; inductive, num_params and num_fields of a
\* constructor; num_params, num_motives, num_minors, num_indices, rec_rules and
\* is_k of a recursor.
IsKind(n, kinds) == n \in DOMAIN Env /\ Env[n].kind \in kinds

\* Literals: numbers, and strings as the sequence of their code points.
NatLit(n) == <<"nat", n>>
StrLit(cs) == <<"str", cs>>
IsNatLit(e) == e[1] = "nat"
IsStrLit(e) == e[1] = "str"
IsLit(e) == IsNatLit(e) \/ IsStrLit(e)

Fun(e) == UnfoldApps(e).fun
Args(e) == UnfoldApps(e).args

IsCtorApp(e) == LET f == Fun(e) IN f[1] = "const" /\ IsKind(f[2], {"ctor"})
=============================================================================
