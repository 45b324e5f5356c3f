---------------------------- MODULE MCWorkspace -----------------------------
(* Values of the constants of Workspace for the model checker: one         *)
(* administrator, one user to invite under two spellings, two tenants      *)
(* whose names and slugs collide.                                          *)
EXTENDS Workspace, TLC

CONSTANTS t1, t2

TwoTenants == {t1, t2}
Spelling == [e \in {"root", "ana", "Ana", "none"} |-> IF e = "Ana" THEN "ana" ELSE e]
Root == {[email |-> "root", password |-> "long", role |-> "ADMIN", tenant |-> NoTenant]}
Typed == {<<"acme">>, <<"acme", 2>>}
SlugOf == [n \in {"Acme!"} |-> <<"acme">>]

\* Ids and tokens are interchangeable: nothing compares them but for equality.
Interchangeable == Permutations(Tenants) \cup Permutations(Tokens)
                   \cup Permutations(Signups) \cup Permutations(TemplateIds)

\* The record of the last request, which no action reads, tells no states apart.
WithoutRequest == <<accountVars, tenantVars, templates, edits>>
=============================================================================
