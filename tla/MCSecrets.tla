----------------------------- MODULE MCSecrets -----------------------------
EXTENDS Secrets, TLC
CONSTANTS ann, bob, k1, k2

\* One user edits or imports, another changes secrets in any way.
MCKinds == (ann :> {"edit", "import"}) @@ (bob :> {"set", "delete", "edit"})
=============================================================================
