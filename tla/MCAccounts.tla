----------------------------- MODULE MCAccounts -----------------------------
\* The binder decodes the login only, as the library does, or every body.
EXTENDS Accounts, TLC

AnyBinder == {{"LoginWeb"}, BodyOps}
Symmetry  == Permutations(Tokens) \cup Permutations(Ids) \cup Permutations(Workers)
=============================================================================
