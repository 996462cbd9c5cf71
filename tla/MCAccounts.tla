----------------------------- MODULE MCAccounts -----------------------------
EXTENDS Accounts, TLC

CONSTANTS d1, d2, t1, t2

\* People are alike, and so are the slots for requests.
AccountsSymmetry == Permutations({d1, d2}) \cup Permutations({t1, t2})
=============================================================================
