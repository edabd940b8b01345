----------------------------- MODULE MCAccounts -----------------------------
(* Accounts with small sets for TLC.                                       *)
EXTENDS Accounts, TLC

CONSTANTS a1, a2, d1, d2, s1, s2, s3

\* Attempts are interchangeable; so are the accounts where none is Older, and
\* the devices where the constants treat them alike
Symmetry == Permutations(Attempts) \cup Permutations(Accounts)
AttemptSymmetry == Permutations(Attempts)
=============================================================================
