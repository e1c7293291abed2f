----------------------------- MODULE MCAccounts -----------------------------
(* Small instances of Accounts for TLC. *)
EXTENDS Accounts, TLC
CONSTANTS n1, n2, e1, e2, s1, s2, r1, r2

\* Names, people, seeds and requests differ in nothing.
AccountsSymmetry ==
  Permutations(Names) \cup Permutations(Emails) \cup Permutations(Secrets) \cup Permutations(Requests)
=============================================================================
