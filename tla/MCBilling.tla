----------------------------- MODULE MCBilling ------------------------------
(* Small instances of Billing for TLC. *)
EXTENDS Billing, TLC

CONSTANTS r1, r2

\* Two checkout requests differ in nothing.
RequestSymmetry == Permutations(Reqs)
=============================================================================
