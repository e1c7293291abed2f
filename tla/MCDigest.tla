------------------------------ MODULE MCDigest ------------------------------
(* Small instances of Digest for TLC. *)
EXTENDS Digest, TLC
CONSTANTS t1, t2, m1, m2, m3

\* Ticks differ in nothing, and neither do messages.
DigestSymmetry == Permutations(Ticks) \cup Permutations(Ids)
=============================================================================
