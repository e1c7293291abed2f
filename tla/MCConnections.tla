---------------------------- MODULE MCConnections ----------------------------
(* Small instances of Connections for TLC. *)
EXTENDS Connections
CONSTANTS t1, t2, r1, r2

\* Ticks differ in nothing.
TickSymmetry == Permutations(Ticks)
=============================================================================
