------------------------------ MODULE MCPocket ------------------------------
(* Small instances of Pocket for TLC. *)
EXTENDS Pocket, TLC
CONSTANTS s1, s2
TwoBoxes == {"b1", "b2"}
SenderSymmetry == Permutations(Senders)
OneBox == {<<"messages", "b1">>, <<"screener", "b1">>}
TwoScreeners == {<<"screener", "b1">>, <<"screener", "b2">>}
CountsAndSearch == {<<"counts", "b1">>, <<"search", "b1">>}
Aliases == {<<"aliases", "b1">>, <<"forwardTargets", ALL>>}
=============================================================================
