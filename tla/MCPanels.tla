------------------------------ MODULE MCPanels ------------------------------
(***************************************************************************)
(* Small instances of Compose and Aliases for TLC: the two panels of the   *)
(* web client over their routes. They share no state and no route, so one  *)
(* of them at a time shows all that either can do.                         *)
(***************************************************************************)
EXTENDS Compose, Aliases, TLC
CONSTANTS b1, b2, x, y, c1, c2
VARIABLE shown  \* the panel that is looked at

panelVars == <<shown, vars, aliasVars>>

PanelsInit == Init /\ AliasesInit /\ shown \in {"compose", "aliases"}

PanelsNext ==
  /\ UNCHANGED shown
  /\ \/ shown = "compose" /\ Next /\ UNCHANGED aliasVars
     \/ shown = "aliases" /\ AliasesNext /\ UNCHANGED vars

PanelsSpec == PanelsInit /\ [][PanelsNext]_panelVars

\* Mailboxes differ in nothing.
BoxSymmetry == Permutations(Boxes) \cup Permutations(Shelves)
=============================================================================
