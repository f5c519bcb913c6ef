------------------------------- MODULE MCDesk -------------------------------
(* Model-checking instances of Desk.                                       *)
EXTENDS Desk

CONSTANTS rusk, bearing, c1, c2

MCOneClient  == {c1}
MCTwoClients == {c1, c2}
MCSymmetry   == Permutations(MCTwoClients)
MCKeys       == {"key"}
MCMouse      == {"key", "down", "up"}
MCPresses    == {"down"}      \* one that hits nothing is passed on like a key
MCClicks     == {"down", "up"}
MCAllKinds   == {"key", "hide", "down", "up"}
MCQuiet      == {"none"}
MCDraws      == {"none", "draw"}
MCDestroys   == {"none", "destroy"}

(* Bound: an execution in which rusk has missed an argument is followed as *)
(* long as nothing is typed.  The invariants of `desk' and `focus' speak   *)
(* of the executions before that, and astray never becomes FALSE again.    *)
MCQuietAstray == astray => typed = 0
=============================================================================
