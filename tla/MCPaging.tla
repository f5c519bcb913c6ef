------------------------------ MODULE MCPaging ------------------------------
(* Model-checking instance of Paging: three levels of four entries, so 32  *)
(* user pages.  The pages beyond the workspaces lie in the code half under *)
(* a table that exists, and in either half and in the kernel's under one   *)
(* that does not.                                                          *)
EXTENDS Paging, TLC

CONSTANTS p1, p2

MCEntries    == 4
MCLevels     == 3
MCFaultPages == {3, 9, 20, 50}
MCProcs      == {p1, p2}
MCFrames     == 18
MCMaxObjects == 14
MCSymmetry   == Permutations(MCProcs)
=============================================================================
