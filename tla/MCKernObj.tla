----------------------------- MODULE MCKernObj -----------------------------
(* Model-checking instance of KernObj: an int of four bits, so a bitmap    *)
(* word of eight and a page of sixteen slots, fifteen of them objects.     *)
EXTENDS KernObj

MCIntBits == 4
=============================================================================
