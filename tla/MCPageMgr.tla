----------------------------- MODULE MCPageMgr -----------------------------
(* Model-checking instance of PageMgr: pages of two bytes, a memory map    *)
(* with a region at 0, a usable one that ends in the middle of a page and  *)
(* a reserved one that starts there, requests that overflow an unsigned    *)
(* int of eight, and room for two more regions.                            *)
EXTENDS PageMgr

MCPageSize    == 2
MCUIntRange   == 8
MCRequests    == {0, 1, 2, 5}
MCMemoryMap   == << [addr |-> 0,  size |-> 2, usable |-> TRUE],
                    [addr |-> 2,  size |-> 5, usable |-> TRUE],
                    [addr |-> 7,  size |-> 3, usable |-> FALSE] >>
MCKernelSpace == [addr |-> 4, size |-> 4, usable |-> TRUE]
MCMaxObjects  == 5
=============================================================================
