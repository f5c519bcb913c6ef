----------------------------- MODULE DiskBlocks -----------------------------
(* What the builder of a disk image, the kernel that reads it and the      *)
(* programs that ask for room for a file share: blocks of bytes.           *)
EXTENDS Integers

CONSTANTS
  PageBytes,     \* bytes of a block (0x1000)
  Nothing        \* a block without meaning

ASSUME BlocksAssumption == PageBytes \in Nat \ {0}

(* The blocks that bytes take up. *)
InBlocks(bytes) == (bytes + PageBytes - 1) \div PageBytes
=============================================================================
