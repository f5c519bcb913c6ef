------------------------------ MODULE KernObj ------------------------------
(***************************************************************************)
(* The kernel object allocator, kernel/src/kernobj.c.                      *)
(*                                                                         *)
(* Every kernel structure (free page regions, workspaces, processes,       *)
(* threads, port entries) lives in a 32 byte slot of one 4 KiB page.  The  *)
(* page's first slot is its header, which holds two bitmap words, a bit    *)
(* per slot.  No code ever links a second page to the header, so its       *)
(* `next' is always the header itself and the allocator's loop over        *)
(* headers visits this one page.                                           *)
(*                                                                         *)
(* What makes the code delicate is the expression `1 << i': its operand is *)
(* an int, half as wide as a bitmap word.  The result is sign extended     *)
(* when it meets the word, so the top bit of an int drags the whole upper  *)
(* half of the word with it; and the processor takes the shift count       *)
(* modulo the width of an int.                                             *)
(*                                                                         *)
(* A slot is named by its number in the page: byte offset / 0x20.          *)
(***************************************************************************)
EXTENDS Naturals, FiniteSets

CONSTANT IntBits     \* bits of an int: 32 in the source

ASSUME IntBitsAssumption == IntBits \in Nat /\ IntBits >= 2

WordBits  == 2 * IntBits               \* bits of a ulong bitmap word
Words     == {0, 1}                    \* bitmap[0], bitmap[1]
Bits      == 0 .. WordBits - 1
IntShifts == 0 .. IntBits - 1          \* shift counts with a defined result
PageSlots == 2 * WordBits              \* 0x1000 / 0x20
Slots     == 0 .. PageSlots - 1
Header    == 0

VARIABLES
  bitmap,     \* the header's two words, each as the set of its one bits
  live,       \* history: the slots handed out and not yet given back
  highFreed   \* history: a slot of the second word has been given back

vars == <<bitmap, live, highFreed>>

-----------------------------------------------------------------------------

(* Variant: the shift in a word as wide as the bitmap's. *)
ShiftedLong(i) == {i}

(* `1 << i', as the set of bits it has once it is widened to a word. *)
ShiftedOne(i) ==
  LET k == IF i < IntBits THEN i ELSE i % IntBits
  IN  IF k = IntBits - 1 THEN k .. WordBits - 1 ELSE {k}

(* loc_kobj: the word and bit of an object.  A page offset is compared     *)
(* with 0x2000, two pages, before the second word is considered.           *)
LocWord(o) == IF o > 2 * PageSlots THEN 1 ELSE 0
LocBit(o)  == IF o > 2 * PageSlots THEN o - 2 * PageSlots ELSE o

verify_kobj(o) == bitmap[LocWord(o)] \cap ShiftedOne(LocBit(o)) # {}

(* alloc_kobj's address arithmetic: the slot of bit i of word b. *)
SlotOfPage(b, i) == b * PageSlots + i    \* variant: a page per word
SlotOf(b, i) == b * WordBits + i

Full == \A b \in Words : bitmap[b] = Bits

(* The word alloc_kobj stops at, and the first bit its scan finds free. *)
ScanWord(b) == bitmap[b] # Bits /\ \A c \in Words : c < b => bitmap[c] = Bits
ScanBit(b, i) ==
  /\ bitmap[b] \cap ShiftedOne(i) = {}
  /\ \A j \in IntShifts : j < i => bitmap[b] \cap ShiftedOne(j) # {}

-----------------------------------------------------------------------------

(* Variants: the header's bit is not set; an object is given back and      *)
(* stays marked.                                                           *)
InitNoHeader ==
  /\ bitmap = [b \in Words |-> {}]
  /\ live = {}
  /\ highFreed = FALSE

free_marked(o) ==
  /\ o \in live
  /\ live' = live \ {o}
  /\ highFreed' = (highFreed \/ o >= WordBits)
  /\ UNCHANGED bitmap

Init ==
  /\ bitmap = [b \in Words |-> IF b = 0 THEN {Header} ELSE {}]
  /\ live = {}
  /\ highFreed = FALSE

(* A successful allocation marks the first free bit of the first word that *)
(* is not all ones; when both are, the function returns 0 and changes      *)
(* nothing.                                                                *)
alloc_kobj ==
  \E b \in Words, i \in IntShifts :
    /\ ScanWord(b)
    /\ ScanBit(b, i)
    /\ bitmap' = [bitmap EXCEPT ![b] = @ \cup ShiftedOne(i)]
    /\ live' = live \cup {SlotOf(b, i)}
    /\ UNCHANGED highFreed

(* A caller gives back an object it holds. *)
free_kobj(o) ==
  /\ o \in live
  /\ bitmap' = [bitmap EXCEPT ![LocWord(o)] = @ \ ShiftedOne(LocBit(o))]
  /\ live' = live \ {o}
  /\ highFreed' = (highFreed \/ o >= WordBits)

Next == alloc_kobj \/ \E o \in Slots : free_kobj(o)

Spec == Init /\ [][Next]_vars

-----------------------------------------------------------------------------
(***************************************************************************)
(* Properties.                                                             *)
(***************************************************************************)

TypeOK ==
  /\ bitmap \in [Words -> SUBSET Bits]
  /\ live \subseteq Slots
  /\ highFreed \in BOOLEAN

(* The scan for a free bit ends inside the defined shift counts: a word    *)
(* that is not all ones has a free bit below the width of an int, so       *)
(* alloc_kobj never shifts by 32 or more and never spins.                  *)
ScanEnds ==
  \A b \in Words :
    bitmap[b] # Bits => \E i \in IntShifts : bitmap[b] \cap ShiftedOne(i) = {}

(* From bit IntBits - 1 up the bits of a word move together.  This is what *)
(* sign extension does to the bitmap, and why the scan always ends.        *)
HighBitsAgree ==
  \A b \in Words : \A i \in IntBits - 1 .. WordBits - 1 :
    i \in bitmap[b] <=> IntBits - 1 \in bitmap[b]

(* As long as no object of the second word has been given back, the bitmap *)
(* is exact: a bit below the int width is set just for the header and for  *)
(* the objects in use, and no other slot is in use.                        *)
BitmapExact ==
  ~highFreed =>
    /\ live \subseteq {SlotOf(b, i) : b \in Words, i \in IntShifts} \ {Header}
    /\ \A b \in Words, i \in IntShifts :
         i \in bitmap[b] <=> SlotOf(b, i) \in live \cup {Header}

(* Under the same condition no allocation returns an object that is in use *)
(* (or the header): each one adds a slot to those in use.                  *)
FreshObject ==
  [][~highFreed /\ alloc_kobj =>
       \E o \in Slots \ (live \cup {Header}) : live' = live \cup {o}]_vars

(* verify_kobj answers for the objects of the first word: it tells the     *)
(* ones in use from the others, while no second-word object was returned.  *)
VerifyTellsLive ==
  ~highFreed => \A o \in IntShifts \ {Header} : verify_kobj(o) <=> o \in live

(* Half of the page is out of reach: the allocator reports exhaustion      *)
(* exactly when 63 objects (of 127) are in use.                            *)
Capacity ==
  ~highFreed => (Full <=> Cardinality(live) = WordBits - 1)
=============================================================================
