--------------------------- MODULE ResourceProofs ---------------------------
(***************************************************************************)
(* Theorems about what must not be given out twice: the objects of a       *)
(* kernel page (KernObj), the bytes of a program's heap (Malloc) and the   *)
(* nodes of the file tree (Fs). The three share no state; each part has an *)
(* inductive invariant of its own specification, for every value of its    *)
(* constants.                                                              *)
(***************************************************************************)
EXTENDS KernObj, Fs, Malloc, FiniteSetTheorems, TLAPS

-----------------------------------------------------------------------------
(* The kernel object allocator, for an int of any width. The inductive     *)
(* invariant is TypeOK, HighBitsAgree and BitmapExact: that the scan ends  *)
(* follows from the second, that allocations are fresh from the third.     *)

USE IntBitsAssumption DEF IntBitsAssumption

IInv == TypeOK /\ HighBitsAgree /\ BitmapExact

(* `1 << i' is one bit below the top bit of an int, or all bits from that  *)
(* one up; and for a defined shift count the lowest of them is bit i.      *)
LEMMA ShiftedOneCases ==
  ASSUME NEW i \in Nat
  PROVE  /\ ShiftedOne(i) \subseteq Bits
         /\ \/ ShiftedOne(i) = IntBits - 1 .. WordBits - 1
            \/ \E k \in 0 .. IntBits - 2 : ShiftedOne(i) = {k}
         /\ i \in IntShifts =>
              ShiftedOne(i) = IF i = IntBits - 1 THEN i .. WordBits - 1 ELSE {i}
<1> DEFINE k == IF i < IntBits THEN i ELSE i % IntBits
<1>1. k \in 0 .. IntBits - 1
  OBVIOUS
<1>2. ShiftedOne(i) = IF k = IntBits - 1 THEN k .. WordBits - 1 ELSE {k}
  BY DEF ShiftedOne
<1>3. i \in IntShifts => k = i
  BY DEF IntShifts
<1> HIDE DEF k
<1>4. ShiftedOne(i) \subseteq Bits
  BY <1>1, <1>2 DEF Bits, WordBits
<1>5. CASE k = IntBits - 1
  BY <1>1, <1>2, <1>3, <1>4, <1>5
<1>6. CASE k # IntBits - 1
  <2>1. k \in 0 .. IntBits - 2 /\ ShiftedOne(i) = {k}
    BY <1>1, <1>2, <1>6
  <2>2. QED
    BY <1>3, <1>4, <1>6, <2>1
<1>7. QED
  BY <1>5, <1>6

(* The defined shift counts are bits, and distinct word and bit numbers    *)
(* are distinct slots.                                                     *)
LEMMA SlotOfInjective ==
  ASSUME NEW b \in Words, NEW c \in Words, NEW i \in Bits, NEW j \in Bits
  PROVE  /\ SlotOf(b, i) \in Slots
         /\ SlotOf(b, i) = SlotOf(c, j) => b = c /\ i = j
BY DEF Words, Bits, SlotOf, Slots, PageSlots, WordBits

(* No object lies beyond the first two pages, so loc_kobj takes every      *)
(* object for one of the first word.                                       *)
LEMMA Located ==
  ASSUME NEW o \in Slots
  PROVE  o \in Nat /\ LocWord(o) = 0 /\ LocBit(o) = o
BY DEF Slots, PageSlots, WordBits, LocWord, LocBit

(* The initial bitmap satisfies the invariant.                             *)
LEMMA InitIInv == Init => IInv
<1> SUFFICES ASSUME Init PROVE IInv
  OBVIOUS
<1>1. TypeOK
  <2>1. Header \in Bits
    BY DEF Header, Bits, WordBits
  <2>2. QED
    BY <2>1 DEF Init, TypeOK
<1>2. HighBitsAgree
  BY DEF Init, HighBitsAgree, Words, Header, WordBits
<1>3. BitmapExact
  BY DEF Init, BitmapExact, Words, Header, WordBits, SlotOf, IntShifts
<1>4. QED
  BY <1>1, <1>2, <1>3 DEF IInv

(* A shift's bits in a word that satisfies HighBitsAgree are all set or    *)
(* all clear, as its lowest bit is.                                        *)
LEMMA ShiftUniform ==
  ASSUME TypeOK, HighBitsAgree, NEW b \in Words, NEW i \in IntShifts
  PROVE  /\ i \in ShiftedOne(i)
         /\ bitmap[b] \cap ShiftedOne(i) = {} <=> i \notin bitmap[b]
<1>1. i \in Nat /\ i < IntBits
  BY DEF IntShifts
<1>2. ShiftedOne(i) = IF i = IntBits - 1 THEN i .. WordBits - 1 ELSE {i}
  BY <1>1, ShiftedOneCases
<1>3. i \in ShiftedOne(i)
  BY <1>1, <1>2 DEF WordBits
<1>4. ASSUME NEW j \in ShiftedOne(i)
      PROVE  j \in bitmap[b] <=> i \in bitmap[b]
  BY <1>1, <1>2 DEF HighBitsAgree
<1>5. QED
  BY <1>3, <1>4

(* Setting or clearing the bits of a shift keeps the high bits together.   *)
LEMMA SetKeepsHighBits ==
  ASSUME NEW W \in SUBSET Bits, NEW i \in Nat, NEW V,
         V = W \cup ShiftedOne(i) \/ V = W \ ShiftedOne(i),
         \A j \in IntBits - 1 .. WordBits - 1 : j \in W <=> IntBits - 1 \in W
  PROVE  /\ V \in SUBSET Bits
         /\ \A j \in IntBits - 1 .. WordBits - 1 : j \in V <=> IntBits - 1 \in V
<1>1. ShiftedOne(i) \subseteq Bits
  BY ShiftedOneCases
<1>2. CASE ShiftedOne(i) = IntBits - 1 .. WordBits - 1
  <2>1. IntBits - 1 \in IntBits - 1 .. WordBits - 1
    BY DEF WordBits
  <2>2. QED
    BY <1>1, <1>2, <2>1
<1>3. CASE \E k \in 0 .. IntBits - 2 : ShiftedOne(i) = {k}
  <2>1. PICK k \in 0 .. IntBits - 2 : ShiftedOne(i) = {k}
    BY <1>3
  <2>2. \A j \in IntBits - 1 .. WordBits - 1 : j # k
    OBVIOUS
  <2>3. IntBits - 1 # k
    OBVIOUS
  <2>4. QED
    BY <1>1, <2>1, <2>2, <2>3
<1>4. QED
  BY <1>2, <1>3, ShiftedOneCases

(* alloc_kobj keeps the invariant.                                         *)
LEMMA AllocIInv == IInv /\ alloc_kobj => IInv'
<1> SUFFICES ASSUME IInv, alloc_kobj PROVE IInv'
  OBVIOUS
<1>1. PICK b \in Words, i \in IntShifts :
        /\ ScanBit(b, i)
        /\ bitmap' = [bitmap EXCEPT ![b] = @ \cup ShiftedOne(i)]
        /\ live' = live \cup {SlotOf(b, i)}
        /\ UNCHANGED highFreed
  BY DEF alloc_kobj
<1>2. i \in Nat /\ i \in Bits /\ i < IntBits
  BY DEF IntShifts, Bits, WordBits
<1>3. i \notin bitmap[b]
  BY <1>1, ShiftUniform DEF IInv, ScanBit
<1>4. \A c \in Words : bitmap'[c] = IF c = b THEN bitmap[b] \cup ShiftedOne(i)
                                    ELSE bitmap[c]
  BY <1>1 DEF IInv, TypeOK
<1>5. /\ bitmap[b] \cup ShiftedOne(i) \in SUBSET Bits
      /\ \A j \in IntBits - 1 .. WordBits - 1 :
           j \in bitmap[b] \cup ShiftedOne(i)
             <=> IntBits - 1 \in bitmap[b] \cup ShiftedOne(i)
  BY <1>2, SetKeepsHighBits DEF IInv, TypeOK, HighBitsAgree
<1>6. TypeOK'
  BY <1>1, <1>2, <1>5, SlotOfInjective DEF IInv, TypeOK
<1>7. HighBitsAgree'
  BY <1>4, <1>5 DEF IInv, HighBitsAgree
<1>8. BitmapExact'
  <2> SUFFICES ASSUME ~highFreed'
               PROVE  /\ live' \subseteq {SlotOf(c, j) : c \in Words, j \in IntShifts}
                                           \ {Header}
                      /\ \A c \in Words, j \in IntShifts :
                           j \in bitmap'[c] <=> SlotOf(c, j) \in live' \cup {Header}
    BY DEF BitmapExact
  <2>1. /\ live \subseteq {SlotOf(c, j) : c \in Words, j \in IntShifts} \ {Header}
        /\ \A c \in Words, j \in IntShifts :
             j \in bitmap[c] <=> SlotOf(c, j) \in live \cup {Header}
    BY <1>1 DEF IInv, BitmapExact
  <2>2. SlotOf(b, i) \notin live \cup {Header}
    BY <1>3, <2>1
  <2>3. ASSUME NEW c \in Words, NEW j \in IntShifts
        PROVE  j \in bitmap'[c] <=> SlotOf(c, j) \in live' \cup {Header}
    <3>1. j \in Bits
      BY DEF IntShifts, Bits, WordBits
    <3>2. j \in ShiftedOne(i) <=> j = i
      BY <1>2, ShiftedOneCases DEF IntShifts, WordBits
    <3>3. j \in bitmap'[c] <=> j \in bitmap[c] \/ (c = b /\ j = i)
      BY <1>4, <3>2
    <3>4. SlotOf(c, j) = SlotOf(b, i) <=> c = b /\ j = i
      BY <1>2, <3>1, SlotOfInjective
    <3>5. QED
      BY <1>1, <2>1, <3>3, <3>4
  <2>4. QED
    BY <1>1, <2>1, <2>2, <2>3
<1>9. QED
  BY <1>6, <1>7, <1>8 DEF IInv

(* So does free_kobj, in the first word and in the second.                 *)
LEMMA FreeIInv ==
  ASSUME IInv, NEW o \in Slots, free_kobj(o)
  PROVE  IInv'
<1>1. o \in Nat /\ LocWord(o) = 0 /\ LocBit(o) = o /\ 0 \in Words
  BY Located DEF Words
<1>2. /\ o \in live /\ live' = live \ {o}
      /\ bitmap' = [bitmap EXCEPT ![0] = @ \ ShiftedOne(o)]
      /\ highFreed' = (highFreed \/ o >= WordBits)
  BY <1>1 DEF free_kobj
<1>3. \A c \in Words : bitmap'[c] = IF c = 0 THEN bitmap[0] \ ShiftedOne(o)
                                    ELSE bitmap[c]
  BY <1>1, <1>2 DEF IInv, TypeOK
<1>4. /\ bitmap[0] \ ShiftedOne(o) \in SUBSET Bits
      /\ \A j \in IntBits - 1 .. WordBits - 1 :
           j \in bitmap[0] \ ShiftedOne(o)
             <=> IntBits - 1 \in bitmap[0] \ ShiftedOne(o)
  BY <1>1, SetKeepsHighBits DEF IInv, TypeOK, HighBitsAgree
<1>5. TypeOK'
  <2>1. highFreed' \in BOOLEAN
    BY <1>2
  <2>2. QED
    BY <1>1, <1>2, <1>4, <2>1 DEF IInv, TypeOK
<1>6. HighBitsAgree'
  BY <1>3, <1>4 DEF IInv, HighBitsAgree
<1>7. BitmapExact'
  <2> SUFFICES ASSUME ~highFreed'
               PROVE  /\ live' \subseteq {SlotOf(c, j) : c \in Words, j \in IntShifts}
                                           \ {Header}
                      /\ \A c \in Words, j \in IntShifts :
                           j \in bitmap'[c] <=> SlotOf(c, j) \in live' \cup {Header}
    BY DEF BitmapExact
  <2>0. ~highFreed /\ ~(o >= WordBits)
    BY <1>2
  <2>1. /\ live \subseteq {SlotOf(c, j) : c \in Words, j \in IntShifts} \ {Header}
        /\ \A c \in Words, j \in IntShifts :
             j \in bitmap[c] <=> SlotOf(c, j) \in live \cup {Header}
    BY <2>0 DEF IInv, BitmapExact
  <2>2. o < WordBits /\ o # Header
    BY <1>1, <1>2, <2>0, <2>1 DEF WordBits
  <2>3. o \in IntShifts /\ SlotOf(0, o) = o
    <3>1. PICK c \in Words, j \in IntShifts : o = SlotOf(c, j)
      BY <1>2, <2>1
    <3>2. QED
      BY <2>2, <3>1 DEF Words, IntShifts, SlotOf, WordBits
  <2>4. ASSUME NEW c \in Words, NEW j \in IntShifts
        PROVE  j \in bitmap'[c] <=> SlotOf(c, j) \in live' \cup {Header}
    <3>1. j \in Bits /\ o \in Bits
      BY <2>3 DEF IntShifts, Bits, WordBits
    <3>2. j \in ShiftedOne(o) <=> j = o
      BY <1>1, <2>3, ShiftedOneCases DEF IntShifts, WordBits
    <3>3. j \in bitmap'[c] <=> j \in bitmap[c] /\ ~(c = 0 /\ j = o)
      BY <1>3, <3>2
    <3>4. SlotOf(c, j) = o <=> c = 0 /\ j = o
      BY <1>1, <2>3, <3>1, SlotOfInjective
    <3>5. QED
      BY <1>2, <2>1, <2>2, <3>3, <3>4
  <2>5. QED
    BY <1>2, <2>1, <2>4
<1>8. QED
  BY <1>5, <1>6, <1>7 DEF IInv

(* The inductive invariant holds in every state the allocator reaches.     *)
THEOREM Invariant == Spec => []IInv
<1>1. IInv /\ [Next]_vars => IInv'
  <2> SUFFICES ASSUME IInv, [Next]_vars PROVE IInv'
    OBVIOUS
  <2>1. CASE alloc_kobj
    BY <2>1, AllocIInv
  <2>2. CASE \E o \in Slots : free_kobj(o)
    BY <2>2, FreeIInv
  <2>3. CASE UNCHANGED vars
    BY <2>3 DEF vars, IInv, TypeOK, HighBitsAgree, BitmapExact
  <2>4. QED
    BY <2>1, <2>2, <2>3 DEF Next
<1>2. QED
  BY <1>1, InitIInv, PTL DEF Spec

(* Type correctness of the allocator: the bitmap words hold their bits and *)
(* nothing but slots of the page is ever handed out by alloc_kobj.         *)
THEOREM TypeCorrect == Spec => []TypeOK
BY Invariant, PTL DEF IInv

(* alloc_kobj's scan for a free bit always ends below the width of an int: *)
(* the loop never spins and never shifts by an undefined count.            *)
THEOREM ScanTerminates == Spec => []ScanEnds
<1>1. IInv => ScanEnds
  <2> SUFFICES ASSUME IInv, NEW b \in Words, bitmap[b] # Bits
               PROVE  \E i \in IntShifts : bitmap[b] \cap ShiftedOne(i) = {}
    BY DEF ScanEnds
  <2>1. PICK j \in Bits : j \notin bitmap[b]
    BY DEF IInv, TypeOK
  <2>2. CASE j < IntBits - 1
    <3>1. j \in IntShifts
      BY <2>2 DEF Bits, IntShifts
    <3>2. QED
      BY <2>1, <3>1, ShiftUniform DEF IInv
  <2>3. CASE ~(j < IntBits - 1)
    <3>1. j \in IntBits - 1 .. WordBits - 1 /\ IntBits - 1 \in IntShifts
      BY <2>3 DEF Bits, IntShifts, WordBits
    <3>2. IntBits - 1 \notin bitmap[b]
      BY <2>1, <3>1 DEF IInv, HighBitsAgree
    <3>3. QED
      BY <3>1, <3>2, ShiftUniform DEF IInv
  <2>4. QED
    BY <2>2, <2>3
<1>2. QED
  BY <1>1, Invariant, PTL

(* While no object of the second word has been given back, the bitmap is   *)
(* exact ...                                                               *)
THEOREM BitmapIsExact == Spec => []BitmapExact
BY Invariant, PTL DEF IInv

(* ... and every allocation returns an object nobody holds.                *)
THEOREM AllocationsAreFresh == Spec => FreshObject
<1>1. IInv /\ [Next]_vars =>
        [~highFreed /\ alloc_kobj =>
           \E o \in Slots \ (live \cup {Header}) : live' = live \cup {o}]_vars
  <2> SUFFICES ASSUME IInv, ~highFreed, alloc_kobj
               PROVE  \E o \in Slots \ (live \cup {Header}) : live' = live \cup {o}
    OBVIOUS
  <2>1. PICK b \in Words, i \in IntShifts :
          ScanBit(b, i) /\ live' = live \cup {SlotOf(b, i)}
    BY DEF alloc_kobj
  <2>2. i \in Bits
    BY DEF IntShifts, Bits, WordBits
  <2>3. i \notin bitmap[b]
    BY <2>1, ShiftUniform DEF IInv, ScanBit
  <2>4. SlotOf(b, i) \in Slots \ (live \cup {Header})
    BY <2>2, <2>3, SlotOfInjective DEF IInv, BitmapExact
  <2>5. QED
    BY <2>1, <2>4
<1>2. QED
  BY <1>1, Invariant, PTL DEF Spec, FreshObject

(* verify_kobj tells the first-word objects in use from the free ones, as  *)
(* long as no object of the second word has been given back.               *)
THEOREM VerifyIsRight == Spec => []VerifyTellsLive
<1>1. IInv => VerifyTellsLive
  <2> SUFFICES ASSUME IInv, ~highFreed, NEW o \in IntShifts \ {Header}
               PROVE  verify_kobj(o) <=> o \in live
    BY DEF VerifyTellsLive
  <2>1. o \in Slots /\ SlotOf(0, o) = o /\ 0 \in Words
    BY DEF IntShifts, Slots, PageSlots, WordBits, SlotOf, Words
  <2>2. verify_kobj(o) <=> o \in bitmap[0]
    BY <2>1, Located, ShiftUniform DEF IInv, verify_kobj
  <2>3. o \in bitmap[0] <=> o \in live \cup {Header}
    BY <2>1 DEF IInv, BitmapExact
  <2>4. QED
    BY <2>2, <2>3
<1>2. QED
  BY <1>1, Invariant, PTL

(* The slots the scan can reach, the header apart: half of the page.       *)
Reachable == {SlotOf(b, i) : b \in Words, i \in IntShifts} \ {Header}

(* The objects the scan can reach are one fewer than the bits of a word.   *)
LEMMA ReachableCount ==
  IsFiniteSet(Reachable) /\ Cardinality(Reachable) = WordBits - 1
<1> DEFINE A == 1 .. IntBits - 1
           B == WordBits .. WordBits + IntBits - 1
<1>1. Reachable = A \cup B
  BY DEF Reachable, SlotOf, Words, IntShifts, Header, WordBits
<1>2. IsFiniteSet(A) /\ Cardinality(A) = IntBits - 1
  BY FS_Interval
<1>3. IsFiniteSet(B) /\ Cardinality(B) = IntBits
  <2>1. WordBits \in Int /\ WordBits + IntBits - 1 \in Int /\ ~(WordBits > WordBits + IntBits - 1)
    BY DEF WordBits
  <2>2. IsFiniteSet(B) /\ Cardinality(B) = WordBits + IntBits - 1 - WordBits + 1
    BY <2>1, FS_Interval
  <2>3. WordBits + IntBits - 1 - WordBits + 1 = IntBits
    BY DEF WordBits
  <2>4. QED
    BY <2>2, <2>3
<1>4. A \cap B = {}
  BY DEF WordBits
<1>5. Cardinality(A \cap B) = 0
  BY <1>4, FS_EmptySet
<1>6. IsFiniteSet(A \cup B) /\ Cardinality(A \cup B) = Cardinality(A) + Cardinality(B) - 0
  <2> HIDE DEF A, B
  <2>1. QED
    BY <1>2, <1>3, <1>5, FS_Union
<1>7. QED
  BY <1>1, <1>2, <1>3, <1>6 DEF WordBits

(* A word is all ones once the bits that the scan can set are. *)
LEMMA WordFull ==
  ASSUME TypeOK, HighBitsAgree, NEW b \in Words
  PROVE  bitmap[b] = Bits <=> \A i \in IntShifts : i \in bitmap[b]
<1>1. bitmap[b] \subseteq Bits
  BY DEF TypeOK
<1>2. IntShifts \subseteq Bits
  BY DEF IntShifts, Bits, WordBits
<1>3. ASSUME \A i \in IntShifts : i \in bitmap[b], NEW j \in Bits
      PROVE  j \in bitmap[b]
  <2>1. CASE j < IntBits
    <3>1. j \in IntShifts
      BY <2>1 DEF Bits, IntShifts
    <3>2. QED
      BY <1>3, <3>1
  <2>2. CASE ~(j < IntBits)
    <3>1. j \in IntBits - 1 .. WordBits - 1 /\ IntBits - 1 \in IntShifts
      BY <2>2 DEF Bits, IntShifts, WordBits
    <3>2. QED
      BY <1>3, <3>1 DEF HighBitsAgree
  <2>3. QED
    BY <2>1, <2>2
<1>4. QED
  BY <1>1, <1>2, <1>3

(* As long as no object of the second word was given back, the allocator   *)
(* refuses exactly when as many objects are in use as a word has bits, the *)
(* header's apart: 63 of the 127 that the page has room for.               *)
THEOREM HalfThePage == Spec => []Capacity
<1>1. ASSUME IInv, ~highFreed
      PROVE  Full <=> Cardinality(live) = WordBits - 1
  <2>1. /\ live \subseteq Reachable
        /\ \A b \in Words, i \in IntShifts :
             i \in bitmap[b] <=> SlotOf(b, i) \in live \cup {Header}
    BY <1>1 DEF IInv, BitmapExact, Reachable
  <2>2. Full <=> \A b \in Words, i \in IntShifts : i \in bitmap[b]
    BY <1>1, WordFull DEF IInv, Full
  <2>3. Full <=> Reachable \subseteq live
    BY <2>1, <2>2 DEF Reachable
  <2>4. Full <=> live = Reachable
    BY <2>1, <2>3
  <2>5. Cardinality(Reachable) = Cardinality(live) => Reachable = live
    <3>1. live \in SUBSET Reachable
      BY <2>1
    <3>2. QED
      BY <3>1, ReachableCount, FS_Subset, Zenon
  <2>6. QED
    BY <2>4, <2>5, ReachableCount
<1>2. IInv => Capacity
  BY <1>1 DEF Capacity
<1>3. QED
  BY <1>2, Invariant, PTL

HIDE IntBitsAssumption DEF IntBitsAssumption

-----------------------------------------------------------------------------
(* The heap, for every size of a header, of the heap and of the requests.  *)

USE MallocAssumption DEF MallocAssumption

Whole(n) == \E k \in Nat : n = k * HeaderBytes
Below(x, a) == x.at + x.size <= a

(* The ring is the one block at the end of the heap, until it is used up;  *)
(* its size is a whole number of headers.                                  *)
OneBlock ==
  hdr # NULL =>
    /\ hdr \in DOMAIN header /\ header[hdr].next = hdr
    /\ header[hdr].size \in Nat /\ Whole(header[hdr].size)
    /\ hdr + header[hdr].size = HeapBytes
    /\ \A a \in DOMAIN header : a <= hdr
    /\ \A x \in handed : Below(x, hdr)

(* What was handed out lies in the heap, apart from the rest of it.        *)
Apart ==
  /\ \A x \in handed : HeaderBytes <= x.at /\ Below(x, HeapBytes + HeaderBytes)
  /\ \A x, y \in handed : x # y => Below(x, y.at) \/ Below(y, x.at)
  /\ \A x \in handed : \A a \in DOMAIN header : Below(x, a) \/ Payload(a) <= x.at

Types ==
  /\ DOMAIN header \subseteq Nat
  /\ \A a \in DOMAIN header : header[a] = [size |-> header[a].size, next |-> header[a].next]
  /\ handed \subseteq [at : Nat, size : Nat]
  /\ hdr \in Nat \cup {NULL}

HeapInv == Types /\ OneBlock /\ Apart

(* What the remainder by the size of a header leaves.                      *)
LEMMA Quotient ==
  ASSUME NEW n \in Nat
  PROVE  /\ n \div HeaderBytes \in Nat /\ n % HeaderBytes \in 0 .. HeaderBytes - 1
         /\ n = (n \div HeaderBytes) * HeaderBytes + (n % HeaderBytes)
OBVIOUS

(* A request is rounded up to the next whole number of headers.            *)
LEMMA RoundedUp ==
  ASSUME NEW sz \in Nat
  PROVE  Rounded(sz) \in Nat /\ sz <= Rounded(sz) /\ Whole(Rounded(sz))
<1> DEFINE q == sz \div HeaderBytes  r == sz % HeaderBytes
<1>1. q \in Nat /\ r \in 0 .. HeaderBytes - 1 /\ sz = q * HeaderBytes + r
  BY Quotient
<1>2. CASE r = 0
  <2>1. Rounded(sz) = sz /\ sz = q * HeaderBytes
    BY <1>1, <1>2 DEF Rounded
  <2> QED BY <2>1, <1>1 DEF Whole
<1>3. CASE r # 0
  <2>1. Rounded(sz) = sz + HeaderBytes - r
    BY <1>3 DEF Rounded
  <2>2. sz + HeaderBytes - r = (q + 1) * HeaderBytes
    <3> HIDE DEF q, r
    <3> QED BY <1>1
  <2> HIDE DEF q, r
  <2>3. Whole(sz + HeaderBytes - r)
    <3>1. q + 1 \in Nat
      BY <1>1
    <3> QED BY <3>1, <2>2 DEF Whole
  <2> QED BY <1>1, <2>1, <2>3
<1> QED BY <1>2, <1>3

(* A block larger than a rounded request has room for another header.      *)
LEMMA RoomForHeader ==
  ASSUME NEW m \in Nat, NEW n \in Nat, Whole(m), Whole(n), n < m
  PROVE  m - n - HeaderBytes \in Nat /\ Whole(m - n - HeaderBytes)
<1>1. PICK j, k \in Nat : m = j * HeaderBytes /\ n = k * HeaderBytes
  BY DEF Whole
<1>2. j > k
  BY <1>1
<1>3. PICK d \in Nat : j = k + 1 + d
  <2>1. j - k - 1 \in Nat /\ j = k + 1 + (j - k - 1)
    BY <1>2
  <2> QED BY <2>1
<1>4. m - n - HeaderBytes = d * HeaderBytes
  BY <1>1, <1>3
<1>5. d * HeaderBytes \in Nat
  OBVIOUS
<1> QED BY <1>4, <1>5 DEF Whole

(* The first malloc's heap is one block that is a whole number of headers. *)
LEMMA HeapStarts ==
  ASSUME InitHeap
  PROVE  HeapInv
<1>1. Whole(HeapBytes)
  <2>1. HeapBytes = (HeapBytes \div HeaderBytes) * HeaderBytes /\ HeapBytes \div HeaderBytes \in Nat
    BY Quotient
  <2> QED BY <2>1 DEF Whole
<1> QED BY <1>1 DEF InitHeap, HeapInv, Types, OneBlock, Apart

(* A block that fits exactly is the whole ring.                            *)
LEMMA TakeWholeKeeps ==
  ASSUME HeapInv, NEW sz \in Nat, hdr # NULL, TakeWhole(sz)
  PROVE  HeapInv'
<1> DEFINE x == [at |-> Payload(hdr), size |-> sz]
<1>1. /\ hdr \in Nat /\ hdr \in DOMAIN header /\ header[hdr].next = hdr
      /\ header[hdr].size = Rounded(sz) /\ hdr' = NULL /\ header' = header
      /\ handed' = handed \cup {x}
  BY DEF HeapInv, Types, OneBlock, TakeWhole, Hand
<1>2. Rounded(sz) \in Nat /\ sz <= Rounded(sz)
  BY RoundedUp
<1>3. /\ x.at = hdr + HeaderBytes /\ x.size = sz /\ x \in [at : Nat, size : Nat]
  BY <1>1 DEF Payload
<1>4. hdr + Rounded(sz) = HeapBytes /\ Below(x, HeapBytes + HeaderBytes)
  BY <1>1, <1>2, <1>3 DEF HeapInv, OneBlock, Below
<1>5. \A y \in handed : y \in [at : Nat, size : Nat] /\ Below(y, hdr)
  BY <1>1 DEF HeapInv, Types, OneBlock
<1>6. \A a \in DOMAIN header : a \in Nat /\ a <= hdr
  BY <1>1 DEF HeapInv, Types, OneBlock
<1> HIDE DEF x
<1>7. Types' /\ OneBlock'
  BY <1>1, <1>3 DEF HeapInv, Types, OneBlock
<1>8. Apart'
  <2>1. \A y \in handed' : HeaderBytes <= y.at /\ Below(y, HeapBytes + HeaderBytes)
    BY <1>1, <1>3, <1>4 DEF HeapInv, Apart
  <2>2. \A y \in handed : Below(y, x.at)
    BY <1>1, <1>3, <1>5 DEF Below
  <2>3. \A y, z \in handed' : y # z => Below(y, z.at) \/ Below(z, y.at)
    BY <1>1, <2>2 DEF HeapInv, Apart
  <2>4. \A a \in DOMAIN header' : Payload(a) <= x.at
    BY <1>1, <1>3, <1>6 DEF Payload
  <2>5. \A y \in handed' : \A a \in DOMAIN header' : Below(y, a) \/ Payload(a) <= y.at
    BY <1>1, <2>4 DEF HeapInv, Apart
  <2> QED BY <2>1, <2>3, <2>5 DEF Apart
<1> QED BY <1>7, <1>8 DEF HeapInv

(* A larger block is cut in two; the rest, with its header, is the ring.   *)
LEMMA SplitKeeps ==
  ASSUME HeapInv, NEW sz \in Nat, hdr # NULL, Split(sz)
  PROVE  HeapInv'
<1> DEFINE x == [at |-> Payload(hdr), size |-> sz]
           n == Rounded(sz)
           rest == Payload(hdr) + n
           m == header[hdr].size
<1>1. /\ hdr \in Nat /\ hdr \in DOMAIN header /\ header[hdr].next = hdr
      /\ m \in Nat /\ Whole(m) /\ hdr + m = HeapBytes /\ n < m
      /\ hdr' = rest /\ handed' = handed \cup {x}
  BY DEF HeapInv, Types, OneBlock, Split, Hand
<1>2. n \in Nat /\ sz <= n /\ Whole(n)
  BY RoundedUp
<1>3. m - n - HeaderBytes \in Nat /\ Whole(m - n - HeaderBytes)
  <2> HIDE DEF m, n
  <2> QED BY <1>1, <1>2, RoomForHeader
<1>4. rest \in Nat /\ rest = hdr + HeaderBytes + n /\ rest # hdr /\ hdr <= rest
  BY <1>1, <1>2 DEF Payload
<1>5. header' = With([a \in {hdr, rest} |->
                  IF a = rest THEN [size |-> m - n - HeaderBytes, next |-> rest]
                  ELSE [size |-> n, next |-> header[a].next]])
  BY <1>1, <1>4 DEF Split, Rest
<1>6. /\ DOMAIN header' = DOMAIN header \cup {hdr, rest}
      /\ header'[rest] = [size |-> m - n - HeaderBytes, next |-> rest]
      /\ \A a \in DOMAIN header' :
           header'[a] = [size |-> header'[a].size, next |-> header'[a].next]
  <2>1. \A a \in DOMAIN header : header[a] = [size |-> header[a].size, next |-> header[a].next]
    BY DEF HeapInv, Types
  <2> HIDE DEF m, n, rest
  <2> QED BY <1>1, <1>5, <2>1 DEF With
<1>7. /\ x.at = hdr + HeaderBytes /\ x.size = sz /\ x \in [at : Nat, size : Nat]
  BY <1>1 DEF Payload
<1>8. \A y \in handed : y \in [at : Nat, size : Nat] /\ Below(y, hdr)
  BY <1>1 DEF HeapInv, Types, OneBlock
<1>9. \A a \in DOMAIN header : a \in Nat /\ a <= hdr
  BY <1>1 DEF HeapInv, Types, OneBlock
<1> HIDE DEF x, n, rest, m
<1>10. Below(x, rest)
  BY <1>1, <1>2, <1>4, <1>7 DEF Below
<1>11. rest + (m - n - HeaderBytes) = HeapBytes /\ rest <= HeapBytes
  BY <1>1, <1>2, <1>3, <1>4
<1>12. Types'
  <2>1. hdr' \in Nat
    BY <1>1, <1>4
  <2>2. DOMAIN header' \subseteq Nat
    BY <1>1, <1>4, <1>6, <1>9
  <2>3. handed' \subseteq [at : Nat, size : Nat]
    BY <1>1, <1>7 DEF HeapInv, Types
  <2> QED BY <1>6, <2>1, <2>2, <2>3 DEF Types
<1>13. OneBlock'
  <2>1. \A a \in DOMAIN header' : a <= rest
    BY <1>1, <1>4, <1>6, <1>9
  <2>2. \A y \in handed' : Below(y, rest)
    BY <1>1, <1>4, <1>8, <1>10 DEF Below
  <2> QED BY <1>1, <1>3, <1>6, <1>11, <2>1, <2>2 DEF OneBlock
<1>14. Apart'
  <2>1. \A y \in handed' : HeaderBytes <= y.at /\ Below(y, HeapBytes + HeaderBytes)
    BY <1>1, <1>4, <1>7, <1>10, <1>11 DEF HeapInv, Apart, Below
  <2>2. \A y \in handed : Below(y, x.at) /\ Below(y, rest)
    BY <1>1, <1>4, <1>7, <1>8 DEF Below
  <2>3. \A y, z \in handed' : y # z => Below(y, z.at) \/ Below(z, y.at)
    BY <1>1, <2>2 DEF HeapInv, Apart
  <2>4. \A a \in DOMAIN header : Payload(a) <= x.at
    BY <1>1, <1>7, <1>9 DEF Payload
  <2>5. \A y \in handed' : \A a \in DOMAIN header' : Below(y, a) \/ Payload(a) <= y.at
    BY <1>1, <1>6, <1>10, <2>2, <2>4 DEF HeapInv, Apart
  <2> QED BY <2>1, <2>3, <2>5 DEF Apart
<1> QED BY <1>12, <1>13, <1>14 DEF HeapInv

(* The inductive invariant.                                                *)
LEMMA HeapInductive ==
  HeapSpec => []HeapInv
<1>1. InitHeap => HeapInv
  BY HeapStarts
<1>2. HeapInv /\ [\E sz \in Nat : malloc(sz)]_heapVars => HeapInv'
  <2> SUFFICES ASSUME HeapInv, [\E sz \in Nat : malloc(sz)]_heapVars PROVE HeapInv'
    OBVIOUS
  <2>1. CASE UNCHANGED heapVars
    BY <2>1 DEF HeapInv, Types, OneBlock, Apart, heapVars
  <2>2. ASSUME NEW sz \in Nat, malloc(sz) PROVE HeapInv'
    <3>1. CASE hdr = NULL /\ UNCHANGED heapVars
      BY <3>1, <2>1
    <3>2. CASE hdr # NULL /\ TakeWhole(sz)
      BY <3>2, TakeWholeKeeps
    <3>3. CASE hdr # NULL /\ Split(sz)
      BY <3>3, SplitKeeps
    <3>4. CASE hdr # NULL /\ TooSmall(sz)
      BY <3>4 DEF TooSmall, HeapInv, Types, OneBlock, Apart
    <3> QED BY <2>2, <3>1, <3>2, <3>3, <3>4 DEF malloc
  <2> QED BY <2>1, <2>2
<1> QED BY <1>1, <1>2, PTL DEF HeapSpec

(* No payload that malloc hands out shares a byte with another, with a     *)
(* header it still reads or with what is outside the heap (malloc.c).      *)
THEOREM PayloadsApart ==
  HeapSpec => []NoOverlap
<1>1. HeapInv => NoOverlap
  <2> SUFFICES ASSUME HeapInv PROVE NoOverlap
    OBVIOUS
  <2>1. ASSUME NEW x \in handed, NEW y \in handed, x # y
        PROVE  Span(x.at, x.size) \cap Span(y.at, y.size) = {}
    <3>1. /\ x.at \in Nat /\ x.size \in Nat /\ y.at \in Nat /\ y.size \in Nat
      BY DEF HeapInv, Types
    <3>2. Below(x, y.at) \/ Below(y, x.at)
      BY <2>1 DEF HeapInv, Apart
    <3> QED BY <3>1, <3>2 DEF Span, Below
  <2>2. ASSUME NEW x \in handed
        PROVE  /\ Span(x.at, x.size) \subseteq HeaderBytes .. HeapBytes + HeaderBytes - 1
               /\ \A a \in DOMAIN header : Span(x.at, x.size) \cap HeaderSpan(a) = {}
    <3>1. /\ x.at \in Nat /\ x.size \in Nat /\ DOMAIN header \subseteq Nat
      BY DEF HeapInv, Types
    <3>2. HeaderBytes <= x.at /\ Below(x, HeapBytes + HeaderBytes)
      BY DEF HeapInv, Apart
    <3>3. \A a \in DOMAIN header : Below(x, a) \/ Payload(a) <= x.at
      BY DEF HeapInv, Apart
    <3>4. Span(x.at, x.size) \subseteq HeaderBytes .. HeapBytes + HeaderBytes - 1
      BY <3>1, <3>2 DEF Span, Below
    <3>5. ASSUME NEW a \in DOMAIN header PROVE Span(x.at, x.size) \cap HeaderSpan(a) = {}
      <4>1. a \in Nat /\ (Below(x, a) \/ Payload(a) <= x.at)
        BY <3>1, <3>3
      <4> QED BY <3>1, <4>1 DEF Span, HeaderSpan, Below, Payload
    <3> QED BY <3>4, <3>5
  <2> QED BY <2>1, <2>2 DEF NoOverlap
<1> QED BY <1>1, HeapInductive, PTL

HIDE MallocAssumption DEF MallocAssumption

-----------------------------------------------------------------------------
(* The locks of the file tree, for every tree, every set of paths and every*)
(* number of programs.                                                     *)

Holders ==
  /\ owns = [p \in Procs |-> owns[p]]
  /\ OneHolder

(* What fs_aquire locks was not locked before: it gives 0 for a set bit.   *)
LEMMA AcquiredFresh ==
  ASSUME NEW fn, NEW cd, Lookup(fn, cd).lock
  PROVE  {Acquired(fn, cd)} \ {0} \subseteq {Lookup(fn, cd).node} \ locked
BY DEF Acquired

(* fs_aquire adds to what its caller owns only what nobody had locked.     *)
LEMMA AquireKeeps ==
  ASSUME Holders, NEW p \in Procs, NEW fn, NEW cd, fs_aquire(p, fn, cd)
  PROVE  Holders'
<1> DEFINE new == IF Lookup(fn, cd).lock THEN {Acquired(fn, cd)} \ {0} ELSE {}
<1>1. new \cap locked = {}
  BY AcquiredFresh
<1>2. /\ locked' = locked \cup new /\ owns' = [owns EXCEPT ![p] = @ \cup new] /\ loose' = loose
  BY DEF fs_aquire
<1> HIDE DEF new
<1>3. owns' = [q \in Procs |-> IF q = p THEN owns[p] \cup new ELSE owns[q]]
  BY <1>2 DEF Holders
<1>4. OneHolder'
  <2> SUFFICES ASSUME ~loose PROVE OneHolder'
    BY <1>2 DEF OneHolder
  <2>1. locked = UNION {owns[q] : q \in Procs}
    BY DEF Holders, OneHolder
  <2>2. locked' = UNION {owns'[q] : q \in Procs}
    BY <1>2, <1>3, <2>1
  <2>3. ASSUME NEW q \in Procs, NEW r \in Procs, q # r PROVE owns'[q] \cap owns'[r] = {}
    <3>1. owns[q] \cap owns[r] = {} /\ owns[q] \cap new = {} /\ owns[r] \cap new = {}
      BY <1>1, <2>1, <2>3 DEF Holders, OneHolder
    <3> QED BY <1>3, <2>3, <3>1
  <2> QED BY <2>2, <2>3 DEF OneHolder
<1> QED BY <1>3, <1>4 DEF Holders

(* fs_release clears the bit of one node, which its caller owned.          *)
LEMMA ReleaseKeeps ==
  ASSUME Holders, NEW p \in Procs, NEW n, fs_release(p, n)
  PROVE  Holders'
<1>1. owns' = [q \in Procs |-> IF q = p THEN owns[p] \ {n} ELSE owns[q]]
  BY DEF Holders, fs_release
<1>2. OneHolder'
  <2> SUFFICES ASSUME ~loose' PROVE OneHolder'
    BY DEF OneHolder
  <2>1. ~loose /\ n \in owns[p]
    BY DEF fs_release
  <2>2. locked = UNION {owns[q] : q \in Procs}
    BY <2>1 DEF Holders, OneHolder
  <2>3. \A q \in Procs : q # p => n \notin owns[q]
    BY <2>1 DEF Holders, OneHolder
  <2>4. locked' = locked \ {n}
    BY <2>1, <2>2 DEF fs_release
  <2>5. locked' = UNION {owns'[q] : q \in Procs}
    BY <1>1, <2>2, <2>3, <2>4
  <2>6. \A q, r \in Procs : q # r => owns'[q] \cap owns'[r] = {}
    BY <1>1, <2>1 DEF Holders, OneHolder
  <2> QED BY <2>5, <2>6 DEF OneHolder
<1> QED BY <1>1, <1>2 DEF Holders

(* Until a program releases what was not locked for it, a locked node has  *)
(* one holder, whatever paths the programs look up and in whatever order   *)
(* (fs_aquire, fs_release).                                                *)
THEOREM OneHolderEach ==
  ASSUME NEW tables, NEW paths
  PROVE  FsSpec(tables, paths) => []OneHolder
<1>1. InitFs(tables) => Holders
  BY DEF InitFs, Holders, OneHolder
<1>2. ASSUME Holders,
             [\E p \in Procs :
                \/ \E fn \in paths, cd \in given[p] \cup {0} : fs_aquire(p, fn, cd)
                \/ \E n \in given[p] : fs_release(p, n)]_fsVars
      PROVE  Holders'
  <2>1. CASE UNCHANGED fsVars
    BY <1>2, <2>1 DEF Holders, OneHolder, fsVars
  <2>2. ASSUME NEW p \in Procs, NEW fn \in paths, NEW cd, fs_aquire(p, fn, cd) PROVE Holders'
    BY <1>2, <2>2, AquireKeeps
  <2>3. ASSUME NEW p \in Procs, NEW n, fs_release(p, n) PROVE Holders'
    BY <1>2, <2>3, ReleaseKeeps
  <2> QED BY <1>2, <2>1, <2>2, <2>3
<1>3. Holders => OneHolder
  BY DEF Holders
<1> QED BY <1>1, <1>2, <1>3, PTL DEF FsSpec
=============================================================================
