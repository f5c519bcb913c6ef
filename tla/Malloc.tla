------------------------------- MODULE Malloc -------------------------------
(***************************************************************************)
(* lib/cstd/src/malloc.c: the heap of one program.  A block is a header of *)
(* HeaderBytes with its payload behind it; an address is that of a header. *)
(* free returns at once (the rest of it is dead code), so the ring of free *)
(* blocks that starts as one block stays one until it is used up.          *)
(***************************************************************************)
EXTENDS Integers

CONSTANTS
  HeaderBytes,  \* sizeof(header) (16)
  HeapBytes,    \* the size of the first block (0x100000)
  NULL

ASSUME MallocAssumption ==
  /\ HeaderBytes \in Nat \ {0}
  /\ HeapBytes \in Nat /\ HeapBytes % HeaderBytes = 0
  /\ NULL \notin Int

VARIABLES
  hdr,      \* the last free block of the ring, NULL for none
  header,   \* the headers in memory: address -> [size, next]
  hung,     \* malloc does not return
  handed    \* history: the payloads handed out, [at, size] as asked for

heapVars == <<hdr, header, hung, handed>>

-----------------------------------------------------------------------------

Rounded(sz) ==
  IF sz % HeaderBytes = 0 THEN sz ELSE sz + HeaderBytes - (sz % HeaderBytes)

Payload(a) == a + HeaderBytes

InitHeap ==
  /\ hdr = 0
  /\ header = [a \in {0} |-> [size |-> HeapBytes, next |-> 0]]
  /\ hung = FALSE /\ handed = {}

(* The header array with the entries of f in place of its own.             *)
With(f) == [a \in DOMAIN header \cup DOMAIN f |-> IF a \in DOMAIN f THEN f[a] ELSE header[a]]

Hand(a, sz) == handed' = handed \cup {[at |-> Payload(a), size |-> sz]} /\ UNCHANGED hung

(* The block fits: it leaves the ring, which was this one block or has the *)
(* one before it as its new start.                                         *)
TakeWhole(sz) ==
  LET cur == header[hdr].next
  IN  /\ header[cur].size = Rounded(sz)
      /\ IF header[cur].next = cur THEN hdr' = NULL /\ UNCHANGED header
         ELSE /\ header' = [header EXCEPT ![hdr].next = header[cur].next]
              /\ UNCHANGED hdr
      /\ Hand(cur, sz)

(* Variant: the new header starts where the payload ends, but its own      *)
(* bytes are not taken off the rest.                                       *)
RestForgets(size, n) == size - n

(* Variant: a second header is taken off. *)
RestTwice(size, n) == size - n - 2 * HeaderBytes

(* What is left for the payload of the rest.                               *)
Rest(size, n) == size - n - HeaderBytes

(* The block is larger: its end becomes a block of its own.                *)
Split(sz) ==
  LET cur  == header[hdr].next
      rest == Payload(cur) + Rounded(sz)
  IN  /\ header[cur].size > Rounded(sz)
      /\ hdr' = rest
      /\ header' = With([a \in {cur, hdr, rest} |->
                      IF a = rest
                      THEN [size |-> Rest(header[cur].size, Rounded(sz)),
                            next |-> IF hdr # cur THEN header[cur].next ELSE rest]
                      ELSE [size |-> IF a = cur THEN Rounded(sz) ELSE header[a].size,
                            next |-> IF a = hdr /\ hdr # cur THEN rest ELSE header[a].next]])
      /\ Hand(cur, sz)

(* Too small: the loop goes on while the next block is the first of the    *)
(* ring, so it never ends with one block and gives up with more.           *)
TooSmall(sz) ==
  LET cur == header[hdr].next
  IN  /\ header[cur].size < Rounded(sz)
      /\ hung' = (header[cur].next = header[hdr].next)
      /\ UNCHANGED <<hdr, header, handed>>

malloc(sz) ==
  /\ ~hung
  /\ \/ hdr = NULL /\ UNCHANGED heapVars
     \/ hdr # NULL /\ (TakeWhole(sz) \/ Split(sz) \/ TooSmall(sz))

(* Where malloc(sz) will put the payload, NULL for nowhere.                *)
Place(sz) ==
  IF hdr # NULL /\ header[header[hdr].next].size >= Rounded(sz)
  THEN Payload(header[hdr].next) ELSE NULL

HeapSpec == InitHeap /\ [][\E sz \in Nat : malloc(sz)]_heapVars

-----------------------------------------------------------------------------
(* The bytes of the payloads handed out and of the headers.                *)
Span(at, size) == at .. at + size - 1
HeaderSpan(a)  == Span(a, HeaderBytes)

(* No payload shares a byte with another, with a header that malloc still  *)
(* reads or writes, or with what lies outside the heap.                    *)
NoOverlap ==
  /\ \A x, y \in handed : x # y => Span(x.at, x.size) \cap Span(y.at, y.size) = {}
  /\ \A x \in handed :
       /\ Span(x.at, x.size) \subseteq HeaderBytes .. HeapBytes + HeaderBytes - 1
       /\ \A a \in DOMAIN header : Span(x.at, x.size) \cap HeaderSpan(a) = {}
=============================================================================
