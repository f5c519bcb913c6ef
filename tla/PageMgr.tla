------------------------------ MODULE PageMgr ------------------------------
(***************************************************************************)
(* The page manager, kernel/src/pagemgr.c: for physical pages and for      *)
(* kernel virtual pages, a list of free regions that alloc_pages searches  *)
(* first-fit and free_pages grows.                                         *)
(*                                                                         *)
(* alloc_pages takes a number of pages and multiplies it, in an unsigned   *)
(* int, by the page size; free_pages takes a number of bytes.  A region is *)
(* a kernel object, so a region that is used up gives an object back and a *)
(* region that is made needs one; when there is none alloc_kobj's NULL     *)
(* becomes the head of the list, and the list is gone.                     *)
(*                                                                         *)
(* Two callers free.  process.c gives physical pages up; ports.c gives     *)
(* back the first bytes of a message's buffer of kernel pages and goes on  *)
(* using the buffer, and may give bytes back at the same address again.    *)
(***************************************************************************)
EXTENDS Naturals, Sequences, SequencesExt, FiniteSetsExt

CONSTANTS
  PageSize,    \* bytes of a page: 0x1000
  UIntRange,   \* an unsigned int counts modulo this: 2^32
  Requests,    \* numbers of pages callers ask for
  MemoryMap,   \* the BIOS memory map, a sequence of [addr, size, usable]
  KernelSpace, \* the kernel's virtual pages, one region
  MaxObjects   \* bound: kernel objects, those of the regions included

Regions == [addr : Nat, size : Nat \ {0}, usable : BOOLEAN]

ASSUME PageMgrAssumption ==
  /\ PageSize \in Nat \ {0} /\ UIntRange \in Nat \ {0}
  /\ UIntRange % PageSize = 0
  /\ Requests \subseteq Nat
  /\ MemoryMap \in Seq(Regions)
  /\ MaxObjects \in Nat /\ MaxObjects > Len(MemoryMap)
  /\ KernelSpace \in Regions /\ KernelSpace.usable
  /\ KernelSpace.addr % PageSize = 0

(* The map describes each byte once, the entry at address 0 apart.         *)
ASSUME MapAssumption ==
  \A i, j \in DOMAIN MemoryMap :
    i # j /\ MemoryMap[i].addr # 0 /\ MemoryMap[j].addr # 0 =>
      \/ MemoryMap[i].addr + MemoryMap[i].size <= MemoryMap[j].addr
      \/ MemoryMap[j].addr + MemoryMap[j].size <= MemoryMap[i].addr

PHYS_PAGES  == 0
KVIRT_PAGES == 1
PageTypes   == {PHYS_PAGES, KVIRT_PAGES}

VARIABLES
  head,       \* for each type, the list of regions, first to last
  kobjs,      \* kernel objects not in use
  held,       \* history: chunks in use, as large as the caller asked
  overflowed, \* history: a request's size in bytes did not fit in a uint
  undercut    \* history: a page of a chunk that stays in use was freed

vars == <<head, kobjs, held, overflowed, undercut>>

-----------------------------------------------------------------------------

Span(addr, size) == {b \in addr .. addr + size : b < addr + size}

(* The kernel objects that are regions of the lists. *)
InUse == Len(head[PHYS_PAGES]) + Len(head[KVIRT_PAGES])

(* `sz *= 0x1000', in a uint. *)
InBytes(sz) == (sz * PageSize) % UIntRange

FitsAny(list, n) == {i \in DOMAIN list : list[i].size >= n}   \* variant

(* The usable regions a request of n bytes fits in, and the one that the   *)
(* walk from the head of the list stops at.                                *)
Fits(list, n)     == {i \in DOMAIN list : list[i].size >= n /\ list[i].usable}
FirstFit(list, n) == Min(Fits(list, n))

(* Variant: the region keeps its start although its front is taken.        *)
TakenInPlace(list, n) ==
  IF list[FirstFit(list, n)].size = n THEN RemoveAt(list, FirstFit(list, n))
  ELSE [list EXCEPT ![FirstFit(list, n)].size = @ - n]

(* The region's front is taken; a region that is used up leaves the list.  *)
Exact(list, n) == list[FirstFit(list, n)].size = n
Taken(list, n) ==
  LET i == FirstFit(list, n)
  IN  IF Exact(list, n) THEN RemoveAt(list, i)
      ELSE [list EXCEPT ![i].addr = @ + n, ![i].size = @ - n]

(* The regions that end where a chunk starts, or start where it ends.      *)
Neighbours(list, addr, size) ==
  {i \in DOMAIN list : \/ list[i].addr + list[i].size = addr
                       \/ addr + size = list[i].addr}

(* The first neighbour grows; if it ends at addr, at its end. *)
Grown(list, addr, size) ==
  LET i == Min(Neighbours(list, addr, size))
  IN  IF list[i].addr + list[i].size = addr
      THEN [list EXCEPT ![i].size = @ + size]
      ELSE [list EXCEPT ![i].size = @ + size, ![i].addr = addr]

-----------------------------------------------------------------------------

(* Variant: the map's entries are all taken over. *)
InitAll ==
  /\ head = [ty \in PageTypes |-> IF ty = PHYS_PAGES THEN MemoryMap ELSE <<KernelSpace>>]
  /\ kobjs = MaxObjects - InUse
  /\ held = {}
  /\ overflowed = FALSE
  /\ undercut = FALSE

(* The list init_page_mgr has made of the map's first n entries: it skips  *)
(* those at address 0, which no caller could tell from a failure.          *)
Listed[n \in 0 .. Len(MemoryMap)] ==
  IF n = 0 THEN <<>>
  ELSE IF MemoryMap[n].addr # 0 THEN Append(Listed[n - 1], MemoryMap[n])
  ELSE Listed[n - 1]

Init ==
  /\ head = [ty \in PageTypes |->
               IF ty = PHYS_PAGES THEN Listed[Len(MemoryMap)] ELSE <<KernelSpace>>]
  /\ kobjs = MaxObjects - InUse
  /\ held = {}
  /\ overflowed = FALSE
  /\ undercut = FALSE

alloc_pages(sz, ty) ==
  LET list == head[ty]
      n    == InBytes(sz)
  IN  /\ Fits(list, n) # {}
      /\ head' = [head EXCEPT ![ty] = Taken(list, n)]
      /\ kobjs' = IF Exact(list, n) THEN kobjs + 1 ELSE kobjs
      /\ held' = held \cup {[ty |-> ty, addr |-> list[FirstFit(list, n)].addr,
                             size |-> sz * PageSize]}
      /\ overflowed' = (overflowed \/ n # sz * PageSize)
      /\ UNCHANGED undercut

(* Who frees a chunk of physical pages is done with it (process.c), and    *)
(* may free less than all of it: the callers pass pages where bytes are    *)
(* meant.  receive (ports.c) frees a byte for each page of the buffer it   *)
(* has read past, at the buffer's start, and the buffer stays in use.      *)
GivenUp(h)    == h.ty = PHYS_PAGES
FreedSizes(h) == IF GivenUp(h) THEN 1 .. h.size ELSE 1 .. h.size \div PageSize

free_pages(h, size) ==
  LET list == head[h.ty]
  IN  /\ h \in held
      /\ held' = IF GivenUp(h) THEN held \ {h} ELSE held
      /\ undercut' = (undercut \/ (~GivenUp(h) /\ size >= PageSize))
      /\ UNCHANGED overflowed
      /\ \/ /\ Neighbours(list, h.addr, size) # {}
            /\ head' = [head EXCEPT ![h.ty] = Grown(list, h.addr, size)]
            /\ UNCHANGED kobjs
         \/ /\ Neighbours(list, h.addr, size) = {}
            /\ kobjs > 0
            /\ head' = [head EXCEPT ![h.ty] =
                          <<[addr |-> h.addr, size |-> size, usable |-> TRUE]>> \o @]
            /\ kobjs' = kobjs - 1
         \/ /\ Neighbours(list, h.addr, size) = {}
            /\ kobjs = 0
            /\ head' = [head EXCEPT ![h.ty] = <<>>]
            /\ UNCHANGED kobjs

(* The other components of the kernel allocate and free objects. *)
OtherObjects ==
  /\ kobjs' \in 0 .. MaxObjects - InUse
  /\ UNCHANGED <<head, held, overflowed, undercut>>

Next ==
  \/ \E sz \in Requests, ty \in PageTypes : alloc_pages(sz, ty)
  \/ \E h \in held : \E size \in FreedSizes(h) : free_pages(h, size)
  \/ OtherObjects

Spec == Init /\ [][Next]_vars

(* Executions followed up to the first request that overflows a uint.      *)
SpecToOverflow == Init /\ [][Next /\ (overflowed => OtherObjects)]_vars

-----------------------------------------------------------------------------
(***************************************************************************)
(* Properties.                                                             *)
(***************************************************************************)

(* The bytes of a region that can be handed out.  A request takes whole    *)
(* pages from a region's front, and the regions of kernel pages start on   *)
(* page boundaries: what is left over is never handed out.                 *)
Offered(ty, r)   == IF ty = PHYS_PAGES THEN r.size ELSE r.size - (r.size % PageSize)
OfferSpan(ty, r) == Span(r.addr, Offered(ty, r))
RegionSpan(r)    == Span(r.addr, r.size)

UsableSpan(ty, list) ==
  UNION {OfferSpan(ty, list[i]) : i \in {j \in DOMAIN list : list[j].usable}}

(* The map's entries that can be handed out from. *)
UsableEntries == {i \in DOMAIN MemoryMap : MemoryMap[i].usable /\ MemoryMap[i].addr # 0}

InitialUsable ==
  [ty \in PageTypes |->
     IF ty = PHYS_PAGES
     THEN UNION {OfferSpan(ty, MemoryMap[i]) : i \in UsableEntries}
     ELSE OfferSpan(ty, KernelSpace)]

(* No byte is on offer twice, in two chunks in use, or in use and on       *)
(* offer: two owners would overwrite each other.  It holds although what   *)
(* is given back is merged with the first neighbour found and although     *)
(* ports.c frees bytes of buffers it goes on using, time and again at the  *)
(* same address, as long as no request's size in bytes was cut off and the *)
(* bytes freed at once of a buffer in use did not amount to a page.        *)
NoOverlap ==
  ~overflowed /\ ~undercut =>
    \A ty \in PageTypes :
      LET list == head[ty]
          mine == {h \in held : h.ty = ty}
      IN  /\ \A i, j \in DOMAIN list :
               i # j => OfferSpan(ty, list[i]) \cap OfferSpan(ty, list[j]) = {}
          /\ \A g, h \in mine : g # h => RegionSpan(g) \cap RegionSpan(h) = {}
          /\ \A i \in DOMAIN list, h \in mine :
               OfferSpan(ty, list[i]) \cap RegionSpan(h) = {}

(* Regions lose and gain odd numbers of bytes, yet every chunk starts a    *)
(* whole number of pages from the start of memory that could be handed out *)
(* at first: on a page boundary if the map's usable entries do, as page_in *)
(* wants it when it masks addresses.  No physical chunk starts at address  *)
(* 0, which callers take for a failure.                                    *)
AlignedNotNull ==
  \A h \in held :
    IF h.ty = PHYS_PAGES
    THEN h.addr # 0 /\ \E i \in UsableEntries : h.addr % PageSize = MemoryMap[i].addr % PageSize
    ELSE h.addr % PageSize = 0

Pool == INSTANCE PagePool
          WITH Types <- PageTypes, Usable <- InitialUsable,
               pool <- [ty \in PageTypes |-> UsableSpan(ty, head[ty])]

(* Up to a request that overflows and to a page of a buffer in use that is *)
(* freed, the lists implement the abstract pool: what they hand out was on *)
(* offer and is not any more, and nothing of a chunk is offered again that *)
(* its holder did not give up.                                             *)
ImplementsPool == Pool!Init /\ [][Pool!Next \/ overflowed' \/ undercut']_(Pool!vars)
=============================================================================
