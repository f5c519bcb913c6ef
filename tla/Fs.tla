--------------------------------- MODULE Fs ---------------------------------
(***************************************************************************)
(* kernel/src/fs.c with lock.asm and the reading half of ata.c: a tree of  *)
(* nodes in the one node table the boot loader left in memory, files as    *)
(* extents of the disk, and a lock bit in each node that is taken by       *)
(* fs_aquire and given back by fs_release, in system calls of their own.   *)
(* System calls run with interrupts disabled: each is one step.            *)
(***************************************************************************)
EXTENDS DiskBlocks, Sequences

CONSTANTS
  Procs,          \* programs that use files
  SectsPerBlock,  \* SECTS_PER_BLOCK (8)
  MaxSectors,     \* sectors the controller's count can tell apart (0x100)
  UintSize, UlongSize    \* 2^32, 2^64

VARIABLES
  fst,      \* first node table: node pointer -> node
  disk,     \* block -> what is written there
  locked,   \* the nodes whose LOCK_BIT is set
  given,    \* history: the handles a program was ever given
  owns,     \* history: the handles whose bit a program has set and not cleared
  loose,    \* history: a program released a handle that was not locked for it
  astray    \* history: a lookup followed a link that is no node pointer

fsVars == <<fst, disk, locked, given, owns, loose, astray>>

-----------------------------------------------------------------------------
(* Looking up a path.                                                      *)

None  == [node |-> 0, lock |-> FALSE, wild |-> FALSE]
Lost  == [None EXCEPT !.wild = TRUE]

(* The characters of the string nodes from n on; FALSE marks a wild link.  *)
NameAt(n) ==
  LET chars[m \in DOMAIN fst] ==
        fst[m].str \o (CASE fst[m].next = 0 -> <<>>
                         [] fst[m].next \in DOMAIN fst -> chars[fst[m].next]
                         [] OTHER -> <<"wild">>)
  IN  chars[n]

(* strncmp of every string node with the path from position `at' on.       *)
Matches(fn, at, name) ==
  \A i \in 1 .. Len(name) : name[i] = "wild" \/ (at + i - 1 <= Len(fn) /\ fn[at + i - 1] = name[i])

(* A call with a path that begins with `/' goes to the root, any other to  *)
(* the handle cd.  Inside: the end of the path means the directory itself, *)
(* else its entries are compared.                                          *)
From(fn, cd, at) ==
  IF at <= Len(fn) /\ fn[at] = "/" THEN [dir |-> fst[0].root, at |-> at + 1]
  ELSE [dir |-> cd, at |-> at]

(* Variant: the rest of a path is always looked up from the directory      *)
(* found, a second slash or not.                                           *)
LookupBelow(fn, cd) ==
  LET walk[h \in DOMAIN fst, at \in 1 .. Len(fn) + 1, inside \in BOOLEAN] ==
        LET name == NameAt(fst[h].name)
            end  == at + Len(name)
        IN  CASE inside /\ (h = 0 \/ at > Len(fn)) -> [None EXCEPT !.node = h]
              [] inside /\ h # 0 /\ at <= Len(fn) ->
                   IF fst[h].type # "dir" \/ fst[h].first = 0 THEN None ELSE walk[fst[h].first, at, FALSE]
              [] ~inside /\ Matches(fn, at, name) /\ end > Len(fn) -> [None EXCEPT !.node = h, !.lock = TRUE]
              [] ~inside /\ Matches(fn, at, name) /\ end <= Len(fn) /\ fn[end] = "/" ->
                   IF fst[h].type # "dir" THEN None ELSE walk[h, end + 1, TRUE]
              [] OTHER -> IF fst[h].next = 0 THEN None ELSE walk[fst[h].next, at, FALSE]
      begin == From(fn, cd, 1)
  IN  walk[begin.dir, begin.at, TRUE]

(* The loop and the recursion of fs_aquire.  An entry whose name is        *)
(* followed by `/' must be a directory, and the rest of the path is looked *)
(* up by a call of its own, with the directory for cd: a second slash      *)
(* leads back to the root.  An entry at the end of the path is to be       *)
(* locked, a directory found by the end of the path inside it is not.      *)
Lookup(fn, cd) ==
  LET walk[h \in DOMAIN fst, at \in 1 .. Len(fn) + 1, inside \in BOOLEAN] ==
        LET name  == NameAt(fst[h].name)
            end   == at + Len(name)
            match == Matches(fn, at, name)
            sub   == From(fn, h, end + 1)
        IN  CASE inside /\ (h = 0 \/ at > Len(fn)) -> [None EXCEPT !.node = h]
              [] inside /\ h # 0 /\ at <= Len(fn) ->
                   IF fst[h].type # "dir" \/ fst[h].first = 0 THEN None
                   ELSE walk[fst[h].first, at, FALSE]
              [] ~inside /\ match /\ "wild" \in {name[i] : i \in DOMAIN name} -> Lost
              [] ~inside /\ match /\ end > Len(fn) -> [None EXCEPT !.node = h, !.lock = TRUE]
              [] ~inside /\ match /\ end <= Len(fn) /\ fn[end] = "/" ->
                   IF fst[h].type # "dir" THEN None ELSE walk[sub.dir, sub.at, TRUE]
              [] OTHER -> IF fst[h].next = 0 THEN None ELSE walk[fst[h].next, at, FALSE]
      begin == From(fn, cd, 1)
  IN  walk[begin.dir, begin.at, TRUE]

(* What fs_aquire returns: 0 as well when the bit is set already.          *)
Acquired(fn, cd) ==
  LET r == Lookup(fn, cd) IN IF r.lock /\ r.node \in locked THEN 0 ELSE r.node

-----------------------------------------------------------------------------
(* Reading.                                                                *)

(* The controller is told the number of sectors in eight bits, 0 for all   *)
(* of them; ata_read waits for no more data and takes what is there.       *)
ata_read(lba, blocks) ==
  LET sectors == IF (blocks * SectsPerBlock) % MaxSectors = 0 THEN MaxSectors
                 ELSE (blocks * SectsPerBlock) % MaxSectors
  IN  [i \in 1 .. blocks |->
         IF i * SectsPerBlock <= sectors /\ lba + i - 1 \in DOMAIN disk
         THEN disk[lba + i - 1] ELSE Nothing]

(* The loop over the extents of a file.  An extent is entered when the     *)
(* offset is not past it; what is then subtracted is the address on disk.  *)
ReadFrom(n, max, offset) ==
  LET read[d \in DOMAIN fst, m \in Nat, o \in Nat] ==
        LET skip == fst[d].blocks < o
            size == IF m > fst[d].blocks THEN fst[d].blocks ELSE m
            got  == IF skip THEN <<>> ELSE ata_read(fst[d].lba + o, size)
            left == m - Len(got)
            o2   == IF skip THEN o - fst[d].blocks ELSE (-fst[d].lba) % UlongSize
        IN  IF left = 0 \/ fst[d].next = 0 THEN got ELSE got \o read[fst[d].next, left, o2]
  IN  IF max = 0 THEN <<>> ELSE read[n, max, offset]

(* A file without data: the header of the table is taken for its extent.   *)
fs_read(h, max, offset) ==
  CASE fst[h].type # "file" -> <<>>
    [] fst[h].type = "file" /\ fst[h].first # 0 -> ReadFrom(fst[h].first, max, offset)
    [] OTHER -> [i \in 1 .. max |-> Nothing]

(* Variant: the last block counted as full. *)
SizeInBlocks(h) ==
  IF fst[h].type = "file" /\ fst[h].first # 0 THEN fst[fst[h].first].blocks * PageBytes ELSE 0

(* The sum over the extents of full blocks and the bytes of the last one,  *)
(* in unsigned ints: an empty extent's -1 blocks and its full last block   *)
(* cancel out.                                                             *)
fs_get_size(h) ==
  LET sum[d \in DOMAIN fst] ==
        (((fst[d].blocks - 1) * PageBytes + fst[d].last) % UintSize)
          + (IF fst[d].next = 0 THEN 0 ELSE sum[fst[d].next])
  IN  IF fst[h].type = "file" /\ fst[h].first # 0 THEN sum[fst[h].first] ELSE 0

-----------------------------------------------------------------------------
(* The system calls that change something.                                 *)

InitFs(tables) ==
  /\ \E t \in tables : fst = t.fst /\ disk = t.disk
  /\ locked = {} /\ loose = FALSE /\ astray = FALSE
  /\ given = [p \in Procs |-> {}] /\ owns = [p \in Procs |-> {}]

(* Variant: a set bit is not looked at. *)
fs_aquire_always(p, fn, cd) ==
  LET r == Lookup(fn, cd)
  IN  /\ astray' = (astray \/ r.wild)
      /\ locked' = IF r.lock THEN locked \cup {r.node} ELSE locked
      /\ owns'   = IF r.lock THEN [owns EXCEPT ![p] = @ \cup {r.node}] ELSE owns
      /\ given'  = [given EXCEPT ![p] = @ \cup ({r.node} \ {0})]
      /\ UNCHANGED <<fst, disk, loose>>

fs_aquire(p, fn, cd) ==
  LET r   == Lookup(fn, cd)
      h   == Acquired(fn, cd)
      new == IF r.lock THEN {h} \ {0} ELSE {}
  IN  /\ astray' = (astray \/ r.wild)
      /\ locked' = locked \cup new
      /\ owns'   = [owns EXCEPT ![p] = @ \cup new]
      /\ given'  = [given EXCEPT ![p] = @ \cup ({h} \ {0})]
      /\ UNCHANGED <<fst, disk, loose>>

(* Variant: the bit is set, not complemented. *)
fs_release_sets(p, h) ==
  /\ locked' = locked \cup {h}
  /\ owns'   = [owns EXCEPT ![p] = @ \ {h}]
  /\ loose'  = (loose \/ h \notin owns[p])
  /\ UNCHANGED <<fst, disk, given, astray>>

(* unlock complements the bit.                                             *)
fs_release(p, h) ==
  /\ locked' = IF h \in locked THEN locked \ {h} ELSE locked \cup {h}
  /\ owns'   = [owns EXCEPT ![p] = @ \ {h}]
  /\ loose'  = (loose \/ h \notin owns[p])
  /\ UNCHANGED <<fst, disk, given, astray>>

(* The programs' calls, each with a path and a directory of its choice and *)
(* with the handles it was given.                                          *)
FsSpec(tables, paths) ==
  /\ InitFs(tables)
  /\ [][\E p \in Procs :
           \/ \E fn \in paths, cd \in given[p] \cup {0} : fs_aquire(p, fn, cd)
           \/ \E n \in given[p] : fs_release(p, n)]_fsVars

(* As long as nobody releases what was not locked for him - a handle got   *)
(* by a path that ends in `/', or one released before - a node is held by  *)
(* one program, and a locked node by exactly one.                          *)
OneHolder ==
  ~loose => /\ locked = UNION {owns[p] : p \in Procs}
            /\ \A p, q \in Procs : p # q => owns[p] \cap owns[q] = {}
=============================================================================
