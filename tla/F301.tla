-------------------------------- MODULE F301 --------------------------------
(***************************************************************************)
(* util/f301_builder/src/fs.c: the disk image made from parsed entries.    *)
(* The builder's state is a record b: the nodes made so far, the next free *)
(* entry of the current node table, the upper bits of its node pointers,   *)
(* its block, the next free block of the image, and `at', the node made    *)
(* last.  A host file is a name with a size in bytes.                      *)
(***************************************************************************)
EXTENDS DiskBlocks, Sequences, FiniteSets, TLC

CONSTANTS
  TblEntries,    \* nodes of a table, the header at its start included (0x100)
  StrChars,      \* STR_CHARS_PER_NODE (18)
  Spell,         \* name -> its characters
  NoFile,        \* a host file that cannot be opened
  Unset,         \* a byte that nobody wrote
  Wild           \* a host pointer written where a node pointer belongs

Empty == [nodes |-> << >>, entry |-> TblEntries, high |-> -TblEntries, lba |-> 0, tables |-> 0,
          cur |-> 1, at |-> 0,
          root |-> 0, predir |-> 0, unused |-> 0]

(* Variant: the second copy of a table gets no block. *)
AllocOneBlock(b, count) == [b EXCEPT !.cur = @ + (IF count = 2 THEN 1 ELSE count)]

alloc_blocks(b, count) == [b EXCEPT !.cur = @ + count]

(* A node pointer; a full table (or none) is followed by a new one, two    *)
(* blocks for it and its copy.                                             *)
new_node(b) ==
  LET t == IF b.entry < TblEntries THEN b
           ELSE [alloc_blocks(b, 2) EXCEPT !.entry = 1, !.lba = b.cur, !.high = @ + TblEntries,
                                           !.tables = @ + 1]
  IN  [t EXCEPT !.entry = @ + 1, !.at = t.high + t.entry]

(* The permissions of an entry are never set: what was parsed is dropped,  *)
(* and the byte on disk is whatever malloc's memory held.                  *)
Node(type) == [type |-> type, perm |-> Unset, owner |-> "0", name |-> 0, first |-> 0, next |-> 0,
               parent |-> 0, blocks |-> 0, lba |-> 0, last |-> 0, str |-> <<>>, actual |-> ""]

Put(b, n, node) == [b EXCEPT !.nodes = (n :> node) @@ @, !.at = n]

(* One extent for the whole file; an empty one has no block and a "last"   *)
(* block that is full.  The node is made even when the file is missing.    *)
alloc_blocks_for_file(b, size) ==
  LET n == new_node(b)
      count == InBlocks(size)
  IN  IF size = NoFile THEN [n EXCEPT !.at = 0]
      ELSE Put(alloc_blocks(n, count), n.at,
               [Node("data") EXCEPT !.blocks = count, !.lba = n.cur,
                  !.last = IF size % PageBytes = 0 THEN PageBytes ELSE size % PageBytes])

RECURSIVE make_string(_, _), add_fs_entry_h(_, _, _, _)

make_string(b, str) ==
  LET n    == new_node(b)
      more == make_string(n, SubSeq(str, StrChars + 1, Len(str)))
  IN  IF Len(str) > StrChars
      THEN Put(more, n.at, [Node("string") EXCEPT !.str = SubSeq(str, 1, StrChars), !.next = more.at])
      ELSE Put(n, n.at, [Node("string") EXCEPT !.str = str])

TypeOf(ps) == CASE ps.type = "f" -> "file" [] ps.type = "d" -> "dir" [] ps.type = "i" -> "indirect"

(* An entry and the entries after it in its directory.  A file's data come *)
(* after its siblings, a directory's contents before them.                 *)
add_fs_entry_h(b, list, parent, host) ==
  LET ps      == Head(list)
      none(x) == [x EXCEPT !.at = 0]
      made    == new_node(b)
      named   == make_string(made, Spell[ps.name])
      inner   == CASE ps.type = "d" /\ ps.contents # <<>> ->
                        add_fs_entry_h(named, ps.contents, made.at, host)
                   [] ps.type = "i" -> make_string(named, Spell[ps.dest])
                   [] OTHER -> none(named)
      after   == IF Len(list) > 1 THEN add_fs_entry_h(inner, Tail(list), parent, host)
                 ELSE none(inner)
      data    == IF ps.type = "f" THEN alloc_blocks_for_file(after, host[ps.actual]) ELSE after
  IN  Put(data, made.at,
          [Node(TypeOf(ps)) EXCEPT
             !.owner = ps.owner, !.name = named.at, !.next = after.at, !.actual = ps.actual,
             !.first = IF ps.type = "f" THEN data.at ELSE inner.at,
             !.parent = IF parent = 0 THEN made.at ELSE parent])

(* The builder stops at an entry that is wrong or has no place.            *)
Stray(tops) ==
  \E i \in DOMAIN tops : tops[i].error \/ tops[i].type # "d" \/ tops[i].name \notin {"/", "@"}

(* The top directories, after a node that heads the unused space.          *)
RECURSIVE add_fs_entry(_, _, _)
add_fs_entry(b, tops, host) ==
  IF b.unused = 0
  THEN LET n == new_node(b)
       IN  add_fs_entry([Put(n, n.at, Node("data")) EXCEPT !.unused = n.at], tops, host)
  ELSE IF tops = <<>> THEN b
  ELSE LET top == Head(tops)
           n   == add_fs_entry_h(b, <<top>>, 0, host)
       IN  add_fs_entry(IF top.name = "/" THEN [n EXCEPT !.root = n.at]
                        ELSE [n EXCEPT !.predir = n.at], Tail(tops), host)

(* write_fs_h: the nodes reached from one.                                 *)
RECURSIVE Below(_, _)
Below(b, n) ==
  IF n = 0 THEN {} ELSE {n} \cup UNION {Below(b, b.nodes[n][f]) : f \in {"name", "first", "next"}}

(* A node as it is written.  The link between string nodes is the pointer  *)
(* of the builder's memory, not the node's number.                         *)
OnDisk(node) ==
  [node EXCEPT !.actual = "", !.next = IF node.type = "string" /\ @ # 0 THEN Wild ELSE @]

(* Only the last table's place is remembered, so an image of more tables   *)
(* is never finished, and none without both top directories.               *)
Finished(b) == b.tables = 1 /\ b.root # 0 /\ b.predir # 0

(* write_fs: the table, with the header in entry 0 ...                     *)
Table(b) ==
  [n \in {0, b.unused} \cup Below(b, b.root) \cup Below(b, b.predir) |->
     IF n = 0 THEN [root |-> b.root, predir |-> b.predir] ELSE OnDisk(b.nodes[n])]

(* ... and what is in each block: a table, its copy, a block of a file.    *)
(* A block written twice is of no use to either.                           *)
Blocks(b) ==
  LET files == {b.nodes[n] : n \in {m \in DOMAIN Table(b) : m # 0 /\ b.nodes[m].type = "file"}}
      parts == UNION {{<<f.actual, b.nodes[f.first].lba, i>> : i \in 0 .. b.nodes[f.first].blocks - 1} :
                        f \in {g \in files : g.first # 0}}
      all   == {<<"table", b.lba, 0>>, <<"table", b.lba, 1>>} \cup parts
      in(l) == {p \in all : p[2] + p[3] = l}
  IN  [l \in 0 .. b.cur - 1 |->
         IF Cardinality(in(l)) = 1 THEN LET p == CHOOSE p \in in(l) : TRUE IN <<p[1], p[3]>>
         ELSE Nothing]
=============================================================================
