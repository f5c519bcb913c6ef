------------------------------ MODULE Startup ------------------------------
(***************************************************************************)
(* From the description of a disk image to running programs: f301_builder  *)
(* writes the image, the boot loader (boot2.asm) finds the kernel in it,   *)
(* kmain (kmain.c) reads the start program and start.c reads a list of     *)
(* programs and runs each.  Other programs use files at the same time.     *)
(***************************************************************************)
EXTENDS F301Parse, F301, Fs, Malloc, SequencesExt

CONSTANTS
  Configs,      \* name -> [decl, text, host, names, list]: the tree described, its
                \* description, the sizes of the host's files, the programs listed, the
                \* text of their list
  KernelName,   \* the first string node of the kernel file's name
  StartPath, ListPath, ListFile,
  Paths         \* what other programs look up

VARIABLES
  conf,         \* the name of the configuration the machine was built from
  pc,           \* where the machine, then start, is
  loaded,       \* what the boot loader and kmain read: kernel and start program
  h, sz, at, buf,   \* of read_file: handle, size, place for the contents, contents
  todo,         \* paths of the list that are not run yet
  started,      \* history: what exec_fbe was given
  contended     \* history: a file start wanted was locked

startVars == <<conf, pc, loaded, h, sz, at, buf, todo, started, contended>>
vars == <<startVars, fsVars, heapVars>>

Start  == "start"
Others == Procs \ {Start}

-----------------------------------------------------------------------------
(* The image a configuration gives, when the builder finishes.             *)

Tops(c)    == ParseAll(Configs[c].text, 1)
Builder(c) == add_fs_entry(Empty, Tops(c), Configs[c].host)
Sound(c)   == ~Stray(Tops(c)) /\ Finished(Builder(c))
Image(c)   == [fst |-> Table(Builder(c)), disk |-> Blocks(Builder(c))]

-----------------------------------------------------------------------------
(* boot2.asm looks for the kernel among the entries of the predirectory by *)
(* the first string node of their names and loads the blocks of its first  *)
(* extent; kmain loads one block of the start program.                     *)
KernelNode ==
  LET search[n \in DOMAIN fst] ==
        IF fst[fst[n].name].str = KernelName THEN n ELSE search[fst[n].next]
  IN  search[fst[fst[0].predir].first]

boot ==
  /\ pc = "boot" /\ pc' = "kmain"
  /\ LET d == fst[fst[KernelNode].first]
     IN  loaded' = [loaded EXCEPT !.kernel = [i \in 1 .. d.blocks |-> disk[d.lba + i - 1]]]
  /\ UNCHANGED <<conf, h, sz, at, buf, todo, started, contended, fsVars, heapVars>>

(* The handle is taken and given back before anything else runs.           *)
kmain ==
  /\ pc = "kmain" /\ pc' = "open"
  /\ loaded' = [loaded EXCEPT !.start = fs_read(Acquired(StartPath, 0), 1, 0)]
  /\ UNCHANGED <<conf, h, sz, at, buf, todo, started, contended, fsVars, heapVars>>

-----------------------------------------------------------------------------
(* start.c.  The list's text is what its blocks say.                       *)

Spaces == {" ", "\n"}
Text(blocks) ==
  FlattenSeq([i \in DOMAIN blocks |->
    IF blocks[i] # Nothing /\ blocks[i][1] = ListFile THEN Configs[conf].list[blocks[i][2] + 1] ELSE <<>>])

(* The positions from i on, up to the end of the text.                     *)
Onwards(t, i)    == i .. Len(t) + 1
SkipSpaces(t, i) == Min({j \in Onwards(t, i) : j > Len(t) \/ t[j] \notin Spaces})
SkipLine(t, i)   == SkipSpaces(t, Min({j \in i .. Len(t) : t[j] = "\n"}))

(* Variant: a comment leaves the beginning of the word where it was. *)
WordsKeepStart(t) ==
  LET words[i \in Onwards(t, 1), start \in Onwards(t, 1)] ==
        LET skipped == SkipSpaces(t, i)
        IN  CASE i > Len(t)     -> <<>>
              [] i \in DOMAIN t /\ t[i] = "#"      -> words[SkipLine(t, i), start]
              [] i \in DOMAIN t /\ t[i] \in Spaces -> <<SubSeq(t, start, i - 1)>> \o words[skipped, skipped]
              [] OTHER          -> words[i + 1, start]
  IN  words[SkipSpaces(t, 1), SkipSpaces(t, 1)]

(* The loop of main: a `#' drops the word begun and the rest of the line,  *)
(* a space ends a word, the end of the text ends the loop.                 *)
Words(t) ==
  LET words[i \in Onwards(t, 1), start \in Onwards(t, 1)] ==
        LET skipped == SkipSpaces(t, i)
            next    == SkipLine(t, i)
        IN  CASE i > Len(t)     -> <<>>
              [] i \in DOMAIN t /\ t[i] = "#"      -> words[next, next]
              [] i \in DOMAIN t /\ t[i] \in Spaces -> <<SubSeq(t, start, i - 1)>> \o words[skipped, skipped]
              [] OTHER          -> words[i + 1, start]
  IN  words[SkipSpaces(t, 1), SkipSpaces(t, 1)]

(* Before the list is read there is nothing to do but read it.             *)
Reading == IF todo = <<>> THEN ListPath ELSE Head(todo)
Go(rest) == todo' = rest /\ pc' = IF rest = <<>> THEN "done" ELSE "open"

(* A file that cannot be had: start waits for ever without its list and    *)
(* leaves out a program.                                                   *)
open ==
  /\ pc = "open"
  /\ h' = Acquired(Reading, 0)
  /\ fs_aquire(Start, Reading, 0)
  /\ contended' = (contended \/ \E p \in Others : Lookup(Reading, 0).node \in owns[p])
  /\ IF h' # 0 THEN pc' = "size" /\ UNCHANGED todo
     ELSE IF todo = <<>> THEN pc' = "stuck" /\ UNCHANGED todo ELSE Go(Tail(todo))
  /\ UNCHANGED <<conf, loaded, sz, at, buf, started, heapVars>>

(* The size, in whole blocks and a byte, is asked of malloc.               *)
get_size ==
  /\ pc = "size" /\ sz' = fs_get_size(h)
  /\ LET room == InBlocks(sz') * PageBytes + 1
     IN  malloc(room) /\ at' = Place(room) /\ pc' = IF hung' THEN "hung" ELSE "read"
  /\ UNCHANGED <<conf, loaded, h, buf, todo, started, contended, fsVars>>

(* Nobody looks whether malloc found a place: the kernel reads the file to *)
(* address 0 as well, where a block of low memory is free to be written    *)
(* and the first node table comes next.                                    *)
FstBlock == 1
read ==
  /\ pc = "read"
  /\ buf' = fs_read(h, InBlocks(sz), 0)
  /\ pc' = IF at = NULL /\ Len(buf') > FstBlock THEN "overwritten" ELSE "release"
  /\ UNCHANGED <<conf, loaded, h, sz, at, todo, started, contended, fsVars, heapVars>>

(* After fs_release: main goes through the list (at address 0 it may not   *)
(* read it), run_prgm hands a program that is not empty to exec_fbe, which *)
(* is the kernel's.                                                        *)
release ==
  /\ pc = "release"
  /\ fs_release(Start, h)
  /\ IF todo = <<>>
     THEN /\ CASE sz = 0              -> pc' = "stuck" /\ UNCHANGED todo
               [] sz # 0 /\ at = NULL -> pc' = "halted" /\ UNCHANGED todo
               [] sz # 0 /\ at # NULL -> Go(Words(Text(buf)))
          /\ UNCHANGED started
     ELSE /\ started' = IF sz = 0 THEN started ELSE Append(started, buf)
          /\ Go(Tail(todo))
  /\ UNCHANGED <<conf, loaded, h, sz, at, buf, contended, heapVars>>

StartWorks == open \/ get_size \/ read \/ release

(* Any other program, with the handles it was given.                       *)
Uses(p) ==
  /\ pc \notin {"boot", "kmain"}
  /\ \/ \E fn \in Paths : \E cd \in given[p] \cup {0} : fs_aquire(p, fn, cd)
     \/ \E n \in given[p] : fs_release(p, n)
  /\ UNCHANGED <<startVars, heapVars>>

-----------------------------------------------------------------------------

Init ==
  /\ conf \in {c \in DOMAIN Configs : Sound(c)}
  /\ InitFs({Image(conf)}) /\ InitHeap
  /\ pc = "boot" /\ loaded = [kernel |-> <<>>, start |-> <<>>]
  /\ h = 0 /\ sz = 0 /\ at = 0 /\ buf = <<>> /\ todo = <<>> /\ started = <<>> /\ contended = FALSE

Next == ~astray /\ ~loose /\ (boot \/ kmain \/ StartWorks \/ \E p \in Others : Uses(p))

(* The boot loader and the kernel do not stop, and start is scheduled      *)
(* again and again.                                                        *)
FairSpec == Init /\ [][Next]_vars /\ WF_vars(boot) /\ WF_vars(kmain) /\ WF_vars(StartWorks)

-----------------------------------------------------------------------------
(***************************************************************************)
(* Properties.  conf.decl is the tree of entries the description stands    *)
(* for; what the machine does is compared with it.                         *)
(***************************************************************************)

(* The entries declared, each with its path and the directories around it. *)
RECURSIVE Declared(_, _, _)
Declared(list, path, dirs) ==
  UNION {LET e == list[i]  here == path \o Spell[e.name]
         IN  {[path |-> here, entry |-> e, dirs |-> dirs]}
               \cup Declared(e.contents, here \o <<"/">>, Append(dirs, e)) : i \in DOMAIN list}
Top(c, name) == CHOOSE e \in Range(Configs[c].decl) : e.name = name
Trees == [c \in DOMAIN Configs |->
            Declared(Top(c, "/").contents, <<"/">>, <<Top(c, "/")>>)]
Tree  == Trees[conf]
Brief == \A x \in Tree : Len(Spell[x.entry.name]) <= StrChars
BlocksOf(f) == LET n == Configs[conf].host[f] IN IF n = NoFile THEN 0 ELSE InBlocks(n)
Begins(f, max) == [i \in {j \in 1 .. max : j <= BlocksOf(f)} |-> <<f, i - 1>>]
Whole(f)    == Begins(f, BlocksOf(f))
Short(f)    == BlocksOf(f) * SectsPerBlock <= MaxSectors

(* fs_aquire finds each declared entry by its path, from the root and from *)
(* any directory on the way; a directory with a `/' after it is found and  *)
(* not locked; behind a directory a path that begins with `/' itself leads *)
(* from the root again.  By any other path from the root it finds nothing. *)
Doubled(fn) == \E i \in 2 .. Len(fn) : fn[i - 1] = "/" /\ fn[i] = "/"
LookupRight ==
  pc = "boot" /\ Brief =>
    /\ \A x \in Tree :
         LET r == Lookup(x.path, 0)
         IN  /\ r.lock /\ fst[r.node].type = TypeOf(x.entry)
             /\ NameAt(fst[r.node].name) = Spell[x.entry.name]
             /\ fst[r.node].parent = (IF Len(x.dirs) = 1 THEN fst[0].root
                  ELSE Lookup(SubSeq(x.path, 1, Len(x.path) - Len(Spell[x.entry.name]) - 1), 0).node)
             /\ Lookup(Append(x.path, "/"), 0) =
                  IF x.entry.type = "d" THEN [r EXCEPT !.lock = FALSE] ELSE None
             /\ \A y \in Tree : x.path # y.path => Lookup(y.path, 0).node # r.node
             /\ \A y \in Tree : IsPrefix(Append(x.path, "/"), y.path) =>
                  Lookup(SubSeq(y.path, Len(x.path) + 2, Len(y.path)), r.node) = Lookup(y.path, 0)
             /\ \A y \in Tree : Lookup(x.path \o <<"/">> \o y.path, 0) =
                  IF x.entry.type = "d" THEN Lookup(y.path, 0) ELSE None
    /\ \A fn \in Paths :
         fn[1] = "/" /\ Last(fn) # "/" /\ ~Doubled(fn) /\ (\A x \in Tree : x.path # fn) =>
           Lookup(fn, 0) = None

(* A file is read as it was on the host: its size, and its blocks from the *)
(* first on, however many are asked for, or from any other as long as they *)
(* are the file's - if the host had it and it is at most as many sectors   *)
(* as the controller can count.                                            *)
ReadRight ==
  pc = "boot" /\ Brief =>
    \A x \in {y \in Tree : y.entry.type = "f"} :
      LET n == Lookup(x.path, 0).node  f == x.entry.actual
      IN  /\ fs_get_size(n) = (IF Configs[conf].host[f] = NoFile THEN 0 ELSE Configs[conf].host[f])
          /\ Short(f) /\ Configs[conf].host[f] # NoFile => \A max \in 0 .. BlocksOf(f) + 1 :
               /\ fs_read(n, max, 0) = Begins(f, max)
               /\ \A o \in 0 .. BlocksOf(f) - max : fs_read(n, max, o) = SubSeq(Whole(f), o + 1, o + max)

(* What the kernel makes of the image is the tree that was declared: names *)
(* lead to their entries, and files have their size and contents.          *)
TreeAsDeclared == LookupRight /\ ReadRight

(* What the boot loader jumps to is the kernel, all of it, and what kmain  *)
(* spawns begins with the first block of the start program.                *)
KernelLoaded ==
  /\ pc # "boot" =>
       \E i \in DOMAIN Top(conf, "@").contents :
         /\ Spell[Top(conf, "@").contents[i].name] = KernelName
         /\ loaded.kernel = Whole(Top(conf, "@").contents[i].actual)
  /\ pc \notin {"boot", "kmain"} =>
       \A x \in Tree : x.path = StartPath => loaded.start = Begins(x.entry.actual, 1)

(* What start is to run: the files listed that exist and are not empty.    *)
Expected ==
  LET files == [k \in DOMAIN Configs[conf].names |->
                  {x.entry.actual : x \in {y \in Tree : y.path = Configs[conf].names[k]}}]
      there == SelectSeq(files, LAMBDA fs : \E f \in fs : f # "" /\ BlocksOf(f) > 0)
  IN  [k \in DOMAIN there |-> CHOOSE f \in there[k] : TRUE]
Wholes == [k \in DOMAIN Expected |-> Whole(Expected[k])]
Modest == Brief /\ \A k \in DOMAIN Expected : Short(Expected[k])

(* start runs the programs of its list, each once, in the order of the     *)
(* list and from the whole of its own file, unless another program held a  *)
(* file just then.                                                         *)
StartedRight ==
  ~contended /\ ~loose /\ Modest =>
    /\ IsPrefix(started, Wholes)
    /\ pc = "done" => started = Wholes

(* malloc gives start no place or does not come back only after the whole  *)
(* heap was handed out: free gives nothing back.                           *)
HeapUsedUp ==
  at = NULL =>
    LET room  == InBlocks(sz) * PageBytes + 1
        used == FoldFunction(+, 0, [x \in handed |-> Rounded(x.size) + HeaderBytes])
    IN  used + Rounded(room) > HeapBytes

(* Every listed program is started in the end, if nobody holds its file,   *)
(* unless malloc hangs or a program is read over the node table.           *)
AllStarted ==
  <>(contended \/ loose \/ astray \/ pc \in {"hung", "overwritten"} \/ (Modest => started = Wholes))
=============================================================================
