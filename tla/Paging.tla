------------------------------- MODULE Paging -------------------------------
(***************************************************************************)
(* Page tables, workspaces and page faults: kernel/src/paging.c and        *)
(* paging.asm, with the parts of process.c and scheduler.asm that use them.*)
(*                                                                         *)
(* There is one tree of page tables.  The pages of a program are in it     *)
(* only while the program runs: a workspace lists them, and swap_ws takes  *)
(* the pages of one workspace out and puts those of another in.  Tables    *)
(* are made where they are missing and never given back.                   *)
(*                                                                         *)
(* The kernel reaches any frame through a window: it writes the frame into *)
(* entry 0 of the table KPT0_0, which maps the first kernel page.  Walking *)
(* the tree moves the window to the table that is looked at, and so does   *)
(* spawn_process to the frame it fills with the program's code.            *)
(*                                                                         *)
(* A page is its number, an address / 0x1000 with the hole between the     *)
(* halves of the address space left out; a frame is its number too.        *)
(***************************************************************************)
EXTENDS Integers, Sequences, Functions

CONSTANTS
  Entries,     \* entries of a table: 512
  Levels,      \* levels of the tree, the root's included: 4
  CodePages,   \* pages of a program's first segment, from page UserBottom
  FaultPages,  \* the pages beyond the workspaces that programs touch
  Frames,      \* bound: frames that alloc_pages can hand out
  Procs,       \* the processes that may be spawned
  None,        \* NULL
  MaxObjects   \* bound: kernel objects not in use at the start

(* The frames of the tables the boot loader makes come before those that   *)
(* are handed out.  Frame 0 is the one that a failed allocation names.     *)
Root       == 1                       \* PML4T
LowTable(l)  == l                     \* TPDPT, TPDT0, TPT0_0 at levels 2, 3, 4
HighTable(l) == Levels + l - 1        \* KPDPT, KPDT0, KPT0_0
KPT0_0     == HighTable(Levels)
FirstFrame == KPT0_0 + 1
LastFrame  == KPT0_0 + Frames

Reach[l \in 0 .. Levels] == IF l = 0 THEN 1 ELSE Entries * Reach[l - 1]

PageCount  == Reach[Levels]
UserPages  == PageCount \div 2        \* USPACE_TOP
KernelPage == UserPages               \* KSPACE_LOC, the window
UserBottom == 1                       \* USPACE_BOT
OneStackPage == 1                     \* variant
StackPages == 2                       \* a stack for the program, one for the kernel

ASSUME PagingAssumption ==
  /\ Entries \in Nat /\ Entries % 2 = 0 /\ Entries > 0
  /\ Levels \in Nat /\ Levels >= 2
  /\ CodePages \in Nat \ {0} /\ UserBottom + CodePages <= UserPages \div 2
  /\ FaultPages \subseteq 0 .. PageCount - 1
  /\ Frames \in Nat
  /\ None \notin Procs

VARIABLES
  mem,        \* content of each frame, entry by entry
  next,       \* first frame that alloc_pages has not handed out
  code,       \* code and data workspace of each process: [v, f, n] segments
  stack,      \* stack workspace of each process
  cur_ws,     \* whose workspaces are in the tree
  kobjs,      \* kernel objects not in use
  exhausted,  \* history: an object, or a frame for a page fault, was missing
  torn        \* history: a spawn's copy was interrupted by a page fault

vars == <<mem, next, code, stack, cur_ws, kobjs, exhausted, torn>>

-----------------------------------------------------------------------------

Absent == -1     \* an entry without the present bit
Data   == -2     \* an entry that is part of what a program stores
Filled(x) == [i \in 0 .. Entries - 1 |-> x]

(* The handlers change memory step by step: Now is the state they find,    *)
(* Becomes the one they leave.  On the way they note what ran short and    *)
(* whether a copy was torn.                                                *)
Now == [mem |-> mem, next |-> next, code |-> code, stack |-> stack,
        kobjs |-> kobjs, short |-> FALSE, torn |-> FALSE]
Becomes(s) ==
  /\ mem' = s.mem /\ next' = s.next /\ code' = s.code /\ stack' = s.stack
  /\ kobjs' = s.kobjs
  /\ exhausted' = (exhausted \/ s.short) /\ torn' = (torn \/ s.torn)

(* The entry of page v in its table of level l. *)
Index(v, l) == (v \div Reach[Levels - l]) % Entries

Window(m) == m[KPT0_0][0]
Through(s, f) == [s EXCEPT !.mem[KPT0_0][0] = f]    \* page_to_kpt0_0

(* alloc_pages(1, PHYS_PAGES): its frame, 0 when there is none left. *)
NextFrame(s) == IF s.next <= LastFrame THEN s.next ELSE 0
Allocated(s) == IF s.next <= LastFrame THEN [s EXCEPT !.next = @ + 1]
                ELSE [s EXCEPT !.short = TRUE]

(* The table of level l for page v is found through the window; its entry  *)
(* is followed, or a new table made and cleared, and the window goes there.*)
Parent(s, l) == IF l = 1 THEN Root ELSE Window(s.mem)
NewTable(s, v, l) ==
  LET f == NextFrame(s)
  IN  [Through([Allocated(s) EXCEPT !.mem[Parent(s, l)][Index(v, l)] = f], f)
         EXCEPT !.mem[f] = Filled(Absent)]
check_table(s, v, l) ==
  LET e == s.mem[Parent(s, l)][Index(v, l)]
  IN  IF e = Absent THEN NewTable(s, v, l) ELSE Through(s, e)

set_pt_entry(s, v, val) ==
  LET t[l \in 0 .. Levels - 1] == IF l = 0 THEN s ELSE check_table(t[l - 1], v, l)
      r == t[Levels - 1]
  IN  [r EXCEPT !.mem[Window(r.mem)][Index(v, Levels)] = val]

(* What the tables lead to for page v: the root, one entry of each level's *)
(* table, and the frame in the end.                                        *)
Follow(m, f, v, l) == IF f < 0 THEN f ELSE m[f][Index(v, l)]
Walk(m, v) ==
  LET at[l \in 0 .. Levels] == IF l = 0 THEN Root ELSE Follow(m, at[l - 1], v, l)
  IN  at
Lookup(m, v) == Walk(m, v)[Levels]

Segment(v, f, n) == [v |-> v, f |-> f, n |-> n]
PageOf(seg, k)   == [v |-> seg.v + k - 1, f |-> seg.f + k - 1]
Listed(ws) ==
  LET pages[i \in 0 .. Len(ws)] ==
        IF i = 0 THEN <<>> ELSE pages[i - 1] \o [k \in 1 .. ws[i].n |-> PageOf(ws[i], k)]
  IN  pages[Len(ws)]

(* The entries of the pages are set one after another. *)
Entered(s, pages) ==
  LET t[i \in 0 .. Len(pages)] ==
        IF i = 0 THEN s ELSE set_pt_entry(t[i - 1], pages[i].v, pages[i].f)
  IN  t[Len(pages)]
Left(pages) == [i \in DOMAIN pages |-> [pages[i] EXCEPT !.f = Absent]]

swap_ws_in(s, old, new) == Entered(s, Listed(new))     \* variant: the old pages stay
swap_ws(s, old, new)    == Entered(Entered(s, Left(Listed(old))), Listed(new))

(* A page fault: the frame is noted in the running program's workspace,    *)
(* the lower half of its pages in one, the upper in the other; a kernel    *)
(* page belongs to none.  A workspace object is needed to note it.         *)
NotedAny(s, v, f) ==    \* variant: kernel pages are noted like a program's
  [s EXCEPT !.stack[cur_ws] = Append(@, Segment(v, f, 1)), !.kobjs = @ - 1]
Noted(s, v, f) ==
  IF v > KernelPage THEN s
  ELSE IF s.kobjs = 0 THEN [s EXCEPT !.short = TRUE]
  ELSE IF v <= UserPages \div 2
  THEN [s EXCEPT !.code[cur_ws] = Append(@, Segment(v, f, 1)), !.kobjs = @ - 1]
  ELSE [s EXCEPT !.stack[cur_ws] = Append(@, Segment(v, f, 1)), !.kobjs = @ - 1]
page_fault(s, v) ==
  set_pt_entry(Noted(Allocated(s), v, NextFrame(s)), v, NextFrame(s))

-----------------------------------------------------------------------------

(* The boot loader's tables lead to the first pages of either half.  The   *)
(* user pages it maps from UserBottom up are not shown: the first program  *)
(* to run has its own there.                                               *)
Init ==
  /\ mem = [f \in 0 .. LastFrame |->
              IF f = Root
              THEN [Filled(Absent) EXCEPT ![0] = LowTable(2), ![Entries \div 2] = HighTable(2)]
              ELSE IF f \in {LowTable(Levels), KPT0_0} THEN [Filled(Absent) EXCEPT ![0] = 0]
              ELSE IF f \in 2 .. KPT0_0 THEN [Filled(Absent) EXCEPT ![0] = f + 1]
              ELSE Filled(Absent)]
  /\ next = FirstFrame
  /\ code = [p \in Procs |-> <<>>]
  /\ stack = [p \in Procs |-> <<>>]
  /\ cur_ws = None
  /\ kobjs = MaxObjects
  /\ exhausted = FALSE
  /\ torn = FALSE

(* A program, or the kernel for it, touches a page that is not there. *)
touch(v) ==
  /\ cur_ws # None
  /\ Lookup(mem, v) = Absent
  /\ Becomes(page_fault(Now, v))
  /\ UNCHANGED cur_ws

(* The copy loop of spawn_process: for each page the window goes to its    *)
(* frame, then bytes are read from the caller's page and written through   *)
(* the window, wherever a page fault on the first of them has moved it.    *)
CopiedPage(s, f, from) ==
  LET w == Through(s, f)
      r == IF cur_ws # None /\ Lookup(w.mem, from) = Absent
           THEN [page_fault(w, from) EXCEPT !.torn = TRUE] ELSE w
  IN  [r EXCEPT !.mem[Window(r.mem)] = Filled(Data)]
Copied(s, f, from) ==
  LET t[i \in 0 .. CodePages] ==
        IF i = 0 THEN s ELSE CopiedPage(t[i - 1], f + i - 1, from + i - 1)
  IN  t[CodePages]

(* Objects are allocated for a spawn, and some given back if it fails.     *)
(* Without enough of them it goes on at address 0.                         *)
Taken(s, n) ==
  [s EXCEPT !.kobjs = IF @ >= n THEN @ - n ELSE 0, !.short = @ \/ s.kobjs < n]
GivenBack(s, n) == [s EXCEPT !.kobjs = IF s.short THEN @ ELSE @ + n]

(* spawn_thread writes the first stack frame through the window. *)
WithStack(s, p) ==
  [Through(s, s.next + 1) EXCEPT
     !.mem[s.next + 1] = Filled(Data), !.next = @ + StackPages,
     !.code[p] = <<Segment(UserBottom, next, CodePages)>>,
     !.stack[p] = <<Segment(UserPages - 2, s.next, 2)>>]

(* The process and its workspace come before the copy, the three objects   *)
(* of the thread after it.  Without frames for the code or the stack the   *)
(* objects that stay behind are those of Sched's spawn_fails.              *)
spawn_process(p, from) ==
  /\ code[p] = <<>>
  /\ UNCHANGED cur_ws
  /\ \/ /\ next + CodePages - 1 > LastFrame
        /\ Becomes(GivenBack(Taken(Now, 2), 1))
     \/ /\ next + CodePages - 1 <= LastFrame
        /\ LET c == Copied(Taken([Now EXCEPT !.next = @ + CodePages], 2), next, from)
           IN  \/ /\ c.next + StackPages - 1 > LastFrame
                  /\ Becomes(GivenBack(Taken(c, 3), 2))
               \/ /\ c.next + StackPages - 1 <= LastFrame
                  /\ Becomes(Taken(WithStack(c, p), 3))

(* The part of the context switch that is about pages. *)
Workspace(ws, p) == IF p = None THEN <<>> ELSE ws[p]
context_switch(p) ==
  /\ code[p] # <<>> /\ p # cur_ws
  /\ LET s == swap_ws(Now, Workspace(code, cur_ws), code[p])
     IN  Becomes(swap_ws(s, Workspace(stack, cur_ws), stack[p]))
  /\ cur_ws' = p

(* kmain's spawn reads its own stack, a program's what the program names.  *)
Sources == IF cur_ws = None THEN {KernelPage} ELSE {UserBottom} \cup FaultPages

Next ==
  \/ \E v \in FaultPages : touch(v)
  \/ \E p \in Procs : \E from \in Sources : spawn_process(p, from)
  \/ \E p \in Procs : context_switch(p)

(* Executions followed up to the first torn copy. *)
Spec == Init /\ [][Next /\ ~torn]_vars

-----------------------------------------------------------------------------
(***************************************************************************)
(* Properties.                                                             *)
(***************************************************************************)

PagesOf(p) == Range(Listed(Workspace(code, p))) \cup Range(Listed(Workspace(stack, p)))
UserPart   == {v \in UserBottom .. UserPages - 1 : Lookup(mem, v) # Absent}

(* A program sees its own pages and no other program's: the user half of   *)
(* the tree is what the running program's two workspaces list.  It takes   *)
(* every page fault to have been noted in the right workspace and every    *)
(* switch to have taken out all it put in.                                 *)
OwnPagesOnly ==
  ~exhausted /\ ~torn =>
    {[v |-> v, f |-> Lookup(mem, v)] : v \in UserPart} = PagesOf(cur_ws)

(* The frames of the tables the tree consists of. *)
Tables == {Walk(mem, v)[l] : v \in 0 .. PageCount - 1, l \in 0 .. Levels - 1} \ {Absent}

(* No frame has two uses: two pages, of one program or of two, never share *)
(* one, and none is a page table.                                          *)
FramesApart ==
  ~exhausted /\ ~torn =>
    /\ \A p, q \in Procs : \A g \in PagesOf(p), h \in PagesOf(q) :
         g.f = h.f => p = q /\ g = h
    /\ \A p \in Procs : \A g \in PagesOf(p) : g.f \notin Tables

(* What the kernel keeps in its half, the buffers of the ports for one,    *)
(* stays where it is whichever program runs.                               *)
KernelStays ==
  [][~torn' /\ ~exhausted' =>
       \A v \in KernelPage + 1 .. PageCount - 1 :
         Lookup(mem, v) # Absent => Lookup(mem, v)' = Lookup(mem, v)]_vars
=============================================================================
