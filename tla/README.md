# Verification of Frosk64

Frosk64 is a small operating system for x86-64: a kernel with processes,
message ports, paging and a few drivers, and a window system of user programs
on top.  This directory holds TLA+ models of its kernel, the TLC
configurations that check them and TLAPS proofs of the properties that matter
most.  Everything is translated from the C and assembly sources; the
repository has neither tests nor documentation, so comments in the code are
the only statements of intent there are.

All source lines below are relative to the repository's root.

## 1. Inventory

### How the kernel runs

One processor.  Every gate into the kernel (system call `0x40`, exceptions,
interrupts) is an interrupt gate, and the kernel does not set the interrupt
flag again before it returns: **a system call or an interrupt handler is one
uninterruptible step**.  Two exceptions are modelled where they matter: a page
fault may happen *inside* a system call (`Paging`), and the context switch
leaves the interrupted thread one instruction with interrupts enabled
(`scheduler.asm:121-122`), which changes no shared state.  What is left of
concurrency is the order of system calls of different programs, timer and
keyboard interrupts between any two user instructions, and long sequences of
calls on a few shared, never cleaned up data structures.

`kmain` (`kernel/src/kmain.c`) initialises everything and spawns the first
process *before* it starts the timer.

### Components

| component | state | operations | talks to |
|---|---|---|---|
| kernel objects, `kernobj.c` | one page of 32-byte slots, two bitmap words | `alloc_kobj`, `free_kobj`, `verify_kobj` | every kernel structure is a kernel object |
| page manager, `pagemgr.c` | two lists of free regions (physical, kernel virtual) | `init_page_mgr`, `alloc_pages`, `free_pages` | kernel objects for the regions |
| paging, `paging.c`, `paging.asm` | page tables, the one-page window `KPT0_0`, the two current workspaces | `page_in`, `swap_ws`, `add_pgs_to_ws`, `page_fault` | page manager, kernel objects; called by process and scheduler |
| processes and threads, `process.c`, `scheduler.asm` | ring of threads, ring of processes, `current_thread`, state bytes | `spawn_process`, `spawn_thread`, `context_switch` | paging, page manager, kernel objects |
| message ports, `ports.c` | list of entries, each a buffer of whole pages | `send`, `poll`, `receive` | page manager (kernel virtual pages), kernel objects |
| keyboard, `keyboard.c`, `keyboard.asm` | ring of bytes | `key_int`, `kb_read`, `kb_write` | the mouse driver writes keys through `kb_write` |
| mouse, `mouse.c` | position, old buttons | `get_mouse_pos`, called by rusk | keyboard ring, shared controller port |
| file system, `fs.c`, `lock.asm`, `ata.c` | node table in memory, a lock bit per node | `fs_aquire`, `fs_release`, `fs_read`, `fs_get_size` | the disk; called by `kmain`, `start`, `fui` |
| image builder, `util/f301_builder` | nodes, next free entry and block | `parse_next`, `add_fs_entry`, `write_fs` | its output is what the boot loader and the file system read |
| boot loader, `boot2.asm` | - | search for the kernel, loading it | the image; the kernel's initial memory |
| start, `prgm/start` | the list of programs | `main`, `read_file`, `run_prgm` | file system, `malloc`, `exec_fbe` |
| registry, `wsysreg.c` | the window system's process | `reg_wsys`, `get_wsys`, `unreg_wsys` | rusk, clients |
| expanse system, `prgm/rusk` | list of expanses (windows), manager's pid | serves requests on port 0x10, forwards events on port 0x11 | clients and bearing, over ports |
| expanse manager, `prgm/bearing` | the chosen expanse, mouse state | decorates expanses, filters events | rusk |
| client libraries, `lib/shiny` and others | list of own expanses, handlers | requests, event loop | rusk |
| C library, `lib/cstd` | ring of free blocks | `malloc`, `realloc`, `free` (a no-op) | every program |
| drivers | device registers | port I/O | - |
| `lib/sheep` | variables of a shell language, unfinished | - | - |

### What is hard, and what makes each component correct

* **Kernel objects.**  The shift `1 << i` is an `int`, the bitmap word is twice
  as wide; `loc_kobj` never finds the second word.  Correct: the scan for a
  free bit ends in range, an allocation never returns an object in use, the
  bitmap is exact, exhaustion is reported when it should be.
* **Page manager.**  First fit, merging, region objects that run out in the
  middle of a call, byte/page confusion of callers, frees of a buffer that
  stays in use, `uint` overflow.  Correct: no byte is on offer twice, or on
  offer and in use; nothing reserved is handed out.
* **Paging.**  One window shared by everything that touches a frame that is
  not mapped; page tables made on demand; pages noted lazily in workspaces.
  Correct: a program sees its own pages only, no frame has two uses, the
  kernel's half stays.
* **Scheduler.**  The chosen and the interrupted thread change places in a few
  instructions; the ring is extended while it is walked round.  Correct: one thread is taken, each ready
  thread runs within one round, for ever again.
* **Ports.**  A channel's bytes are spread over entries, appended to the last
  and taken from the first that has enough.  Correct: per channel a
  first-in first-out byte stream; a receiver never gets bytes of another
  channel; `poll` names who has been sent something and not yet received it.
* **Keyboard.**  Interrupts and system calls on one ring, overrun drops the
  oldest byte.  Correct: a bounded first-in first-out queue.
* **Window system.**  Three programs, requests and their arguments in separate
  messages, some receivers wait and some do not.  Correct: requests are served
  with the arguments they were sent with, events reach the front window in the
  order they were typed.
* **Mouse.**  Keys and packets share one register, interrupts and polling read
  it.  Correct: every key is delivered once, in order and with the shift it was
  typed with; presses and releases take turns; the pointer is where it was moved.
* **File system and its images.**  A lock kept across system calls, early returns
  that do not take it, an image laid out by one program and walked by two
  others.  Correct: every declared entry is found by its path and has the
  contents declared; one holder per file.  (Permissions are parsed and then
  dropped: the builder never copies them to a node, whose permission byte is
  written as `malloc` left it.)
* **Start and malloc.**  A list with comments, files that are missing, empty,
  locked or too long, a heap that never gets anything back.  Correct: each program
  of the list is started once, in order, from its own file; no two payloads
  overlap; memory ends when it is used up, not before.

`PROJECT.json` lists the single hazards with their lines under "hazards".

## 2. Plan

In order of importance for the system, with what is done marked by a module
name in **bold**.

1. **KernObj**: everything else allocates here.  Proved in **ResourceProofs**, with the
   other two components that give something out (`Malloc`, `Fs`).
2. **KeyFifo** (abstract), **KeyRing**: refinement, proved in **InputProofs**.
3. **PagePool** (abstract), **PageMgr**, **PageMgrProofs**: safety and
   refinement, proved.
4. **Streams** (abstract), **Ports**, **PortsProofs**: safety and refinement,
   proved.
5. **Sched**, **SchedProofs**: safety proved, liveness checked.
6. **Paging**, **PagingProofs**: with the part of spawn and switch that is about
   pages; all three properties proved.
7. **Wire**, **Rusk**, **Bearing**, **Shiny**, composed by **Desk**: the window
   system's protocol, safety and liveness, checked.  **DeskProofs**: `InStep` proved.
   **DeskOwnProofs**: `OwnPictures`, `OwnHandles`, `IntroducedOnce` and
   `EventsOrdered` proved.  To prove: what the choice of a window does to the list.
8. **DiskBlocks**, **F301Parse**, **F301**, **Fs**, **Malloc**, composed by
   **Startup**: from the description of an image to running programs, checked.
   `OneHolder` and `NoOverlap` proved in **ResourceProofs**.
9. **Input** on top of **KeyRing**: mouse, keyboard and rusk's event loop, checked.
   **InputProofs**: `KeysInOrder`, `PacketsCount` and `ShiftRight` proved, up to the first
   mixed byte.
10. Compositions: the state byte of a reused kernel object between `PageMgr`
    and `Sched` (today the constant `StaleBytes` of `Sched`); `Ports` and
    `PageMgr` over one count of kernel objects (today `MaxObjects` in each).

## 3. Modules and how they correspond to the code

Every module's comment says which file it translates; actions have the names
of the functions.  `PROJECT.json` "map" has the exact lines.

**KernObj** (`kernobj.c`).  A bitmap word is the set of its one bits, an
object is its slot number.  `ShiftedOne(i)` is `1 << i` after its conversion to
a 64-bit word: sign extension sets all upper bits for the sign bit; a shift
count of 32 or more is taken modulo 32, as the processor does.  `LocWord` keeps
the comparison with 0x2000, so it is 0 for every object.  `live` and
`highFreed` are history.  `free_kobj` is called with objects that are in use.

**KeyRing** (`keyboard.c`, `keyboard.asm`).  The loops of `kb_read` and
`kb_write` are one step each (interrupts are off) and are written by their
result: how many bytes fit or are there.  `KeyFifo` is what the device promises:
a queue of at most `KEY_BUF_MAX_SIZE - 1` bytes, where a key that finds it full
costs the oldest byte.

**Input** (`mouse.c`, `rusk.c`'s `process_events`; the controller and the mouse
are external).  `port` is what the controller holds, `device` what the mouse has
still to send of a packet; the two devices' bytes meet in `Comes`.  The
interrupt is `key_int` of `KeyRing` with the byte that is there; `get_mouse_pos`
reads one, two or three bytes by what it finds and hands codes on through
`kb_write`.  Reading a key while its interrupt is pending leaves the line raised
or not, as the controllers differ.  `process_events` is two steps of rusk, the
poll and the read, with interrupts between them; its loop over the bytes is two recursive
functions, `HeldAlong` and `EventsAlong`, which the proofs can expand.  The mouse's own interrupt
handler is left out because its line is never enabled (`irq.asm:57` takes 8 off
the port instead of the line).  `mixed` is history: a byte was taken for
something it is not, or lost.

**DiskBlocks, F301Parse, F301** (`util/f301_builder`).  A description is a sequence of
lexemes; `parse_next` gives the position after what it read.  The builder's
globals are a record that every function takes and gives back; `Table` and
`Blocks` are what is on the disk afterwards.  A node's owner is what was declared;
its permissions are `Unset`, since nothing writes them (`fs.c:201-255`), and no
property speaks of them.

**Fs** (`fs.c`, `lock.asm`, `ata.c`).  `fst` maps node pointers to nodes, 0 to
the table's header; `locked` is the set of nodes whose bit is set.  `Lookup`
follows the loop and the recursion of `fs_aquire`, whose first test (`From`) is made by
every call: behind a directory a second slash leads back to the root, so `/d//a` is `/a`.
`owns`, `given`, `loose` are history.

**Malloc** (`malloc.c`).  `header` maps addresses to headers, `hdr` is the last
free block.  A request that is too large for a ring of one block never returns
(`hung`), since the loop goes on while it is back at the first.

**Startup** (`boot2.asm`, `kmain.c`, `start.c`).  The initial state is an image
built from one of the configurations; `boot`, `kmain` and each system call
of `start` are steps, between which other programs take and give back files.
`conf` keeps the name of the configuration, and the properties compare what the
machine does with the tree it declares.  `read_file` does not look at the result of
`malloc` (`at`): without a place the file is read to address 0, where block 0 of
memory holds nothing the model follows and block 1 is the first node table (`FST0_LOC`).  A file
of one block is started from there; a longer one ends the execution (`overwritten`), as
does a list that start itself would have to read there (`halted`, the page is the
kernel's).

**PageMgr** (`pagemgr.c`).  `head` maps a page type to the list of regions,
`kobjs` counts the kernel objects that are left, `held` is the history of what
was handed out, as large as the caller believes.  `init_page_mgr`'s walk of the
memory map is `Init`, for any map, aligned or not.  There are two ways to free, as there are
two callers: physical pages are given up by `process.c`, any number of bytes of them
(pages are passed where bytes are meant); kernel pages stay in use while `ports.c:129-131` frees
their first bytes, one for each page read, at the same address whenever a page's worth of
bytes has been received (`GivenUp`, `FreedSizes`).  A region of kernel pages therefore *does* hold bytes
that are in use; what can be handed out of it is its whole pages from the front (`Offered`), and
the properties are about those.  `PagePool` is a set of bytes on offer from which ranges are
taken and to which they are returned, or not.

**Ports** (`ports.c`).  Entries, memory as a function from address to
byte, the front of the kernel's virtual pages, the count of objects.  A
byte is named by its channel, message and place in the message, so that a
property can tell whether the right one arrived.  NULL is the first physical
page, which the boot loader maps: writing there does not fault.  `owed` counts, per
channel, the bytes an entry took and `receive` did not return yet.

**Sched** (`process.c`, `scheduler.asm`).  `ring` is the list of threads from
`head_thread` on; `state` the byte at offset 1 of a thread object.  Its first
value is what the object's last use left there.  `waited` is history.  No spawn asks
for objects before it starts: `spawn_short` is one that finds too few and goes on
with NULL (`exhausted`).

**Paging** (`paging.c`, `paging.asm`, and the page part of `process.c`).  Page
tables are frames of `mem`; `Lookup` walks them as the processor does.  The loops
over levels, segments and pages are recursive functions, so that the proofs can
expand them.
Frames come from a counter, since physical pages are never handed out twice
(`free_pages` for physical pages is called once, with a size of a few bytes).  A fault
or a spawn without a frame or an object goes on all the same (`exhausted`).

**Wire, Rusk, Bearing, Shiny, Desk** (`prgm/rusk`, `prgm/bearing`, `lib/shiny`,
`lib/events`, `lib/expanse`, `lib/ykw`, `wsysreg.c`).  One module per program
on top of `Wire`, which has what they share: a queue of messages per sender,
receiver and port (what `Streams` promises to receivers that read message by
message), the registry, and `halted`.  `Desk` composes them with INSTANCE.
A program's request is a list of messages in `out` that leave one by one, so a
timer interrupt may fall between any two; every `while(!receive(...));` is a
guard, and `receive_data` of rusk, which does not wait, has a second outcome
(`receive_nothing`): rusk goes on with what the variable held before - nothing, or, for
an expanse, one that an earlier call left there - and `astray` is noted.  The argument
that comes late is then taken for a function number or for another argument
(`misread`): rusk calls through an entry of `funcs[]` that may not exist, and that is as far
as it is followed (`Wild`); the other programs go on.  Two reductions: the sends that end a request of rusk are one step,
since every program that gets one is waiting and rusk's next step does not
look at what they do; a picture or a list, sent as a count and items and received
in loops that wait for each, is one message, and so are a drawing's handle,
x and y (`ArgumentsThere` fails with fewer parts as well).
In `Bearing`, `Hits` is any result of the comparisons of coordinates in
`check_event` and `handle_events`, whose first and second loop find the
same window; the two loops over the events are one fold, because the first only
uses `mouse_down` and the second never does.  A window's position and size are a
count of its placings and moves: that is what tells a stale copy from a fresh
one.  Lists end where they should: `malloc` hands out memory that was never
used, which is zero as the machine starts, and the code relies on that for
`next`.

## 4. What each run checks

| run | module | checks | bounds |
|---|---|---|---|
| `kernobj` | MCKernObj | `TypeOK ScanEnds BitmapExact Capacity FreshObject` | an int of 4 bits |
| `keyring` | MCInput | `TypeOK ImplementsFifo KeysInOrder PacketsCount ShiftRight EveryKeyArrives` | 4 cells, 3 keys or packets, 4 scan codes, 3 sets of buttons |
| `startup` | MCStartup | `TreeAsDeclared KernelLoaded OneHolder NoOverlap StartedRight HeapUsedUp AllStarted` | 9 images, blocks of 4 bytes, one other program, 5 paths, a heap of 46 |
| `pagemgr` | MCPageMgr | `NoOverlap AlignedNotNull ImplementsPool` | pages of 2 bytes, 3 map entries, one of them odd, requests of 0, 1, 2, 5 pages, uint of 8, 2 spare objects |
| `ports` | MCPorts | `PollTellsSent Isolation ImplementsStream` | 2 channels, pages of 8 bytes, sizes 2, 5, 6, 5 objects, 3 messages each, 3 steps beyond the end of a page |
| `sched` | MCSched | `OneTaken BoundedWait EveryThreadRuns` | 4 threads, 22 objects |
| `paging` | MCPaging | `OwnPagesOnly FramesApart KernelStays` | 3 levels of 4 entries, 2 processes, 18 frames, 14 objects, 4 pages to fault on |
| `desk` | MCDesk | `InStep OwnHandles IntroducedOnce OwnPictures` | 2 programs with a window each, 1 press; past a missing argument only until something is typed |
| `focus` | MCDesk | `EventsOrdered ChosenInFront CopyFresh` | 2 programs, 3 events of any kind in batches of up to 2, handlers destroy; past a missing argument only until something is typed |
| `arrive` | MCDesk | `WindowsOpen EventsArrive` | 1 program, 1 window, 2 clicks, fairness |
| `arguments` | MCDesk | `ArgumentsThere` **is violated** | 1 program, no event |
| `remove` | MCDesk | `RemoveRemoves` **is violated** | 1 program, 1 event |

Why the bounds are enough:

* `kernobj`: with 4 bits an int has a sign bit, bits below it and a word twice
  as wide; both words fill up and objects of the second word are given back.
  The proofs hold for every width.
* `keyring`: three inputs make a whole packet between two keys, a press and a
  release, or two packets one after the other; the ring of three bytes overflows
  and both indices wrap.  Three of the scan codes have the bit of a packet's first byte,
  one has not.  `ImplementsFifo` is proved for every ring size.
* `startup`: the images have names that are prefixes of one another, a name of two
  string nodes, a directory in a directory, a link, an empty and a missing file, one longer
  than the sector count can tell, lists over two blocks with comments, a list of
  more programs than the heap has room for, with a rest and without; one with no list, one
  without a predirectory and one with a file at the top (the last two are refused by the
  builder).  When the heap is used up, one program is left that fits one block and one that
  does not.  Paths begin with one slash, end in one or have two in the middle.  A table of 40 entries holds them all, as one of 256 does the
  repository's `default.f3s`.
* `pagemgr`: regions are split, used up, merged from below and above and made
  anew; the first bytes of a buffer in use are freed, again and again, and merged into
  more than one was; the map has a region that ends in the middle of a page; the
  objects run out; a request overflows.
* `ports`: a page holds one or two messages, so a channel is split over several
  entries, data reaches the end of a page and wraps; objects run out in the
  middle of a send; a send of 2, its receive, a send of 6, its receive and
  another send are what it takes to divide by zero.
* `sched`: four threads spawned before and between switches, in any mix of ready
  and stale state bytes; spawns that fail and spawns that run out of objects.
* `paging`: page faults under tables that exist and that do not, in either
  half of the user space and in the kernel's; frames and objects run out.
* `desk` and the others on `MCDesk`: the manager registers before, between and after
  the creations; with two programs requests mix at rusk and the choice changes
  between their windows; a second batch of events is typed while the first is
  under way; three events are enough to press, release and press again.  `desk` has
  presses only: of the four kinds they do most (they choose, recolour, bring to the
  front and go on to the program); `focus` has all four.  Both follow an execution in
  which rusk has missed an argument only as long as nothing is typed (`MCQuietAstray`):
  their invariants speak of the executions before that, and `astray` never becomes
  FALSE again (`AstrayStays` in `DeskProofs`).

The history variables `highFreed`, `overflowed`, `undercut`, `beyond`, `exhausted`, `torn`,
`hasty`, `mixed`, `loose` and `astray` draw the line where the code stops being right.  Each is a state the
code really reaches; what happens beyond it:

* `highFreed`: an object of the second bitmap word was freed; the bit of
  another object is cleared and that object is handed out a second time.
* `overflowed`: a request of 2^20 pages or more is taken for a smaller one.
* `undercut`: `receive` gives back, byte for page, a page or more of a buffer that stays
  in use (a message of 2^12 pages received at once); the page is handed out again.
* `beyond` (an entry's data has reached the end of its page): `0x1000 - 0x1000 % n` (`ports.c:45`) lets a message
  be written past the page, into the buffer of another channel, and divides by
  zero for n = 0, which stops the machine.
* `exhausted`: `alloc_pages` or `alloc_kobj` returned 0 and the result was used.  A page
  is then mapped to frame 0, or stays mapped when another program runs, or a process
  is written at address 0: the runs go on past it and no property speaks of it.
* `torn`: `spawn_process` reads the program to copy from a page that is not
  there yet; the page fault moves the window and the next bytes of the program
  are written over a page table (`process.c:60`, `paging.c:34-38`).  The start
  program has always read the file into the pages first, so it does not happen
  today.
* `mixed`: a poll found a packet incomplete and handed its bytes on as keys, took a
  key for a part of a packet, left an interrupt raised for a key it had read, or
  the ring was full (a release that is lost there leaves a button down).
* `loose`: a program released a handle that was not locked for it, which it gets by
  a path that ends in `/` or by releasing twice; `unlock` complements the bit, so
  the file is locked for ever.
* `astray` (of `Fs`): a lookup met the second string node of a long name, whose
  link is a pointer of the builder's memory (`f301_builder/src/fs.c:424`).
* Without a variable of their own: a file of more sectors than eight bits can
  tell is read modulo that (`ata.c:29`), and a read past the end of an
  extent goes on into the next file (`fs.c:156`); `Short` and the counts of
  `TreeAsDeclared` leave them out, the run has both.

`Desk` has specifications of its own for what the user and the scheduler do.
`Spec` is everything, the arguments that are missing included (`astray`); the safety
properties are stated up to the first of them, because no more is true: past it one
late argument shifts everything rusk reads of that program.  In
`SpecSettled` the first event is typed when the windows are open (the states
before that are those of `desk`).  `hasty` says that an event did not wait for
the effect of the one before: with a press typed while the manager's update of
the same window is under way (`focus` shows it when `~hasty` is taken out of
`CopyFresh`) the manager goes on from the list it was given, in which the window
is where it was before, and the first move is undone (`bearing.c:121-147`).  A
press before the first window exists ends the execution (`halted`): the manager
follows the NULL of the empty list (`bearing.c:44`) to a page only the kernel
may use.

**The violated properties.**

`ArgumentsThere`: a client sends the number of `create_expanse` and its
argument in two system calls (`shiny.c:67-68`).  If the timer interrupts between
them and rusk runs, `receive_data` (`rusk_comm.c:42-44`) gets nothing, does not
notice, and the argument that follows is taken for the next function number,
an index into `funcs[]`.  `InStep`, which is proved, is the other half: nothing else that is
read in the window system is read too early or for something it is not, so a rusk that
waited for its arguments would never misread a message.

`RemoveRemoves`: `remove_expanse_func` takes the handle for a pointer
(`rusk_comm.c:70-73`); no program calls `destroy_expanse` today.  For the same reason
nothing reaches `remove_expanse`, which never looks at the head of a list of two
or more (`rusk.c:267`).

The comment at `scheduler.asm:60`, "set thread as running", stands over an
instruction that writes 1, which `process.h` names `THRD_STATE_SETUP`
(`THRD_STATE_RUNNING` is 2).  The scheduler only compares with 0, so it makes no
difference to it, and no run is spent on it.

**Deadlock** is checked in all runs but those of `Desk` (programs that have
opened their windows wait for a user who need not type, and `EventsArrive` says
what must not be waited for), `ports` (the bound on messages and the stop
after a division by zero end executions),
`paging` (objects and frames run out), `keyring` (the bound on inputs and `mixed` end
executions) and `startup` (start ends, or waits for ever without a list).

**Fairness.**  `sched`, `arrive`, `keyring` and `startup` use it.  `keyring` has weak
fairness of the mouse's sending of the packet it has begun, of the keyboard
interrupt (interrupts are disabled for one kernel entry only) and of rusk's loop,
which is a thread like any other; none of the user.  `EveryKeyArrives`
needs no scan code to come in the right moment: a key that was read
by the poll goes through `kb_write` to the same ring.  `startup` has weak fairness of
the boot loader, `kmain` and start's steps, and none of the other program, so
`AllStarted` excuses executions in which it held a file just then.  `arrive` has weak fairness of each
program's steps, which is what `EveryThreadRuns` of `Sched` says the scheduler
gives a thread (its programs are spawned ready), and none for the user.  It
follows executions in which `ArgumentsThere` holds, that is, in which no program
is interrupted between a function number and its argument for long enough that
rusk gets to it; the `arguments` run shows that the others exist.
`sched` has weak fairness of `context_switch`.  Each
path through the handler arms the timer again (`scheduler.asm:114-117`,
`138-144`) and user programs run with interrupts enabled
(`scheduler.asm:119`), so the interrupt always comes again.

## 5. What is proved

`ResourceProofs` has three parts, which share no state.  *Kernel objects*, from `IntBits >= 2` alone.  The inductive invariant `IInv`
adds `HighBitsAgree` to the type invariant and `BitmapExact`: from the sign bit
of the int upwards the bits of a word are equal.  Without it nothing rules out
a word whose only free bits lie above the int's width, where the scan of
`alloc_kobj` would never find them.  One lemma per action, on top of lemmas about the
shifted one (`ShiftedOneCases`, `ShiftUniform`).  The theorems: `TypeCorrect`,
`ScanTerminates`, `BitmapIsExact`, `AllocationsAreFresh`, `VerifyIsRight` (about
`verify_kobj`, a consequence that no run repeats), and `HalfThePage`, which is
`Capacity`: if an allocation fails, every object the scan can reach is in use, and
counting those gives two words of the bitmap without the header.

*The heap* (`PayloadsApart`), from the size of a header being positive and
the heap's a multiple of it.  `NoOverlap` is not inductive: the proof needs that the ring is one
block (`OneBlock`: the last one, ending where the heap ends), because `free` gives
nothing back, and that every size in it is a whole number of headers.  The second is
why a block that is larger than a request is larger by at least a header, so the rest's size
does not wrap; with `free` as it is written below its `return` neither would hold.
Lemmas about rounding (`Quotient`, `RoundedUp`), one per outcome of `malloc`.

*Locks of files* (`OneHolderEach`), from no assumption on trees, paths or programs:
`locked` is the union of what the programs own, and no two own the same; acquiring
adds only what was not locked (`AcquiredFresh`), releasing an owned node clears its bit.

`InputProofs`, first about the ring alone, from `KEY_BUF_MAX_SIZE >= 2`.  Type correctness
is inductive; the refinement (`RingIsFifo`) rests on lemmas about indices that wrap
(`MoveIndex`, `CellOrder`) and about windows of a ring (`WindowSplit`,
`WindowGrow`), and has one lemma per operation.

Then about the whole way of a key (`KeysArrive`, `PacketsCounted`, `ShiftHeard`, `RingTyped`), from
`InputAssumption`: a byte is below 256, no key has a code used for a button, a packet moves by
what a signed byte can hold.  That the ring does what the queue's operations do to the unread
bytes (`UnreadKey`, `UnreadRead`, `UnreadWrite`) is all that is used of it from there on.
While nothing is mixed up, what reads the controller hands over either keys as they
are or one whole packet (`InterruptPasses`, `MousePasses`), and the inductive invariant is
four statements about the one line of bytes that leads from the devices to rusk:

* `Ordered`: the keys rusk has, those in the ring and those in the controller are, in this order,
  those typed,
* `AllTold`: the codes of a button take turns from the first to the last one handed on, which
  agrees with `obtns`,
* `Placed`: the bytes of packets on their way, in the controller and in the mouse, are threes
  that lead from where the pointer is to where all packets sent have moved it (`Route`).  A packet
  sent makes the way one step longer, one read makes it shorter by its first (`Longer`, `Shorter`);
  the other conjuncts of `PacketsCount` say nothing while a packet is half sent,
* `HeardRight`: the events made are right for the keys rusk was *given*.  `ShiftRight` itself, which
  compares with the keys typed, is not inductive: it follows because those given are the first of those
  typed (`Ordered`) and neither a place among the letters nor the shift at it depends on what
  comes later (`SamePlaces`).

What `Only` picks out of a sequence, of two sequences together (`OnlyCat`) and of one more element,
and what the loop of `process_events` does byte by byte (`ReadHeard`), is proved by induction.

`SchedProofs` (`OneThreadTaken`, `WaitIsBounded`), from the assumptions on the
constants in `Sched`.  `OneTaken` needs
that a thread whose state byte was not ready when it was spawned never becomes the
current one (`StaleStay`), since only that one's byte is set back.  The bound on the wait needs `NeverPassedOver`: a thread has
waited at most as long as there are threads behind it in the ring.  A spawn puts the
new thread at the second place: those behind it move on by one place, in a ring that is longer by one; a switch rotates the ring past the chosen thread, so every
ready thread gets closer to the head by at least the one switch it has waited.  The lemmas `RotatedRing` and `LinkedRing` say what
both do to a place of the ring.

`PageMgrProofs` (`ChunksSound`, `NoSharing`, `ListsArePool`), from
`MapAssumption`, which says that the entries of the memory map are apart, and
`PageMgrAssumption`, which asks nothing of their alignment: only the kernel's own region
starts on a page, as the code sets it.  The inductive invariant is `Types`, `AllSound` (each region
starts a whole number of pages from the start of a usable map entry, kernel ones on a page, and none
of the physical ones at 0, since `init_page_mgr` skips it) and, until a request overflows or a
page is undercut, `Separate`: what any two regions of a list offer and the chunks handed out of
it are apart, and so are any two chunks.  `AllSound` holds behind both too, because what is split off is
a whole number of pages and what is given back only makes a region grow upwards, or
downwards to a chunk's start.  `Separate` is about `Offered` and not about the regions, since
`ports.c` puts bytes in use on the list: fewer than a page at a time, at the start of a page,
which offers nothing, and when two regions that offer nothing of a page are merged, or one is
merged behind a region that does, the sum still offers no page of a buffer in use (`KeptMerged`, with
`RemainderPlus` about what is left of a sum).  That a region's rest offers what it did
before without the pages split off is `CutRest`.  Three lemmas for each of the list operations (`Taken`,
`Grown`, a region put in front): the list stays apart, stays clear of a chunk
it was clear of, stays sound; and for a free of bytes in use that what is on offer does not
change at all (`FreedInUse`).  For the refinement, the same operations are followed byte by byte
(`UsableBytes`, `PrependedBytes`): an allocation takes one range from the pool, giving back
returns a range or, with no object left, loses it; freeing bytes in use and the step of other
users of objects are stutters.

`PortsProofs` (`BytesAreApart`, `StreamsKept`), from `PortsAssumption`.  They need, while
`beyond = 0`, the invariant `Buffers`:

* `InPages`: an entry's unread bytes end within its first page,
* `Paged`: each entry has pages of its own, below the front of the kernel's
  virtual pages, which only moves up.  With `InPages`, no two entries share an unread byte, and
  what `send` writes is unread in no entry,
* `Stored`: each unread byte in memory is of the entry's channel and of a message
  already sent, and no two are the same byte,
* `Whole`: the unread bytes of a message lie in one entry.

`Whole` is what makes `receive` right, which looks for the first entry with enough bytes
and does not join two: if the bytes of the message in front are
in one entry, and there are as many as asked for, the first entry that has enough is the one in front.
Beyond the end of a page `InPages` is false and nothing is left of the rest, as the
`beyond` states show.  `Streams` therefore has the step left out that the run leaves out
(`OutOfStep`: a receiver asks for more than the message in front has left, and gets a later
entry's bytes), and the theorem is about every step that is not one, those after it
included.  The proof cuts a channel's stream into its parts, one per entry, and shows
what changing one part does to the whole: `LastLonger` for `send`, `FirstChanged` for
`receive`, `SameBefore` for the other channels.  A receive of 0 bytes finds nothing in a channel that has no
entry, so `Streams` lets such a receive come back empty-handed.

`DeskProofs` (`AlwaysInStep`), from `WireAssumption` and `DeskAssumption`.  What
may follow what in a channel is said by a set of steps `<<w, m, v>>`: a reader in state w
who is given m is then in state v.  A `Path` is a sequence of messages that leads from one
state to another.  The inductive invariant `StepInv` says that what rusk is asked by
each program is a path from what it still wants (`Left`) on through the channel and
through what the program has yet to send, back to where nothing is wanted (`Asks`); and
that each channel from rusk is a path from what its reader waits for (`Turn` for the
manager) to a state in which it may be left.  The manager's registration is apart
(`Registering`): before it is accepted, one message is all there is between it and rusk.
The rest of the invariant, `RequestRight`, says what rusk has got of a request, which is
why what it sends is right too.  A send moves the border between channel and program
(`AskSend`), a receive takes the first step of the path (`AskPop`), and whoever begins a
request sends nothing but whole ones (`Whole`): the work is in `ClientRequests`,
`BearingRequests`, `AfterRight` (whatever events the manager looks at, in any number) and
`AllIntroduced`.  `StepInv` is kept by every step in which rusk misses nothing (`Orderly`);
the theorem is about all of `Spec`, with `astray \/ StepInv` for an invariant.  `FirstMissed` is what ties
the two: from a state with `StepInv` the only way to misread anything is that an argument is not
there at all, which sets `astray`; no message of a wrong kind is ever in its place.

`DeskOwnProofs` (`OwnPicturesShown`, `OwnHandlesGiven`, `EachIntroducedOnce`, `EventsInOrder`), on top
of `StepInv`, which says that every message is read as what it is, and like `AlwaysInStep`
until rusk first misses an argument.  The
lemmas on lists of events that it rests on (`JoinedCat`, `AfterSorts` and others) are at the end of
`DeskProofs`.  Four more inductive invariants say whose it is:

* `OwnInv`: no handle is given twice and each is below `count`; the handles in a program's list,
  those it sends and those it is sent name expanses it created, and so does the one in
  the request rusk is serving for it.  Only a drawing changes `drawn`, so no expanse shows
  another program's picture, whoever is brought to the front, moved or removed in between
  (`Reordered`: the list's order changes, its expanses do not),
* `KeepInv`: a program has at most one creation under way (`OneAtATime`), in its own requests, at
  rusk or in the reply; a handle of its own that it has not got is in that reply (`Kept`).  That is
  why the handle that comes with events is found in the list once the program is in its
  main loop.  Where a handler may destroy its window nothing is claimed,
* `MetInv`: once the manager is registered, the handles it was introduced to and those in
  the orders to it are distinct and together all there are (`MetOnce`).  The two ways in, the list sent at the
  registration and the order sent at each creation, are followed in `MetRegister` and `MetCreate`,
* `FlowInv`: the events are a line (`Lined`).  Each program has had the front part of it (`Had`: what it
  read and what waits in its queue), and everyone's rest is one sequence (`Rest`): what rusk has
  taken to pass on, what the manager has sent back or is about to, and the lists on their way to the
  manager.  Each step moves the border (`FlowReceive`, `FlowSend`), drops some in the middle
  (`FlowHandles`: the manager keeps what it uses) or adds to the end (`FlowRead`).  `EventsOrdered` itself is not
  inductive: it says of each program's events that they are in order, not that those still to be
  given come later than those given to *another* program, which is what a change of the front
  window needs.

`PagingProofs` (`TreeHolds`, `PagesAreOwn`, `FramesAreApart`, `KernelHolds`), from
`PagingAssumption`, for any number of levels and entries, segments and programs.  The inductive
invariant, while frames last and no copy is torn:

* `TreeOk`: a table is reached at one level and by one prefix of a page's indexes only,
  and all tables lie below `next`; the table with the window is the one its page's indexes lead to, so the window is an
  entry of the tree it is used to edit,
* `Held`: the workspaces list frames below `next` which are no tables, no frame is listed
  twice, code pages lie in the lower half and stack pages in the upper,
* `Mapped`: a page of the user half leads to a frame if and only if the running program's
  workspaces list the two together.

`FramesApart` alone is not inductive: a frame with two uses would appear when a
table that is also a page is written, which `TreeOk` excludes, since an entry that is written concerns
the pages with its prefix and no others (`OtherPages`, `LeafSets`), and a new table
the pages that had none (`LinkSets`).  `set_pt_entry` is followed level by level
(`CheckFinds`, `EntryIsSet`), a switch page by page (`PagesEntered`, `Swapped`: an old page that is
not also a new one is taken out), then a fault (`FaultFine`), a spawn with its copy (`SpawnGood`) and a switch
(`SwitchGood`).  What page indexes are is arithmetic on quotients (`Reach`, `Prefix`): that the indexes
name a page is proved by induction on the levels, and the initial tree of the boot loader from
it (`BootTreeOk`).

Only model-checked:

* `ChosenInFront` and `CopyFresh` of `Desk`, which need what has `Settled`; not attempted.
* `PollTellsSent` of `Ports`: that an entry is unread if and only if more was sent than received
  is about a sum over the entries of a channel, in any number, and holds beyond the end of
  a page, where none of the invariants above does.
* `Startup` but for `OneHolder` and `NoOverlap`: what is on the disk is computed by
  RECURSIVE operators (below).
* All liveness: `EveryThreadRuns`, `EveryKeyArrives`, `AllStarted`, `WindowsOpen`,
  `EventsArrive`.

*Induction.*  The induction theorems of the library take an operator as a parameter and cannot be used.
For a recursive *function* the least counterexample does as well: the set of
numbers where the claim fails is a subset of the naturals, and one that is not empty
has a least element (`LeastNumber` of `PortsProofs`, `PagingProofs` and `InputProofs`).  That is how the joins of sequences are
reasoned about, whose definition in the community modules is such a function, the loops of
`Paging` over levels, segments and pages, and `Only` and the loop of `process_events` in `Input`.  The parser and the builder
use RECURSIVE operators, whose definitions the provers cannot expand, so `TreeAsDeclared` is
checked over the images of `MCStartup` and cannot be proved.

## 6. What is not modelled

The drivers other than the reading of disk blocks, and the boot loader's BIOS calls, are
port I/O; the interrupt descriptor, driver and task state tables are filled once;
`lib/sheep` is unfinished and linked into nothing; the pure functions of the C
library keep no state of interest, and `realloc` and `calloc` are called by nothing
that is modelled.  `end_process` and `end_thread` are empty
functions, so processes never end in the models either.  Of the window system
what rusk draws on the screen, its own copy of the pointer's place (`PlaceTrue`
is about the kernel's `mousex` and `mousey` only), and the widgets inside a window
are left out; so are the heaps of rusk and the manager, which lists that are never freed
use up, and what rusk does after it took an argument for a function number.  Of the file
system a second node table, which the builder does not finish, so that nothing is
shown about tables that lie between files; the permissions of a node, which are
written to the disk uninitialised and read by nothing; and what lookups find after
the node table was read over.  The lock of a node is taken and given back in single
steps, since no system call waits for one.
