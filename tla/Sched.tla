------------------------------- MODULE Sched -------------------------------
(***************************************************************************)
(* Processes, threads and the context switch: kernel/src/process.c and     *)
(* scheduler.asm.                                                          *)
(*                                                                         *)
(* Threads form a ring that starts at head_thread.  The timer interrupt    *)
(* gives the processor to the first thread of the ring that is ready and   *)
(* moves the head past it.  A process is spawned, with its one thread, by  *)
(* kmain before the timer starts and by the system call exec_fbe; both run *)
(* with no timer interrupt, so that procthrd_lock is never seen held and   *)
(* a spawn is one step.                                                    *)
(*                                                                         *)
(* spawn_thread does not write the state of the new thread, which is what  *)
(* the last user of the kernel object left in its second byte: 0 in a slot *)
(* never used, 1 (USABLE) in one that described free pages.                *)
(***************************************************************************)
EXTENDS Naturals, Sequences, SequencesExt

CONSTANTS
  Threads,      \* the threads that may be spawned, each for its own process
  None,         \* NULL
  StaleBytes,   \* what the state byte of a new thread may hold
  MaxObjects    \* bound: kernel objects not in use at the start

THRD_STATE_READY   == 0
THRD_STATE_SETUP   == 1

ASSUME SchedAssumption ==
  /\ None \notin Threads
  /\ StaleBytes \subseteq Nat
  /\ MaxObjects \in Nat

VARIABLES
  ring,            \* the threads, from head_thread round to it
  processes,       \* the processes, from head_process round to it
  state,           \* state byte of each thread
  current_thread,
  mapped,          \* whose workspaces are mapped: [code, stack]
  kobjs,           \* kernel objects not in use
  exhausted,       \* history: alloc_kobj has returned NULL to a spawn
  waited,          \* history: switches since a ready thread was last chosen
  notReady         \* history: threads whose state byte was not 0 at first

vars == <<ring, processes, state, current_thread, mapped, kobjs, exhausted, waited,
          notReady>>

Spawned  == Range(ring)
Ready(t) == state[t] = THRD_STATE_READY

(* A new object goes behind the first of a ring. *)
Linked(r, x) == IF r = <<>> THEN <<x>> ELSE InsertAt(r, 2, x)

(* Variant: the head stays where it was. *)
SameHead(i) == ring

(* The ring read from the thread after the i-th. *)
RotatedPast(i) == SubSeq(ring, i + 1, Len(ring)) \o SubSeq(ring, 1, i)

-----------------------------------------------------------------------------

Init ==
  /\ ring = <<>>
  /\ processes = <<>>
  /\ state = [t \in Threads |-> THRD_STATE_READY]
  /\ current_thread = None
  /\ mapped = [code |-> None, stack |-> None]
  /\ kobjs = MaxObjects
  /\ exhausted = FALSE
  /\ waited = [t \in Threads |-> 0]
  /\ notReady = {}

(* A thread and its process enter the rings. *)
Enters(t) ==
  /\ \E b \in StaleBytes :
       /\ state' = [state EXCEPT ![t] = b]
       /\ notReady' = IF b = THRD_STATE_READY THEN notReady ELSE notReady \cup {t}
  /\ ring' = Linked(ring, t)
  /\ processes' = Linked(processes, t)

(* Five objects make a process: process, workspace, thread, the second     *)
(* half of the thread, stack workspace.                                    *)
spawn_process(t) ==
  /\ t \notin Spawned
  /\ kobjs >= 5
  /\ kobjs' = kobjs - 5
  /\ Enters(t)
  /\ UNCHANGED <<current_thread, mapped, exhausted, waited>>

(* Without pages for the process its object is given back, without pages   *)
(* for the stack the thread's two as well.  The workspaces never are, and  *)
(* the pages of the process, given back as bytes, take a region object.    *)
spawn_fails ==
  /\ \/ kobjs >= 2 /\ kobjs' = kobjs - 1
     \/ kobjs >= 5 /\ kobjs' = kobjs - 3
  /\ UNCHANGED <<ring, processes, state, current_thread, mapped, exhausted, waited,
                 notReady>>

(* With fewer objects a spawn goes on all the same: NULL is not looked at, *)
(* and what has no object is written at address 0, one part over the       *)
(* other.  The thread is in the ring if at least it has an object; if not, *)
(* the spawn reports a failure and gives back what it did get.  What those *)
(* threads do is not told apart further: `exhausted' marks these           *)
(* executions, and no property speaks of them.                             *)
spawn_short(t) ==
  /\ t \notin Spawned
  /\ kobjs < 5
  /\ exhausted' = TRUE
  /\ \/ kobjs >= 3 /\ kobjs' = 0 /\ Enters(t)
     \/ /\ kobjs' \in 0 .. kobjs
        /\ UNCHANGED <<ring, processes, state, notReady>>
  /\ UNCHANGED <<current_thread, mapped, waited>>

(* Variant: the interrupted thread stays taken. *)
MarkedOnly(t) == [state EXCEPT ![t] = THRD_STATE_SETUP]

(* The states once t was marked and the interrupted thread, if any, made   *)
(* ready again, in this order.                                             *)
Marked(t) ==
  [s \in Threads |-> IF s = current_thread THEN THRD_STATE_READY
                     ELSE IF s = t THEN THRD_STATE_SETUP ELSE state[s]]

(* The loop from head_thread stops at the first ready thread; without one  *)
(* the interrupted program goes on.                                        *)
context_switch ==
  \/ /\ \A t \in Spawned : ~Ready(t)
     /\ UNCHANGED vars
  \/ \E i \in DOMAIN ring :
       LET t == ring[i] IN
       /\ Ready(t)
       /\ \A j \in 1 .. i - 1 : ~Ready(ring[j])
       /\ ring' = RotatedPast(i)
       /\ state' = Marked(t)
       /\ current_thread' = t
       /\ mapped' = [code |-> t, stack |-> t]
       /\ waited' = [s \in Threads |->
                       IF s \in Spawned \ (notReady \cup {t})
                       THEN waited[s] + 1 ELSE 0]
       /\ UNCHANGED <<processes, kobjs, exhausted, notReady>>

Next ==
  \/ \E t \in Threads : spawn_process(t) \/ spawn_short(t)
  \/ spawn_fails
  \/ context_switch

Spec == Init /\ [][Next]_vars

(* The timer is armed again by every context switch and a program cannot   *)
(* mask it, so it always fires again.                                      *)
FairSpec == Spec /\ WF_vars(context_switch)

-----------------------------------------------------------------------------
(***************************************************************************)
(* Properties.                                                             *)
(***************************************************************************)

(* One processor, one taken thread: of the threads that were ready when    *)
(* they were spawned just the current one is marked as taken, all others   *)
(* can be chosen by the next timer interrupt.  A mark that stays behind    *)
(* would lose a thread, a missing one would run a thread over its own      *)
(* saved stack pointer.                                                    *)
OneTaken ==
  ~exhausted =>
    \A t \in Spawned \ notReady : ~Ready(t) <=> t = current_thread

(* Round robin: between two turns of a thread each other thread is chosen  *)
(* at most once, although new threads are put in front of those that wait. *)
BoundedWait ==
  ~exhausted =>
    \A t \in Spawned \ notReady : t # current_thread => waited[t] < Len(ring)

(* A thread that is ready when it is spawned gets the processor again and  *)
(* again, unless objects run out.                                          *)
EveryThreadRuns ==
  \A t \in Threads :
    t \in Spawned \ notReady ~> (t = current_thread \/ exhausted)
=============================================================================
