------------------------------ MODULE KeyRing ------------------------------
(***************************************************************************)
(* The keyboard device: the ring key_buf of keyboard.c, filled by the      *)
(* interrupt handler key_int of keyboard.asm and by kb_write (which the    *)
(* mouse driver calls), emptied by kb_read.  System calls and interrupt    *)
(* handlers all run with interrupts disabled, so each is one step.         *)
(*                                                                         *)
(* The cell at key_buf_top is always spare.  kb_write stops when it would  *)
(* have to fill it; key_int fills it and then moves key_buf_bot past the   *)
(* byte it has overrun.                                                    *)
(***************************************************************************)
EXTENDS Integers, Sequences

CONSTANTS
  KEY_BUF_MAX_SIZE,   \* cells of the ring
  Bytes,              \* what a cell may hold
  Chunks,             \* buffers given to kb_write
  Sizes               \* sizes given to kb_read

ASSUME RingAssumption ==
  /\ KEY_BUF_MAX_SIZE \in Nat /\ KEY_BUF_MAX_SIZE >= 2
  /\ 0 \in Bytes
  /\ Chunks \subseteq Seq(Bytes)
  /\ Sizes \subseteq Nat

Cells == 0 .. KEY_BUF_MAX_SIZE - 1

VARIABLES
  key_buf, key_buf_top, key_buf_bot,
  reply       \* what the last system call returned: buffer and count

vars == <<key_buf, key_buf_top, key_buf_bot, reply>>

-----------------------------------------------------------------------------

WrapLate(i) == IF i > KEY_BUF_MAX_SIZE THEN i - KEY_BUF_MAX_SIZE ELSE i  \* variant

(* An index that went past the end starts over. *)
Wrap(i) == IF i >= KEY_BUF_MAX_SIZE THEN i - KEY_BUF_MAX_SIZE ELSE i

(* Steps from cell i forward to cell j. *)
Ahead(i, j) == IF i <= j THEN j - i ELSE j + KEY_BUF_MAX_SIZE - i

Used == Ahead(key_buf_bot, key_buf_top)

(* The n bytes of a ring that start at cell c. *)
Window(ring, c, n) == [i \in 1 .. n |-> ring[Wrap(c + i - 1)]]

Least(a, b) == IF a <= b THEN a ELSE b

NoReply == [data |-> <<>>, count |-> 0]

-----------------------------------------------------------------------------

Init ==
  /\ key_buf = [c \in Cells |-> 0]
  /\ key_buf_top = 0
  /\ key_buf_bot = 0
  /\ reply = NoReply

(* Variant: a full ring does not give up its oldest byte. *)
key_int_full(k) ==
  /\ key_buf' = [key_buf EXCEPT ![key_buf_top] = k]
  /\ key_buf_top' = Wrap(key_buf_top + 1)
  /\ reply' = NoReply
  /\ UNCHANGED key_buf_bot

(* The keyboard interrupt stores the byte, advances the top and, when that *)
(* meets the bottom, gives up the oldest byte.                             *)
key_int(k) ==
  /\ key_buf' = [key_buf EXCEPT ![key_buf_top] = k]
  /\ key_buf_top' = Wrap(key_buf_top + 1)
  /\ key_buf_bot' = IF key_buf_top' = key_buf_bot THEN Wrap(key_buf_top' + 1)
                    ELSE key_buf_bot
  /\ reply' = NoReply

(* Variant: what does not fit into the buffer is dropped. *)
kb_read_all(size) ==
  /\ reply' = [data |-> Window(key_buf, key_buf_bot, Least(size, Used)),
               count |-> Least(size, Used)]
  /\ key_buf_bot' = key_buf_top
  /\ UNCHANGED <<key_buf, key_buf_top>>

(* The loop of kb_read takes bytes until the buffer is full or bot = top. *)
kb_read(size) ==
  LET n == Least(size, Used)
  IN  /\ reply' = [data |-> Window(key_buf, key_buf_bot, n), count |-> n]
      /\ key_buf_bot' = Wrap(key_buf_bot + n)
      /\ UNCHANGED <<key_buf, key_buf_top>>

(* The loop of kb_write stores bytes until the buffer is used up or the    *)
(* next cell is the bottom one.                                            *)
kb_write(buf) ==
  LET n == Least(Len(buf), KEY_BUF_MAX_SIZE - 1 - Used)
  IN  /\ key_buf' = [c \in Cells |->
                       IF Ahead(key_buf_top, c) < n
                       THEN buf[Ahead(key_buf_top, c) + 1]
                       ELSE key_buf[c]]
      /\ key_buf_top' = Wrap(key_buf_top + n)
      /\ reply' = [data |-> <<>>, count |-> n]
      /\ UNCHANGED key_buf_bot

Next ==
  \/ \E k \in Bytes : key_int(k)
  \/ \E size \in Sizes : kb_read(size)
  \/ \E buf \in Chunks : kb_write(buf)

Spec == Init /\ [][Next]_vars

-----------------------------------------------------------------------------
(***************************************************************************)
(* Properties.                                                             *)
(***************************************************************************)

TypeOK ==
  /\ key_buf \in [Cells -> Bytes]
  /\ key_buf_top \in Cells
  /\ key_buf_bot \in Cells
  /\ reply.data \in Seq(Bytes)
  /\ reply.count \in 0 .. KEY_BUF_MAX_SIZE - 1

(* The unread bytes, oldest first, are the cells from bottom up to top. *)
Unread == Window(key_buf, key_buf_bot, Used)

Fifo == INSTANCE KeyFifo
          WITH Capacity <- KEY_BUF_MAX_SIZE - 1, queue <- Unread

(* The ring behaves as a bounded queue: whatever the order of interrupts,  *)
(* reads and writes and wherever the indices wrap, bytes come out in the   *)
(* order they went in, and only a key that finds the ring full costs one,  *)
(* the oldest.                                                             *)
ImplementsFifo == Fifo!Spec
=============================================================================
