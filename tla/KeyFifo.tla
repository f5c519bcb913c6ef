------------------------------ MODULE KeyFifo ------------------------------
(***************************************************************************)
(* What the keyboard device promises its readers: a bounded first-in       *)
(* first-out queue of bytes.  A key that arrives when the queue is full    *)
(* pushes out the oldest byte; a program that writes into a full queue is  *)
(* told how little of its data was taken.                                  *)
(***************************************************************************)
EXTENDS Naturals, Sequences

CONSTANTS
  Bytes,      \* scan codes and mouse bytes
  Capacity,   \* most bytes the queue holds
  Chunks,     \* the buffers programs write
  Sizes       \* the sizes programs read

VARIABLES
  queue,      \* the unread bytes, oldest first
  reply       \* result of the last operation: the bytes read, the count

vars == <<queue, reply>>

Least(a, b) == IF a <= b THEN a ELSE b

NoReply == [data |-> <<>>, count |-> 0]

Init ==
  /\ queue = <<>>
  /\ reply = NoReply

Key(k) ==
  /\ queue' = IF Len(queue) < Capacity THEN Append(queue, k)
              ELSE Append(Tail(queue), k)
  /\ reply' = NoReply

Read(size) ==
  LET n == Least(size, Len(queue))
  IN  /\ reply' = [data |-> SubSeq(queue, 1, n), count |-> n]
      /\ queue' = SubSeq(queue, n + 1, Len(queue))

Write(buf) ==
  LET n == Least(Len(buf), Capacity - Len(queue))
  IN  /\ reply' = [data |-> <<>>, count |-> n]
      /\ queue' = queue \o SubSeq(buf, 1, n)

Next ==
  \/ \E k \in Bytes : Key(k)
  \/ \E size \in Sizes : Read(size)
  \/ \E buf \in Chunks : Write(buf)

Spec == Init /\ [][Next]_vars
=============================================================================
