------------------------------ MODULE Streams ------------------------------
(***************************************************************************)
(* What the ports promise the programs: between each sender and receiver,  *)
(* on each port, a first-in first-out stream of bytes.  A message may be   *)
(* dropped whole when the kernel has no memory for it.  A receive call     *)
(* takes the next bytes of the stream or nothing; it may come back empty   *)
(* handed only if no bytes are asked for, or they are not all there, or    *)
(* they are not all of the message at the front.                           *)
(*                                                                         *)
(* A byte is [ch, msg, pos]: the channel it was sent on, the number of its *)
(* message there and its place in the message.                             *)
(***************************************************************************)
EXTENDS Naturals, Sequences

CONSTANTS
  Channels,    \* [from, to, port]
  Sizes        \* sizes of messages and of receive calls

VARIABLES
  stream,      \* the bytes sent and not received, by channel
  msgs,        \* the number of messages sent so far, by channel
  reply        \* what the last call returned

vars == <<stream, msgs, reply>>

Message(ch, k, size) == [i \in 1 .. size |-> [ch |-> ch, msg |-> k, pos |-> i]]
NoReply == [ok |-> FALSE, bytes |-> <<>>]

(* The next n bytes are there and belong to one message. *)
Ready(s, n) == n <= Len(s) /\ \A i \in 1 .. n : s[i].msg = s[1].msg

Init ==
  /\ stream = [ch \in Channels |-> <<>>]
  /\ msgs = [ch \in Channels |-> 0]
  /\ reply = NoReply

Send(ch, size) ==
  /\ msgs' = [msgs EXCEPT ![ch] = @ + 1]
  /\ reply' = NoReply
  /\ \/ stream' = [stream EXCEPT ![ch] = @ \o Message(ch, msgs[ch] + 1, size)]
     \/ UNCHANGED stream

Receive(ch, size) ==
  /\ UNCHANGED msgs
  /\ \/ /\ size <= Len(stream[ch])
        /\ reply' = [ok |-> TRUE, bytes |-> SubSeq(stream[ch], 1, size)]
        /\ stream' = [stream EXCEPT ![ch] = SubSeq(@, size + 1, Len(@))]
     \/ /\ size = 0 \/ ~Ready(stream[ch], size)
        /\ reply' = NoReply
        /\ UNCHANGED stream

Next == \E ch \in Channels, size \in Sizes : Send(ch, size) \/ Receive(ch, size)

Spec == Init /\ [][Next]_vars
=============================================================================
