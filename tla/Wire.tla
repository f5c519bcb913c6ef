-------------------------------- MODULE Wire --------------------------------
(***************************************************************************)
(* What the programs of the window system share: the port channels of the  *)
(* kernel (see Ports and Streams), the registry of kernel/src/wsysreg.c,   *)
(* and the machine, which stops for good at a page fault on a page that is *)
(* present (kernel/src/paging.asm).                                        *)
(*                                                                         *)
(* Messages are received with the size they were sent with, so a channel   *)
(* is a queue of messages.  A list or a picture, sent as a count and its   *)
(* items and received in loops that wait for each of them, is one message. *)
(*                                                                         *)
(* A program works out what it has to send to rusk, then makes its system  *)
(* calls one by one; between any two of them another program may run.      *)
(* Everyone but rusk waits for the next message before it does anything    *)
(* else, so what rusk sends at the end of a request is one step.           *)
(***************************************************************************)
EXTENDS Naturals, Sequences, SequencesExt

CONSTANTS
  Rusk, Bearing,   \* the expanse system, the expanse manager
  Clients,         \* the programs with windows
  None             \* NULL

ASSUME WireAssumption ==
  /\ Rusk # Bearing /\ Rusk \notin Clients /\ Bearing \notin Clients
  /\ None \notin Clients \cup {Rusk, Bearing}

VARIABLES
  wire,     \* messages that were sent and not received, by <<from, to, port>>
  out,      \* what each program still has to send
  wsys,     \* the registered window system
  halted    \* the machine has stopped

wireVars == <<wire, out, wsys, halted>>

ES_COMM_PORT    == 16
EVENT_COMM_PORT == 17

Programs == {Rusk, Bearing} \cup Clients
Channels ==
  {<<p, q, port>> : p \in Programs, q \in Programs, port \in {ES_COMM_PORT, EVENT_COMM_PORT}}

Message(type, val)     == [type |-> type, val |-> val]
To(q, port, type, val) == [to |-> q, port |-> port, msg |-> Message(type, val)]

InitWire ==
  /\ wire = [ch \in Channels |-> <<>>]
  /\ out = [p \in Programs |-> <<>>]
  /\ wsys = None
  /\ halted = FALSE

(* A program that has sent everything. *)
Free(p) == ~halted /\ out[p] = <<>>

Waiting(p, q, port) == wire[<<q, p, port>>]

(* p has received the first n messages from q and goes on to send s. *)
Receives(p, q, port, n, s) ==
  /\ wire' = [wire EXCEPT ![<<q, p, port>>] = SubSeq(@, n + 1, Len(@))]
  /\ out' = [out EXCEPT ![p] = s]
  /\ UNCHANGED <<wsys, halted>>

Sends(p, s) ==
  /\ out' = [out EXCEPT ![p] = s]
  /\ UNCHANGED <<wire, wsys, halted>>

(* The channels w with the messages s of p added to one of them.           *)
Posted(w, p, q, port, s) == [w EXCEPT ![<<p, q, port>>] = @ \o s]

Delivers(w) == wire' = w /\ UNCHANGED <<out, wsys, halted>>

(* The next system call send of p. *)
send(p) ==
  /\ ~halted /\ out[p] # <<>>
  /\ LET s == Head(out[p])
     IN  wire' = [wire EXCEPT ![<<p, s.to, s.port>>] = Append(@, s.msg)]
  /\ out' = [out EXCEPT ![p] = Tail(@)]
  /\ UNCHANGED <<wsys, halted>>
=============================================================================
