------------------------------- MODULE Ports -------------------------------
(***************************************************************************)
(* Message ports, kernel/src/ports.c: the system calls send, poll and      *)
(* receive.  System calls run with interrupts disabled, so each is a step; *)
(* plock is taken and given back inside the step.                          *)
(*                                                                         *)
(* Unread bytes are kept in a list of entries, each with a buffer of whole *)
(* kernel pages for one channel (sender, receiver, port).  An entry stays  *)
(* in the list for ever.  `off' bytes of its buffer have been received,    *)
(* the next `size' are unread.                                             *)
(*                                                                         *)
(* Buffers come from the kernel virtual pages of pagemgr.c.  receive gives *)
(* back a number of pages where free_pages expects bytes, so the regions   *)
(* it makes are too small to be handed out again or to meet a neighbour:   *)
(* buffers are taken one after the other from the front of one region, and *)
(* each call of free_pages costs a kernel object.  A kernel write outside  *)
(* every buffer is served by the page fault handler, so memory is flat.    *)
(* NULL points at the first physical page, far from every buffer.          *)
(***************************************************************************)
EXTENDS Naturals, Sequences, FiniteSets, SequencesExt, FiniteSetsExt

CONSTANTS
  Channels,     \* the [from, to, port] that are used
  Sizes,        \* sizes passed to send and receive
  PageSize,     \* 0x1000
  MaxObjects,   \* kernel objects not in use at the start
  MaxMsgs,      \* bound: messages sent on a channel
  MaxBeyond,    \* bound: steps after data has reached the end of a page
  NoProc        \* the NULL poll returns

ASSUME PortsAssumption ==
  /\ PageSize \in Nat /\ PageSize >= 2
  /\ Sizes \subseteq Nat /\ MaxObjects \in Nat /\ MaxMsgs \in Nat
  /\ MaxBeyond \in Nat
  /\ \A ch \in Channels :
       ch.from # NoProc /\ ch = [from |-> ch.from, to |-> ch.to, port |-> ch.port]

VARIABLES
  entries,      \* the list from `head'
  mem,          \* kernel memory as far as it has been written
  kvirt,        \* front of the free kernel pages; NULL when the list is lost
  kobjs,        \* kernel objects not in use
  halted,       \* the processor waits in div0_fault, interrupts disabled
  msgs,         \* history: messages sent, by channel
  beyond,       \* history: steps since an entry's data reached its page's end
  owed,         \* history: bytes taken from senders and not yet received
  reply         \* result of the last receive

vars == <<entries, mem, kvirt, kobjs, halted, msgs, beyond, owed, reply>>

Null  == 0
Blank == [ch |-> NoProc, msg |-> 0, pos |-> 0]

-----------------------------------------------------------------------------

Of(ch) == {i \in DOMAIN entries : entries[i].ch = ch}

(* The entry send appends to; variant: the first instead of the last. *)
FirstOf(ch) == Min(Of(ch))
LastOf(ch)  == Max(Of(ch))

Message(ch, k, size) == [i \in 1 .. size |-> [ch |-> ch, msg |-> k, pos |-> i]]
NoReply == [ok |-> FALSE, bytes |-> <<>>]

(* memcpy to and from kernel memory. *)
Written(a, bytes) ==
  LET there == a .. a + Len(bytes) - 1
  IN  IF a = Null THEN mem
      ELSE [x \in there \cup DOMAIN mem |->
              IF x \in there THEN bytes[x - a + 1] ELSE mem[x]]
Bytes(a, n) ==
  [i \in 1 .. n |-> IF a + i - 1 \in DOMAIN mem THEN mem[a + i - 1] ELSE Blank]

PagesDown(size) == size \div PageSize    \* variant: a part of a page is not counted
Pages(size) == size \div PageSize + (IF size % PageSize # 0 THEN 1 ELSE 0)

(* Bytes of an entry's buffer that are in use or used up, and the test     *)
(* that decides whether a message is appended to them.                     *)
End(e) == e.size + e.off
Appendable(n, size) == PageSize - (PageSize % n) >= size

-----------------------------------------------------------------------------

Init ==
  /\ entries = <<>>
  /\ mem = <<>>
  /\ kvirt = PageSize
  /\ kobjs = MaxObjects
  /\ halted = FALSE
  /\ msgs = [ch \in Channels |-> 0]
  /\ beyond = 0
  /\ owed = [ch \in Channels |-> 0]
  /\ reply = NoReply

(* The test divides by the end of the channel's last entry. *)
DivideByZero(l) ==
  /\ End(entries[l]) = 0
  /\ halted' = TRUE
  /\ UNCHANGED <<entries, mem, kvirt, kobjs, owed>>

AppendTo(l, bytes) ==
  LET e == entries[l]
  IN  /\ mem' = Written(e.addr + End(e), bytes)
      /\ entries' = [entries EXCEPT ![l].size = @ + Len(bytes)]
      /\ owed' = [owed EXCEPT ![e.ch] = @ + Len(bytes)]
      /\ UNCHANGED <<kvirt, kobjs, halted>>

(* Two objects and the pages are allocated and the bytes copied; without   *)
(* the second object the link in the list is NULL and the message is never *)
(* seen again.                                                             *)
NewEntry(ch, bytes) ==
  /\ kvirt' = IF kvirt = Null THEN Null ELSE kvirt + Pages(Len(bytes)) * PageSize
  /\ mem' = Written(kvirt, bytes)
  /\ UNCHANGED halted
  /\ \/ /\ kobjs >= 2
        /\ kobjs' = kobjs - 2
        /\ entries' = Append(entries, [ch |-> ch, off |-> 0, size |-> Len(bytes),
                                       addr |-> kvirt])
        /\ owed' = [owed EXCEPT ![ch] = @ + Len(bytes)]
     \/ /\ kobjs < 2
        /\ kobjs' = 0
        /\ UNCHANGED <<entries, owed>>

send(ch, size) ==
  LET bytes == Message(ch, msgs[ch] + 1, size)
  IN  /\ ~halted
      /\ msgs[ch] < MaxMsgs
      /\ msgs' = [msgs EXCEPT ![ch] = @ + 1]
      /\ reply' = NoReply
      /\ \/ Of(ch) = {} /\ NewEntry(ch, bytes)
         \/ /\ Of(ch) # {}
            /\ LET l == LastOf(ch)
                   n == End(entries[l])
               IN  \/ DivideByZero(l)
                   \/ n # 0 /\ Appendable(n, size) /\ AppendTo(l, bytes)
                   \/ n # 0 /\ ~Appendable(n, size) /\ NewEntry(ch, bytes)

(* Variant: entries without unread bytes are not skipped. *)
AnyEntry(to, port) ==
  {i \in DOMAIN entries : entries[i].ch.to = to /\ entries[i].ch.port = port}

(* The process whose first unread entry is first in the list. *)
Waiting(to, port) ==
  {i \in DOMAIN entries : /\ entries[i].ch.to = to /\ entries[i].ch.port = port
                          /\ entries[i].size # 0}
poll(to, port) ==
  IF Waiting(to, port) = {} THEN NoProc ELSE entries[Min(Waiting(to, port))].ch.from

WrappedOff(off) == off % PageSize

(* When a page of the buffer is used up, the offset starts over (but not   *)
(* the address) and free_pages makes a region of off / 0x1000 bytes.       *)
receive(ch, size) ==
  LET enough == {i \in Of(ch) : entries[i].size >= size}
  IN  /\ ~halted
      /\ UNCHANGED <<mem, halted, msgs>>
      /\ \/ /\ enough = {}
            /\ reply' = NoReply
            /\ UNCHANGED <<entries, kvirt, kobjs, owed>>
         \/ /\ enough # {}
            /\ LET i   == Min(enough)
                   e   == entries[i]
                   off == e.off + size
               IN  /\ reply' = [ok |-> TRUE, bytes |-> Bytes(e.addr + e.off, size)]
                   /\ entries' = [entries EXCEPT ![i].size = @ - size,
                                                 ![i].off = WrappedOff(off)]
                   /\ owed' = [owed EXCEPT ![ch] = @ - size]
                   /\ \/ off < PageSize /\ UNCHANGED <<kvirt, kobjs>>
                      \/ off >= PageSize /\ kobjs > 0
                         /\ kobjs' = kobjs - 1 /\ UNCHANGED kvirt
                      \/ off >= PageSize /\ kobjs = 0
                         /\ kvirt' = Null /\ UNCHANGED kobjs

(* No entry's data has reached the end of its first page and no entry was  *)
(* made by an empty message.                                               *)
WithinPage == \A i \in DOMAIN entries : End(entries[i]) \in 1 .. PageSize - 1

Next ==
  /\ \E ch \in Channels, size \in Sizes : send(ch, size) \/ receive(ch, size)
  /\ beyond < MaxBeyond
  /\ beyond' = IF beyond = 0 /\ WithinPage' THEN 0 ELSE beyond + 1

Spec == Init /\ [][Next]_vars

-----------------------------------------------------------------------------
(***************************************************************************)
(* Properties.                                                             *)
(***************************************************************************)

(* The unread bytes of a channel, as they lie in its entries. *)
UnreadOf(ch) ==
  FlattenSeq([i \in DOMAIN entries |->
                IF entries[i].ch = ch
                THEN Bytes(entries[i].addr + entries[i].off, entries[i].size)
                ELSE <<>>])

Stream == INSTANCE Streams WITH stream <- [ch \in Channels |-> UnreadOf(ch)]

(* A receiver that does not keep to the messages: it asks for more than    *)
(* the next one has left.                                                  *)
OutOfStep ==
  \E ch \in Channels, size \in Sizes :
    receive(ch, size) /\ UnreadOf(ch) # <<>> /\ ~Stream!Ready(UnreadOf(ch), size)

(* Receivers that read message by message see a first-in first-out stream: *)
(* splitting a channel over several entries, appending to the last and     *)
(* reading from the first with enough bytes keeps every channel's order,   *)
(* and a receiver out of step does not disturb the steps after it.         *)
ImplementsStream ==
  Stream!Init /\ [][Stream!Next \/ OutOfStep \/ beyond' # 0]_(Stream!vars)

(* While data stays within pages, and whatever sizes are asked for, a      *)
(* receive returns bytes of its own channel, each once, and none of them   *)
(* is still unread: entries never overlap.                                 *)
Isolation ==
  [][\A ch \in Channels, size \in Sizes :
       receive(ch, size) /\ reply'.ok /\ beyond' = 0 =>
         /\ \A i \in 1 .. size : reply'.bytes[i].ch = ch
         /\ \A i \in 1 .. size : \A j \in 1 .. size :
              i # j => reply'.bytes[i] # reply'.bytes[j]
         /\ \A i \in 1 .. size :
              \A other \in Channels : \A j \in DOMAIN UnreadOf(other)' :
                reply'.bytes[i] # UnreadOf(other)'[j]]_vars

(* poll names a process exactly if the caller is owed bytes by it on that  *)
(* port: whatever the messages were appended to or split over, and from    *)
(* whichever entry they were received, nothing that was taken from a       *)
(* sender is forgotten and nothing is announced twice, also when data has  *)
(* gone beyond its page.                                                   *)
PollTellsSent ==
  \A ch \in Channels :
    LET p == poll(ch.to, ch.port)
    IN  /\ p = NoProc => owed[ch] = 0
        /\ p # NoProc => \E d \in Channels : d = [ch EXCEPT !.from = p] /\ owed[d] > 0
=============================================================================
