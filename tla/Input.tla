------------------------------- MODULE Input -------------------------------
(***************************************************************************)
(* How keys and mouse packets get from the keyboard controller to rusk:    *)
(* key_int and get_mouse_pos (mouse.c) read one port, both fill the ring   *)
(* of keyboard.c, and process_events (rusk.c) empties it.  The mouse's own *)
(* interrupt never comes: enable_irq writes the mask of a line above 7 to  *)
(* a wrong port, so the mouse is polled.                                   *)
(*                                                                         *)
(* The controller holds the bytes not read yet, one at a time in its       *)
(* output register; it raises the keyboard's interrupt when a key comes to *)
(* the register, and a key read by someone else may leave it raised.       *)
(***************************************************************************)
EXTENDS KeyRing, FiniteSets

CONSTANTS
  Keys,       \* the scan codes the user's keys send
  Presses,    \* the sets of buttons that are down together, as bits
  Moves,      \* a mouse packet without its buttons: [x, y] as signed numbers
  MaxInput    \* bound: keys typed and packets sent together

VARIABLES
  port,       \* controller: the bytes to be read, [key, byte]
  device,     \* mouse: the bytes of its packet not sent yet
  irq1,       \* the keyboard's interrupt is raised
  latch,      \* the byte a read of the empty register gives
  obtns, mousex, mousey,  \* mouse.c's
  pc,         \* rusk: before its call of get_mouse_pos or of kb_read
  held,       \* rusk.c's shift, ctrl and alt: those that are set
  events,     \* rusk: what process_events has passed on
  typed,      \* history: the keys typed, with the sum of the packets sent
  swept,
  got,        \* history: the bytes kb_read gave rusk
  mixed       \* history: a byte was taken for something else, or lost

deviceVars == <<port, device, irq1, latch>>
mouseVars  == <<obtns, mousex, mousey>>
ruskVars   == <<pc, held, events, got>>
inputVars  == <<vars, deviceVars, mouseVars, ruskVars, typed, swept, mixed>>

Buttons == 0 .. 2
SHIFT == 42
CTRL  == 29
ALT   == 56
UP    == 128

Bit(b, i)  == (b \div 2 ^ i) % 2 = 1
Signed(b)  == IF b >= 128 THEN b - 256 ELSE b

(* What get_mouse_pos hands on for a button, and the bytes of keys.        *)
Code(i, down) == (IF down THEN 112 ELSE 240) + i
ButtonCodes   == {Code(i, d) : i \in Buttons, d \in BOOLEAN}
KeyBytes      == Bytes \ ButtonCodes

(* A packet: the buttons behind the bit every packet starts with, the move.*)
PacketOf(pressed, d) == <<8 + pressed, d.x % 256, d.y % 256>>

(* No key has a code that is used for a button.                            *)
ASSUME InputAssumption ==
  /\ Bytes \subseteq 0 .. 255 /\ ButtonCodes \subseteq Bytes /\ Keys \subseteq KeyBytes
  /\ Presses \subseteq 0 .. 7
  /\ Moves \subseteq [x : -128 .. 127, y : -128 .. 127]
  /\ \A pressed \in Presses, d \in Moves : PacketOf(pressed, d) \in Seq(Bytes)

(* The elements of s that are in S.                                        *)
Only(s, S) ==
  LET upto[i \in 0 .. Len(s)] ==
        IF i = 0 THEN <<>>
        ELSE IF s[i] \in S THEN Append(upto[i - 1], s[i]) ELSE upto[i - 1]
  IN  upto[Len(s)]

-----------------------------------------------------------------------------
(* The devices.                                                            *)

KeyFirst(q) == q # <<>> /\ q[1].key

(* One more byte for the controller.                                       *)
Comes(item) ==
  /\ port' = Append(port, item)
  /\ irq1' = (irq1 \/ (port = <<>> /\ item.key))

press(k) ==
  /\ Len(typed) + swept.packets < MaxInput
  /\ Comes([key |-> TRUE, byte |-> k])
  /\ typed' = Append(typed, k)
  /\ UNCHANGED <<vars, device, latch, mouseVars, ruskVars, swept, mixed>>

moves(pressed, d) ==
  /\ device = <<>> /\ Len(typed) + swept.packets < MaxInput
  /\ device' = PacketOf(pressed, d)
  /\ swept' = [packets |-> swept.packets + 1, x |-> swept.x + d.x, y |-> swept.y + d.y]
  /\ UNCHANGED <<vars, port, irq1, latch, mouseVars, ruskVars, typed, mixed>>

sends ==
  /\ device # <<>> /\ device' = Tail(device)
  /\ Comes([key |-> FALSE, byte |-> Head(device)])
  /\ UNCHANGED <<vars, latch, mouseVars, ruskVars, typed, swept, mixed>>

(* The first n bytes have been read.                                       *)
ReadOut(n) ==
  /\ port' = SubSeq(port, n + 1, Len(port))
  /\ latch' = IF n = 0 THEN latch ELSE port[n].byte

(* The interrupt is raised for the byte that is next, and may still be for *)
(* a key that was among the first n.                                       *)
Raised(n) == irq1 \/ KeyFirst(port') \/ \E i \in 1 .. n : port[i].key

(* The interrupt handler reads one byte, whatever is there.                *)
interrupt ==
  LET here == port # <<>>
      byte == IF here THEN port[1].byte ELSE latch
  IN  /\ irq1
      /\ key_int(byte)
      /\ ReadOut(IF here THEN 1 ELSE 0)
      /\ irq1' = KeyFirst(port')
      /\ mixed' = (mixed \/ ~KeyFirst(port) \/ Used = KEY_BUF_MAX_SIZE - 1)
      /\ UNCHANGED <<device, mouseVars, ruskVars, typed, swept>>

-----------------------------------------------------------------------------
(* get_mouse_pos.  A byte without the bit every packet starts with, or one *)
(* with nothing behind it, is handed on as a key, and so is a packet of    *)
(* two bytes; of a whole packet the changed buttons are handed on.         *)

Packet(q) == Len(q) >= 2 /\ Bit(q[1].byte, 3)

(* Variant: the second byte first. *)
HandedOnSwapped(q) ==
  CASE q # <<>> /\ ~Packet(q)      -> <<q[1].byte>>
    [] Packet(q) /\ Len(q) = 2     -> <<q[2].byte, q[1].byte>>
    [] OTHER                       -> <<>>

HandedOn(q) ==
  CASE q = <<>>                    -> <<>>
    [] q # <<>> /\ ~Packet(q)      -> <<q[1].byte>>
    [] Packet(q) /\ Len(q) = 2     -> <<q[1].byte, q[2].byte>>
    [] OTHER                       -> <<>>

(* The codes of the changed buttons, the lowest first.                     *)
CodeIf(btns, i) == IF Bit(btns, i) # Bit(obtns, i) THEN <<Code(i, Bit(btns, i))>> ELSE <<>>
Codes(btns)     == CodeIf(btns, 0) \o CodeIf(btns, 1) \o CodeIf(btns, 2)

(* Variant: the buttons are not noted. *)
NotNoted(q) ==
  /\ mousex' = mousex + Signed(q[2].byte) /\ mousey' = mousey - Signed(q[3].byte)
  /\ UNCHANGED obtns

Noted(q) ==
  /\ mousex' = mousex + Signed(q[2].byte) /\ mousey' = mousey - Signed(q[3].byte)
  /\ obtns' = q[1].byte

get_mouse_pos ==
  LET whole == Packet(port) /\ Len(port) >= 3
      n     == IF whole THEN 3 ELSE Len(HandedOn(port))
      out   == IF whole THEN Codes(port[1].byte) ELSE HandedOn(port)
  IN  /\ pc = "mouse" /\ pc' = "keys"
      /\ kb_write(out)
      /\ IF whole THEN Noted(port) ELSE UNCHANGED mouseVars
      /\ ReadOut(n)
      /\ irq1' \in {KeyFirst(port'), Raised(n)}
      /\ mixed' = (\/ mixed \/ reply'.count < Len(out)
                   \/ \E i \in 1 .. n : port[i].key = whole
                   \/ (irq1' /\ ~KeyFirst(port')))
      /\ UNCHANGED <<device, held, events, got, typed, swept>>

-----------------------------------------------------------------------------
(* process_events: what becomes of a byte.                                 *)

Letters == (0 .. 53 \cup {57}) \ {SHIFT, CTRL, ALT}

Event(type, what, with) == [type |-> type, what |-> what, held |-> with]

(* Variant: a release of the shift key is not looked at. *)
HeldStays(c, with) == with \cup (CASE c = SHIFT -> {"shift"} [] c \in {CTRL, CTRL + UP} -> {"ctrl"}
                                   [] c \in {ALT, ALT + UP} -> {"alt"} [] OTHER -> {})

(* Of the three, only the shift key is ever noted as released.             *)
HeldAfter(c, with) ==
  CASE c = SHIFT               -> with \cup {"shift"}
    [] c = SHIFT + UP          -> with \ {"shift"}
    [] c \in {CTRL, CTRL + UP} -> with \cup {"ctrl"}
    [] c \in {ALT, ALT + UP}   -> with \cup {"alt"}
    [] OTHER                   -> with

(* The events of one byte: a button's, a letter's, none for other keys.    *)
EventsOf(c, with) ==
  CASE c \in {Code(i, TRUE) : i \in Buttons}  -> <<Event("MOUSE_DOWN", c - 112, {})>>
    [] c \in {Code(i, FALSE) : i \in Buttons} -> <<Event("MOUSE_UP", c - 240, {})>>
    [] c \in Letters -> <<Event("KEY_DOWN", c, with)>>
    [] OTHER -> <<>>

(* The loop over the bytes that were read: what is held, and what has been *)
(* passed on, after each of them.                                          *)
HeldAlong(data) ==
  LET with[i \in 0 .. Len(data)] == IF i = 0 THEN held ELSE HeldAfter(data[i], with[i - 1])
  IN  with

EventsAlong(data) ==
  LET made[i \in 0 .. Len(data)] ==
        IF i = 0 THEN events
        ELSE made[i - 1] \o EventsOf(data[i], HeldAlong(data)[i - 1])
  IN  made

process_events(size) ==
  LET data == Window(key_buf, key_buf_bot, Least(size, Used))
  IN  /\ pc = "keys" /\ pc' = "mouse"
      /\ kb_read(size)
      /\ held' = HeldAlong(data)[Len(data)]
      /\ events' = EventsAlong(data)[Len(data)]
      /\ got' = got \o data
      /\ UNCHANGED <<deviceVars, mouseVars, typed, swept, mixed>>

-----------------------------------------------------------------------------

InputInit ==
  /\ Init
  /\ port = <<>> /\ device = <<>> /\ irq1 = FALSE /\ latch = 0
  /\ obtns = 0 /\ mousex = 0 /\ mousey = 0
  /\ pc = "mouse" /\ held = {} /\ events = <<>> /\ got = <<>>
  /\ typed = <<>> /\ swept = [packets |-> 0, x |-> 0, y |-> 0] /\ mixed = FALSE

Rusk == get_mouse_pos \/ \E size \in Sizes : process_events(size)

InputNext ==
  /\ ~mixed
  /\ \/ \E k \in Keys : press(k)
     \/ \E pressed \in Presses, d \in Moves : moves(pressed, d)
     \/ sends \/ interrupt \/ Rusk

(* Devices finish what they have begun, interrupts are taken, and rusk's   *)
(* loop gets the processor again and again.                                *)
InputSpec ==
  /\ InputInit /\ [][InputNext]_inputVars
  /\ WF_inputVars(sends) /\ WF_inputVars(interrupt) /\ WF_inputVars(Rusk)

-----------------------------------------------------------------------------
(***************************************************************************)
(* Properties.  They hold until bytes are mixed up: a packet read before   *)
(* it is complete, a key read as part of one, an interrupt that finds its  *)
(* key gone, a ring that is full.                                          *)
(***************************************************************************)

PortItems(key) == Only(port, [key : {key}, byte : Bytes])
PortKeys == [i \in DOMAIN PortItems(TRUE) |-> PortItems(TRUE)[i].byte]

(* Every key typed is delivered, in the ring or in the controller, once    *)
(* and in the order typed, whether key_int or get_mouse_pos read it.       *)
KeysInOrder ==
  ~mixed => Only(got \o Unread, KeyBytes) \o PortKeys = typed

(* The presses and releases handed on for a button take turns, and the     *)
(* last of them is what get_mouse_pos noted of it; when no packet is under *)
(* way the pointer is where the packets moved it.                          *)
ButtonsTold ==
  ~mixed =>
    \A i \in Buttons :
      LET told == Only(got \o Unread, {Code(i, TRUE), Code(i, FALSE)})
      IN  /\ \A n \in DOMAIN told : told[n] = Code(i, n % 2 = 1)
          /\ Bit(obtns, i) = (Len(told) % 2 = 1)
PlaceTrue ==
  ~mixed /\ device = <<>> /\ (\A i \in DOMAIN port : port[i].key) =>
    mousex = swept.x /\ mousey = -swept.y
PacketsCount == ButtonsTold /\ PlaceTrue

KeyDowns == [type : {"KEY_DOWN"}, what : Letters, held : SUBSET {"shift", "ctrl", "alt"}]

(* A letter carries the shift it was typed with, however late it is read.  *)
ShiftRight ==
  ~mixed =>
    LET letters == Only(events, KeyDowns)
        places  == {i \in DOMAIN typed : typed[i] \in Letters}
        down(i) == \E j \in 1 .. i - 1 : typed[j] = SHIFT /\ \A l \in j .. i - 1 : typed[l] # SHIFT + UP
    IN  \A n \in DOMAIN letters :
          \E i \in places : /\ Cardinality({j \in places : j < i}) = n - 1
                            /\ letters[n].what = typed[i]
                            /\ ("shift" \in letters[n].held) = down(i)

(* Every key typed comes to rusk in the end.                               *)
EveryKeyArrives ==
  <>[](mixed \/ Only(got, KeyBytes) = typed)
=============================================================================
