------------------------------- MODULE Bearing -------------------------------
(***************************************************************************)
(* The expanse manager, prgm/bearing: it registers with the expanse        *)
(* system, gives each new expanse a place and a border, and takes from     *)
(* what is typed the events that choose, move or hide an expanse; it hands *)
(* the others back.  Every receive waits until there is something.         *)
(*                                                                         *)
(* Which expanse a click hits depends on coordinates; here it may hit any. *)
(***************************************************************************)
EXTENDS Wire

VARIABLES
  duty,         \* what the program is doing
  mouse_down,   \* a press that was taken awaits its release
  resize,       \* the press was in a corner
  chosen,       \* static exp: the expanse last clicked, as it was listed then
  introduced    \* history: handles of the expanses placed, in order

bearingVars == <<duty, mouse_down, resize, chosen, introduced>>

Func(f)     == To(Rusk, ES_COMM_PORT, "func", f)
update(e)   == << Func("update"), To(Rusk, ES_COMM_PORT, "expanse", e) >>
set_front(e) == << Func("set_front"), To(Rusk, ES_COMM_PORT, "expanse", e) >>
setup_borders(e, colour) ==
  << Func("decorate"), To(Rusk, ES_COMM_PORT, "expanse", e),
     To(Rusk, ES_COMM_PORT, "buffer", colour) >>

-----------------------------------------------------------------------------
(* handle_events: the events are looked at in order.  In the state s, `new'*)
(* are those handed back and `todo' is what is sent meanwhile.             *)

Miss == [at |-> 0, corner |-> FALSE]

(* What a press may hit: nothing or the inside of the front expanse, which *)
(* is its program's business, or an expanse in the list, in a corner or    *)
(* not.                                                                    *)
Hits(list) == {Miss} \cup [at : DOMAIN list, corner : BOOLEAN]

(* Variant: the list is built from its end. *)
PassFront(s, ev) == [s EXCEPT !.new = <<ev>> \o @]
Pass(s, ev) == [s EXCEPT !.new = Append(@, ev)]

(* Variant: the expanse chosen before keeps its colour.                    *)
KeptColour(s, e) == set_front(e) \o setup_borders(e, "blue")
Selected(s, e) ==
  setup_borders(s.chosen, "grey") \o set_front(e) \o setup_borders(e, "blue")

Choose(s, e, corner) ==
  [s EXCEPT !.mouse_down = TRUE, !.resize = corner, !.chosen =
              IF corner /\ e.handle = s.chosen.handle THEN @ ELSE e,
            !.todo = @ \o IF corner /\ e.handle = s.chosen.handle THEN <<>>
                          ELSE Selected(s, e)]

Moved(e) == [e EXCEPT !.place = @ + 1]
(* Variant: the static copy is not brought up to date. *)
ReleaseCopy(s) ==
  [s EXCEPT !.mouse_down = FALSE,
            !.todo = @ \o update(Moved(s.chosen))
                       \o IF s.resize THEN setup_borders(s.chosen, "blue") ELSE <<>>]
Release(s) ==
  [s EXCEPT !.mouse_down = FALSE, !.chosen = Moved(@),
            !.todo = @ \o update(Moved(s.chosen))
                       \o IF s.resize THEN setup_borders(s.chosen, "blue") ELSE <<>>]

Handled(s, ev, list, hit) ==
  CASE ev.kind = "hide" -> [s EXCEPT !.todo = @ \o update(s.chosen)]
    [] ev.kind = "down" /\ hit.at # 0 -> Choose(s, list[hit.at], hit.corner)
    [] ev.kind = "up" /\ s.mouse_down -> Release(s)
    [] OTHER -> Pass(s, ev)

Before ==
  [new |-> <<>>, todo |-> <<>>, mouse_down |-> mouse_down, resize |-> resize, chosen |-> chosen]
After(events, list, hits) ==
  LET s[i \in 0 .. Len(events)] ==
        IF i = 0 THEN Before ELSE Handled(s[i - 1], events[i], list, hits[i])
  IN  s[Len(events)]

-----------------------------------------------------------------------------

InitBearing ==
  /\ duty = "start"
  /\ mouse_down = FALSE
  /\ resize = FALSE
  /\ chosen = [handle |-> 0, place |-> 0]
  /\ introduced = <<>>

register_em ==
  /\ Free(Bearing) /\ duty = "start" /\ wsys # None
  /\ Sends(Bearing, << Func("register_em") >>)
  /\ duty' = "register"
  /\ UNCHANGED <<mouse_down, resize, chosen, introduced>>

(* The one manager there is is accepted. *)
registered ==
  /\ Free(Bearing) /\ duty = "register"
  /\ Waiting(Bearing, Rusk, ES_COMM_PORT) # <<>>
  /\ Head(Waiting(Bearing, Rusk, ES_COMM_PORT)).val
  /\ Receives(Bearing, Rusk, ES_COMM_PORT, 1, <<>>)
  /\ duty' = "serve"
  /\ UNCHANGED <<mouse_down, resize, chosen, introduced>>

serve ==
  /\ Free(Bearing) /\ duty = "serve"
  /\ Waiting(Bearing, Rusk, ES_COMM_PORT) # <<>>
  /\ Receives(Bearing, Rusk, ES_COMM_PORT, 1, <<>>)
  /\ duty' = Head(Waiting(Bearing, Rusk, ES_COMM_PORT)).val
  /\ UNCHANGED <<mouse_down, resize, chosen, introduced>>

init_expanse ==
  /\ Free(Bearing) /\ duty = "init_expanse"
  /\ Waiting(Bearing, Rusk, ES_COMM_PORT) # <<>>
  /\ LET e == [Head(Waiting(Bearing, Rusk, ES_COMM_PORT)).val EXCEPT !.place = 1]
     IN  /\ Receives(Bearing, Rusk, ES_COMM_PORT, 1, update(e) \o setup_borders(e, "grey"))
         /\ introduced' = Append(introduced, e.handle)
  /\ duty' = "serve"
  /\ UNCHANGED <<mouse_down, resize, chosen>>

(* A press follows the list's first element without a look whether there   *)
(* is one.                                                                 *)
handle_events ==
  /\ Free(Bearing) /\ duty = "handle_events"
  /\ LET ch == Waiting(Bearing, Rusk, EVENT_COMM_PORT) IN
       /\ Len(ch) >= 2
       /\ LET list   == ch[1].val
              events == ch[2].val
          IN  \/ /\ list = <<>> /\ \E i \in DOMAIN events : events[i].kind = "down"
                 /\ halted' = TRUE
                 /\ UNCHANGED <<wire, out, wsys, bearingVars>>
              \/ /\ list # <<>> \/ \A i \in DOMAIN events : events[i].kind # "down"
                 /\ \E hits \in [DOMAIN events -> Hits(list)] :
                      LET s == After(events, list, hits)
                      IN  /\ Receives(Bearing, Rusk, EVENT_COMM_PORT, 2,
                               s.todo \o << Func("send_events"),
                                  To(Rusk, EVENT_COMM_PORT, "events", s.new) >>)
                          /\ mouse_down' = s.mouse_down
                          /\ resize' = s.resize
                          /\ chosen' = s.chosen
                 /\ duty' = "serve"
                 /\ UNCHANGED introduced

Work ==
  \/ register_em
  \/ registered
  \/ serve
  \/ init_expanse
  \/ handle_events
  \/ send(Bearing) /\ UNCHANGED bearingVars
=============================================================================
