-------------------------------- MODULE Shiny --------------------------------
(***************************************************************************)
(* A program with windows, as lib/shiny makes it: it creates its expanses  *)
(* one after the other, waiting for each handle, draws them, then waits    *)
(* for events and lets its handlers react to them.                         *)
(***************************************************************************)
EXTENDS Wire

CONSTANTS
  Windows,     \* expanses a program creates
  Reactions    \* what a handler may do: "none", "draw", "destroy"

VARIABLES
  phase,       \* of each program
  exp_list,    \* the handles of its expanses, in the order they were made
  seen         \* history: the events it was given

shinyVars == <<phase, exp_list, seen>>

call_func(f)         == To(Rusk, ES_COMM_PORT, "func", f)
send_data(type, val) == To(Rusk, ES_COMM_PORT, type, val)

(* The picture of c for its expanse h. *)
(* Variant: the picture is sent before the place. *)
draw_buffer_first(c, h) ==
  << call_func("draw"), send_data("buffer", c), send_data("place", h) >>
draw_buffer(c, h) ==
  << call_func("draw"), send_data("place", h), send_data("buffer", c) >>

InitShiny ==
  /\ phase = [c \in Clients |-> "create"]
  /\ exp_list = [c \in Clients |-> <<>>]
  /\ seen = [c \in Clients |-> <<>>]

create_shiny_expanse(c) ==
  /\ Free(c) /\ phase[c] = "create" /\ wsys # None
  /\ Sends(c, << call_func("create"), send_data("api", c) >>)
  /\ phase' = [phase EXCEPT ![c] = "handle"]
  /\ UNCHANGED <<exp_list, seen>>

(* With the last handle shiny_main_loop begins: every expanse is drawn. *)
recieve_handle(c) ==
  /\ Free(c) /\ phase[c] = "handle"
  /\ Waiting(c, Rusk, ES_COMM_PORT) # <<>>
  /\ LET list == Append(exp_list[c], Head(Waiting(c, Rusk, ES_COMM_PORT)).val)
         last == Len(list) = Windows
     IN  /\ exp_list' = [exp_list EXCEPT ![c] = list]
         /\ phase' = [phase EXCEPT ![c] = IF last THEN "main" ELSE "create"]
         /\ Receives(c, Rusk, ES_COMM_PORT, 1,
              IF last THEN FlattenSeq([i \in DOMAIN list |-> draw_buffer(c, list[i])]) ELSE <<>>)
  /\ UNCHANGED seen

(* destroy_expanse takes the handle off the list, unless it is the only    *)
(* one.                                                                    *)
Without(list, h) ==
  LET places == {i \in DOMAIN list : list[i] = h}
  IN  IF places = {} \/ Len(list) = 1 THEN list ELSE RemoveAt(list, Min(places))

(* The handle of the front expanse, then the events for it.  Handlers are  *)
(* called for the events of an expanse that is in the list; the model lets *)
(* one of them react.                                                      *)
shiny_main_loop(c) ==
  /\ Free(c) /\ phase[c] = "main"
  /\ LET ch == Waiting(c, Rusk, EVENT_COMM_PORT) IN
       /\ Len(ch) >= 2
       /\ seen' = [seen EXCEPT ![c] = @ \o ch[2].val]
       /\ \E reaction \in
            IF ch[2].val = <<>> \/ ~Contains(exp_list[c], ch[1].val) THEN {"none"} ELSE Reactions :
            /\ Receives(c, Rusk, EVENT_COMM_PORT, 2,
                 CASE reaction = "draw" -> draw_buffer(c, ch[1].val)
                   [] reaction = "destroy" ->
                        << call_func("remove"), send_data("handle", ch[1].val) >>
                   [] OTHER -> <<>>)
            /\ exp_list' = [exp_list EXCEPT ![c] =
                 IF reaction = "destroy" THEN Without(@, ch[1].val) ELSE @]
  /\ UNCHANGED phase

Work(c) ==
  \/ create_shiny_expanse(c)
  \/ recieve_handle(c)
  \/ shiny_main_loop(c)
  \/ send(c) /\ UNCHANGED shinyVars
=============================================================================
