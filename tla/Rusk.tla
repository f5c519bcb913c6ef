-------------------------------- MODULE Rusk --------------------------------
(***************************************************************************)
(* The expanse system, prgm/rusk: it keeps the list of expanses, serves    *)
(* requests that arrive on ES_COMM_PORT and passes what is typed to the    *)
(* expanse manager, which answers with the events that are for a window.   *)
(*                                                                         *)
(* A request is a function number, then its arguments, each received by a  *)
(* call of its own (the handle, x and y of a drawing are one message here).*)
(* receive_data does not wait for an argument and does not look whether it *)
(* got one: without one, rusk goes on with what the variable held before,  *)
(* and the argument, when it comes, is read as something else.  Pictures   *)
(* and event lists are waited for.                                         *)
(*                                                                         *)
(* Of an expanse the model keeps its handle, its place (0 before the       *)
(* manager gives it one, then the number of times it was placed or moved), *)
(* whose picture it shows and the colour of its top border.                *)
(***************************************************************************)
EXTENDS Wire

CONSTANTS
  Kinds,       \* kinds of events: "key", "hide", "down", "up"
  MaxEvents,   \* bound: events typed
  MaxBatch     \* bound: events in the keyboard's ring at a time

VARIABLES
  expanses,    \* the list, front expanse first
  em,          \* the manager's process
  count,       \* next handle
  req,         \* the request being served
  astray,      \* history: an argument was not there when rusk read it
  typed        \* events read from the keyboard so far

ruskVars == <<expanses, em, count, req, astray, typed>>

(* ES_..., in the order of funcs[], and the arguments each receives. *)
Args ==
  [create      |-> <<"api">>,
   remove      |-> <<"handle">>,
   draw        |-> <<"place", "buffer">>,
   update      |-> <<"expanse">>,
   register_em |-> <<>>,
   set_front   |-> <<"expanse">>,
   send_events |-> <<"events">>,
   decorate    |-> <<"expanse", "buffer">>]

Waited == {"buffer", "events"}

Idle == [func |-> "none", id |-> None, want |-> <<>>, got |-> <<>>]

(* rusk calls through an entry that funcs[] does not have, or follows a    *)
(* pointer that was never written: it is not followed any further.         *)
Wild == [Idle EXCEPT !.func = "wild"]

(* Variant: the count goes up before the expanse gets its handle.          *)
NewExpanseCounted(pid) ==
  [exp |-> [handle |-> count + 1, place |-> 0], pid |-> pid, drawn |-> None, top |-> None]
NewExpanse(pid) ==
  [exp |-> [handle |-> count, place |-> 0], pid |-> pid, drawn |-> None, top |-> None]
(* Variant: an expanse that is not in front is not searched for.           *)
OfFront(h)  == DOMAIN expanses \cap {1}
OfHandle(h) == {i \in DOMAIN expanses : expanses[i].exp.handle = h}

-----------------------------------------------------------------------------

InitRusk ==
  /\ expanses = <<>>
  /\ em = None
  /\ count = 1
  /\ req = Idle
  /\ astray = FALSE
  /\ typed = 0

reg_esys ==
  /\ Free(Rusk) /\ wsys = None
  /\ wsys' = Rusk
  /\ UNCHANGED <<wire, out, halted, ruskVars>>

Finds(ch, type) == ch # <<>> /\ Head(ch).type = type
Misses(ch, type) == ch # <<>> /\ Head(ch).type # type

(* serve: poll names a program with a message, the function is received. *)
Serving == Free(Rusk) /\ wsys = Rusk /\ req = Idle
serve(id) ==
  /\ Serving
  /\ Finds(Waiting(Rusk, id, ES_COMM_PORT), "func")
  /\ LET f == Head(Waiting(Rusk, id, ES_COMM_PORT)).val
     IN  req' = [func |-> f, id |-> id, want |-> Args[f], got |-> <<>>]
  /\ Receives(Rusk, id, ES_COMM_PORT, 1, <<>>)
  /\ UNCHANGED <<expanses, em, count, astray, typed>>

(* The next argument.  The event list is the manager's, on a port of its   *)
(* own.  Variant: the events are awaited from the program in front.        *)
FrontSender ==
  IF Head(req.want) = "events" /\ expanses # <<>> THEN Head(expanses).pid ELSE req.id
ArgSender == IF Head(req.want) = "events" THEN em ELSE req.id
ArgPort   == IF Head(req.want) = "events" THEN EVENT_COMM_PORT ELSE ES_COMM_PORT
Arguments == Waiting(Rusk, ArgSender, ArgPort)
Gets(v)   == [req EXCEPT !.want = Tail(@), !.got = Append(@, v)]
receive_data ==
  /\ Free(Rusk) /\ req.want # <<>>
  /\ Finds(Arguments, Head(req.want))
  /\ req' = Gets(Head(Arguments).val)
  /\ Receives(Rusk, ArgSender, ArgPort, 1, <<>>)
  /\ UNCHANGED <<expanses, em, count, astray, typed>>

(* What the variable for an argument may hold before: nothing or something *)
(* that an earlier call left there.  It makes no difference to a creation, *)
(* nor to a function that waits for a picture next: the late argument is   *)
(* found in the picture's place.                                           *)
Known == {expanses[i].exp : i \in DOMAIN expanses} \cup {[handle |-> 0, place |-> 0]}
Leftover == IF req.want = <<"expanse">> THEN Known ELSE {None}

(* There is no argument.  (The handle of remove is a pointer.)             *)
receive_nothing ==
  /\ Free(Rusk) /\ req.want # <<>>
  /\ Arguments = <<>> /\ Head(req.want) \notin Waited
  /\ astray' = TRUE
  /\ \/ /\ Head(req.want) # "handle"
        /\ \E v \in Leftover : req' = Gets(v)
     \/ Head(req.want) = "handle" /\ req' = Wild
  /\ UNCHANGED <<wireVars, expanses, em, count, typed>>

(* A late argument is taken for a function number or another argument.     *)
misread ==
  /\ \/ Serving /\ \E id \in Programs : Misses(Waiting(Rusk, id, ES_COMM_PORT), "func")
     \/ Free(Rusk) /\ req.want # <<>> /\ Misses(Arguments, Head(req.want))
  /\ req' = Wild
  /\ UNCHANGED <<wireVars, expanses, em, count, astray, typed>>

-----------------------------------------------------------------------------
(* The functions of rusk_comm.c with what they call in rusk.c. *)

Performs(f) == Free(Rusk) /\ req.func = f /\ req.want = <<>>
Done == req' = Idle /\ UNCHANGED <<astray, typed>>

em_init_expanse(e) == << Message("func", "init_expanse"), Message("expanse", e.exp) >>

create_expanse ==
  /\ Performs("create")
  /\ LET e == NewExpanse(req.id)
     IN  /\ expanses' = <<e>> \o expanses
         /\ LET told == IF em = None THEN wire
                        ELSE Posted(wire, Rusk, em, ES_COMM_PORT, em_init_expanse(e))
            IN  Delivers(Posted(told, Rusk, req.id, ES_COMM_PORT, << Message("handle", count) >>))
  /\ count' = count + 1
  /\ Done
  /\ UNCHANGED em

(* The handle is received into a pointer, which is followed: a small       *)
(* number is an address of the first page, which programs may not touch.   *)
remove_expanse ==
  /\ Performs("remove")
  /\ halted' = TRUE
  /\ Done
  /\ UNCHANGED <<wire, out, wsys, expanses, em, count>>

(* An expanse that is not in the list is left alone. *)
update_partial ==
  /\ Performs("draw")
  /\ expanses' = [i \in DOMAIN expanses |->
                    IF i \in OfHandle(req.got[1])
                    THEN [expanses[i] EXCEPT !.drawn = req.got[2]] ELSE expanses[i]]
  /\ UNCHANGED wireVars
  /\ Done
  /\ UNCHANGED <<em, count>>

update_expanse ==
  /\ Performs("update")
  /\ expanses' = [i \in DOMAIN expanses |->
                    IF i \in OfHandle(req.got[1].handle)
                    THEN [expanses[i] EXCEPT !.exp = req.got[1]] ELSE expanses[i]]
  /\ UNCHANGED wireVars
  /\ Done
  /\ UNCHANGED <<em, count>>

set_decoration_buffers ==
  /\ Performs("decorate")
  /\ expanses' = [i \in DOMAIN expanses |->
                    IF i \in OfHandle(req.got[1].handle)
                    THEN [expanses[i] EXCEPT !.top = req.got[2]] ELSE expanses[i]]
  /\ UNCHANGED wireVars
  /\ Done
  /\ UNCHANGED <<em, count>>

(* Variant: the expanses that are there already are not introduced. *)
em_registered_late == <<>>
em_registered == FlattenSeq([i \in DOMAIN expanses |-> em_init_expanse(expanses[i])])
register_em ==
  /\ Performs("register_em")
  /\ em' = IF em = None THEN req.id ELSE em
  /\ Delivers(Posted(wire, Rusk, req.id, ES_COMM_PORT,
                     << Message("bool", em = None) >>
                       \o IF em = None THEN em_registered ELSE <<>>))
  /\ Done
  /\ UNCHANGED <<expanses, count>>

(* The first that is found behind the front one, if there is one.          *)
Behind(h) == OfHandle(h) \ {1}
ToFront(h) ==
  IF Behind(h) = {} THEN expanses
  ELSE << expanses[Min(Behind(h))] >> \o RemoveAt(expanses, Min(Behind(h)))
bring_expanse_to_front ==
  /\ Performs("set_front")
  /\ expanses' = ToFront(req.got[1].handle)
  /\ UNCHANGED wireVars
  /\ Done
  /\ UNCHANGED <<em, count>>

(* The events go to the program of the expanse that is in front now. *)
send_events ==
  /\ Performs("send_events")
  /\ Delivers(
       IF expanses = <<>> THEN wire
       ELSE LET e == Head(expanses)
            IN  Posted(wire, Rusk, e.pid, EVENT_COMM_PORT,
                       << Message("handle", e.exp.handle), Message("events", req.got[1]) >>))
  /\ Done
  /\ UNCHANGED <<expanses, em, count>>

-----------------------------------------------------------------------------

(* The events go to the manager with the list of expanses; without a       *)
(* manager they are forgotten.                                             *)
handle_events(events) ==
  LET list == [i \in DOMAIN expanses |-> expanses[i].exp]
  IN  Delivers(
        IF em = None THEN wire
        ELSE Posted(
               Posted(wire, Rusk, em, ES_COMM_PORT, << Message("func", "handle_events") >>),
               Rusk, em, EVENT_COMM_PORT, << Message("list", list), Message("events", events) >>))

(* When poll finds nothing, process_events reads the keyboard.             *)
NothingToServe ==
  Serving /\ \A id \in Programs : Waiting(Rusk, id, ES_COMM_PORT) = <<>>
process_events ==
  /\ NothingToServe
  /\ \E n \in 1 .. MaxBatch : \E kinds \in [1 .. n -> Kinds] :
       /\ typed + n <= MaxEvents
       /\ typed' = typed + n
       /\ handle_events([i \in 1 .. n |-> [id |-> typed + i, kind |-> kinds[i]]])
  /\ UNCHANGED <<expanses, em, count, req, astray>>

Work ==
  \/ reg_esys
  \/ \E id \in Programs : serve(id)
  \/ receive_data
  \/ create_expanse
  \/ remove_expanse
  \/ update_partial
  \/ update_expanse
  \/ set_decoration_buffers
  \/ register_em
  \/ bring_expanse_to_front
  \/ send_events

Strays == receive_nothing \/ misread
=============================================================================
