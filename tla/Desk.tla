-------------------------------- MODULE Desk --------------------------------
(***************************************************************************)
(* The window system: rusk, bearing and programs with windows, joined by   *)
(* the kernel's ports.  The timer may switch from any program to any other *)
(* between two system calls.                                               *)
(***************************************************************************)
EXTENDS Wire, FiniteSets, TLC

CONSTANTS Kinds, MaxEvents, MaxBatch, Windows, Reactions

ASSUME DeskAssumption == MaxEvents \in Nat /\ MaxBatch \in Nat /\ Windows \in Nat

VARIABLES
  expanses, em, count, req, astray, typed,                \* of Rusk
  duty, mouse_down, resize, chosen, introduced,           \* of Bearing
  phase, exp_list, seen,                                  \* of Shiny
  hasty     \* history: something was typed that did not wait for what was before

R == INSTANCE Rusk
B == INSTANCE Bearing
S == INSTANCE Shiny

ruskVars    == <<expanses, em, count, req, astray, typed>>
bearingVars == <<duty, mouse_down, resize, chosen, introduced>>
shinyVars   == <<phase, exp_list, seen>>
vars        == <<wireVars, ruskVars, bearingVars, shinyVars, hasty>>

Init == InitWire /\ R!InitRusk /\ B!InitBearing /\ S!InitShiny /\ hasty = FALSE

(* All programs have opened their windows and wait.                        *)
Settled ==
  /\ wsys = Rusk /\ em = Bearing /\ req = R!Idle /\ duty = "serve"
  /\ \A c \in Clients : phase[c] = "main"
  /\ \A p \in Programs : out[p] = <<>>
  /\ \A ch \in Channels : wire[ch] = <<>>

RuskWorks     == R!Work /\ UNCHANGED <<bearingVars, shinyVars, hasty>>
RuskStrays    == R!Strays /\ UNCHANGED <<bearingVars, shinyVars, hasty>>
BearingWorks  == B!Work /\ UNCHANGED <<ruskVars, shinyVars, hasty>>
ShinyWorks(c) == S!Work(c) /\ UNCHANGED <<ruskVars, bearingVars, hasty>>
RuskReads ==
  /\ R!process_events /\ UNCHANGED <<bearingVars, shinyVars>>
  /\ hasty' = (hasty \/ typed' > typed + 1 \/ ~Settled)

Orderly ==
  \/ RuskWorks \/ RuskReads \/ BearingWorks
  \/ \E c \in Clients : ShinyWorks(c)

Next == Orderly \/ RuskStrays

Spec == Init /\ [][Next]_vars

(* rusk finds every argument it does not wait for: no program is           *)
(* interrupted between a function number and its arguments when rusk is    *)
(* about to read them.                                                     *)
ArgumentsThere ==
  req.want # <<>> /\ Head(req.want) \notin R!Waited =>
    Waiting(Rusk, req.id, ES_COMM_PORT) # <<>>

InTime(A) == A /\ ArgumentsThere'

(* Executions in which the user waits for the windows before he types.     *)
SpecSettled == Init /\ [][Next /\ (typed = 0 /\ typed' # 0 => Settled)]_vars

(* The scheduler runs every program again and again (EveryThreadRuns of    *)
(* Sched), and only the user types when he likes.                          *)
FairSpec ==
  /\ Init /\ [][InTime(Next)]_vars
  /\ WF_vars(InTime(RuskWorks))
  /\ WF_vars(InTime(BearingWorks))
  /\ \A c \in Clients : WF_vars(InTime(ShinyWorks(c)))

-----------------------------------------------------------------------------
(***************************************************************************)
(* Properties.                                                             *)
(***************************************************************************)

(* As long as rusk has found each argument there when it read it (see      *)
(* ArgumentsThere), what a program finds at the head of a channel is what  *)
(* it is about to read: nobody takes an argument for a function number, a  *)
(* handle for an event list or a reply for a request.  The first thing to  *)
(* be misread is an argument that rusk did not wait for.                   *)
Finds(p, q, port, type) ==
  LET ch == Waiting(p, q, port) IN ch # <<>> => Head(ch).type = type

RuskFinds ==
  \A id \in Programs :
    Finds(Rusk, id, ES_COMM_PORT,
          IF req.id = id /\ req.want # <<>> /\ Head(req.want) # "events"
          THEN Head(req.want) ELSE "func")
BearingFinds ==
  /\ Finds(Bearing, Rusk, ES_COMM_PORT,
           CASE duty \in {"start", "register"} -> "bool"
             [] duty = "init_expanse" -> "expanse"
             [] OTHER -> "func")
  /\ Finds(Bearing, Rusk, EVENT_COMM_PORT, "list")
ClientFinds(c) ==
  /\ Finds(c, Rusk, ES_COMM_PORT, "handle")
  /\ Finds(c, Rusk, EVENT_COMM_PORT, "handle")

InStep == ~astray => RuskFinds /\ BearingFinds /\ \A c \in Clients : ClientFinds(c)

(* The events under way, from rusk over the manager and rusk to a program. *)
Addressed(s, q, port) ==
  FlattenSeq([i \in DOMAIN s |->
    IF s[i].to = q /\ s[i].port = port THEN <<s[i].msg>> ELSE <<>>])
Carried(p, q, port) == Waiting(q, p, port) \o Addressed(out[p], q, port)
EventsIn(msgs) ==
  FlattenSeq([i \in DOMAIN msgs |-> IF msgs[i].type = "events" THEN msgs[i].val ELSE <<>>])
Taken == IF req.func = "send_events" /\ req.got # <<>> THEN req.got[1] ELSE <<>>
UnderWay(c) ==
  EventsIn(Carried(Rusk, c, EVENT_COMM_PORT)) \o Taken
    \o EventsIn(Carried(Bearing, Rusk, EVENT_COMM_PORT))
    \o EventsIn(Carried(Rusk, Bearing, EVENT_COMM_PORT))

(* Each program is given events in the order they were typed, and no event *)
(* is given to two programs or twice to one, although the front expanse    *)
(* changes while events are under way.                                     *)
Ordered(s) == \A i, j \in DOMAIN s : i < j => s[i].id < s[j].id
EventsOrdered ==
  ~astray =>
    /\ \A c \in Clients : Ordered(seen[c] \o UnderWay(c))
    /\ \A c, d \in Clients : c # d =>
         \A i \in DOMAIN seen[c] : \A j \in DOMAIN seen[d] : seen[c][i].id # seen[d][j].id

(* The events a program is given come with the handle of one of its own    *)
(* expanses, one that its main loop will find in its list.                 *)
OwnHandles ==
  ~astray =>
    \A c \in Clients : \A i \in DOMAIN Waiting(c, Rusk, EVENT_COMM_PORT) :
      LET m == Waiting(c, Rusk, EVENT_COMM_PORT)[i]
      IN  m.type = "handle" /\ phase[c] = "main" /\ "destroy" \notin Reactions
            => Contains(exp_list[c], m.val)

(* Once the manager is registered, each expanse in the list has been       *)
(* introduced to it or is just being introduced, and none is twice, however*)
(* the registration falls among the creations.                             *)
Arriving == Waiting(Bearing, Rusk, ES_COMM_PORT)
Coming   == {i \in DOMAIN Arriving : Arriving[i].type = "expanse"}
IntroducedOnce ==
  ~astray /\ em # None =>
    /\ IsInjective(introduced)
    /\ \A i, j \in Coming : Arriving[i].val.handle = Arriving[j].val.handle => i = j
    /\ \A i \in Coming : Arriving[i].val.handle \notin Range(introduced)
    /\ Range(introduced) \cup {Arriving[i].val.handle : i \in Coming}
         = {expanses[i].exp.handle : i \in DOMAIN expanses}

(* An expanse shows nothing but what its own program has drawn.            *)
OwnPictures ==
  ~astray => \A i \in DOMAIN expanses : expanses[i].drawn \in {None, expanses[i].pid}

(* At most one expanse has the colour of the chosen one, and when          *)
(* everything that was clicked has had its effect it is the one clicked    *)
(* last, which is in front of rusk's list and gets the events.             *)
OneChosen ==
  \A i, j \in DOMAIN expanses :
    expanses[i].top = "blue" /\ expanses[j].top = "blue" => i = j
InFront ==
  Settled /\ chosen.handle # 0 =>
    Head(expanses).exp.handle = chosen.handle /\ Head(expanses).top = "blue"
ChosenInFront == ~astray => OneChosen /\ InFront

(* When the user has waited for the effect of each event before the next,  *)
(* the manager's own copy of the chosen expanse, with which it overwrites  *)
(* rusk's at every move, is as rusk has it: no move undoes another.        *)
CopyFresh ==
  Settled /\ ~hasty /\ ~astray => \A i \in DOMAIN expanses :
    expanses[i].exp.handle = chosen.handle => expanses[i].exp = chosen

(* A request to remove an expanse, "void remove_expanse(expanse_handle)"   *)
(* in rusk_comm.c, takes the expanse off the list.                         *)
RemoveRemoves ==
  [][~astray' /\ req.func = "remove" /\ req' = R!Idle =>
       \A i \in DOMAIN expanses' : expanses'[i].exp.handle # req.got[1]]_vars

(* Each program gets its windows, and each window its place and its        *)
(* picture.                                                                *)
WindowsOpen ==
  \A c \in Clients :
    <>(halted \/ /\ Len(exp_list[c]) = Windows
                 /\ \A i \in DOMAIN expanses :
                      expanses[i].pid = c => expanses[i].drawn = c /\ expanses[i].exp.place > 0)

(* What was typed does not stay under way: it is given to a program, kept  *)
(* by the manager or, without an expanse, forgotten; nobody waits for ever.*)
EventsArrive ==
  \A k \in 1 .. MaxEvents :
    (typed >= k) ~>
      (halted \/ \A c \in Clients : \A i \in DOMAIN UnderWay(c) : UnderWay(c)[i].id # k)
=============================================================================
