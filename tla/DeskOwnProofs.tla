--------------------------- MODULE DeskOwnProofs ---------------------------
(***************************************************************************)
(* Theorems about who has what in the window system, on top of StepInv     *)
(* (DeskProofs), which says that every message is read as what it is, and  *)
(* like it until rusk first misses an argument (astray).                   *)
(*                                                                         *)
(* OwnInv: the handles that a program holds, sends and is sent are those   *)
(* of expanses of its own, so nobody draws into the pictures of another.   *)
(* KeepInv: a program creates one expanse at a time, and a handle that is  *)
(* on its way is kept by whoever asked for it.  MetInv: every expanse is   *)
(* on its way to the manager, or known to it, once.  FlowInv: the events   *)
(* that a program was given (Had), then those that are on their way        *)
(* through the manager (Rest), are a line in the order they were typed     *)
(* (Lined); every step moves events along it, drops some or adds at its    *)
(* end.                                                                    *)
(***************************************************************************)
EXTENDS DeskProofs

(***************************************************************************)
(* Whose expanse is whose.                                                 *)
(***************************************************************************)

Owned(c) == {expanses[i].exp.handle : i \in {j \in DOMAIN expanses : expanses[j].pid = c}}
Handles  == {expanses[i].exp.handle : i \in DOMAIN expanses}

(* No handle is given twice, and the next one is new.                      *)
Distinct ==
  /\ \A i, j \in DOMAIN expanses : expanses[i].exp.handle = expanses[j].exp.handle => i = j
  /\ \A h \in Handles : h < count

(* What a program and rusk say to each other names its own expanses only.  *)
OwnAsks(c) ==
  {Message("func", f) : f \in ClientFuncs} \cup {Message("api", c), Message("buffer", c)}
  \cup {Message("handle", h) : h \in Nat} \cup {Message("place", h) : h \in Owned(c)}
OwnPosts(c)   == {Posting(ES_COMM_PORT, m) : m \in OwnAsks(c)}
OwnReplies(c) == {Message("handle", h) : h \in Owned(c)}
OwnGifts(c)   == OwnReplies(c) \cup {Message("events", l) : l \in Events}

OwnsRight(c) ==
  /\ wire[AskCh(c)] \in Seq(OwnAsks(c))
  /\ out[c] \in Seq(OwnPosts(c))
  /\ wire[ReplyCh(c)] \in Seq(OwnReplies(c))
  /\ wire[GiftCh(c)] \in Seq(OwnGifts(c))
  /\ exp_list[c] \in Seq(Owned(c))
DrawsRight(c) ==
  req.func = "draw" /\ req.id = c /\ req.got # <<>> => req.got[1] \in Owned(c)

Owning == \A c \in Clients : OwnsRight(c) /\ DrawsRight(c)

(* An expanse shows nothing but what its own program has drawn.            *)
Pictures == \A i \in DOMAIN expanses : expanses[i].drawn \in {None, expanses[i].pid}

OwnInv == Distinct /\ Owning /\ Pictures

(* The list holds the same expanses, perhaps in another order.             *)
Reordered ==
  \E g \in [DOMAIN expanses' -> DOMAIN expanses] :
    /\ \A i \in DOMAIN expanses : \E k \in DOMAIN expanses' : g[k] = i
    /\ \A k, l \in DOMAIN expanses' : g[k] = g[l] => k = l
    /\ \A k \in DOMAIN expanses' : /\ expanses'[k].exp.handle = expanses[g[k]].exp.handle
                                   /\ expanses'[k].pid = expanses[g[k]].pid

(* A list that is not touched holds the same expanses.                     *)
LEMMA NotReordered ==
  ASSUME expanses' = expanses
  PROVE  Reordered
<1>1. PICK g \in [DOMAIN expanses' -> DOMAIN expanses] : g = [i \in DOMAIN expanses |-> i]
  OBVIOUS
<1>2. QED
  BY <1>1 DEF Reordered

(* The same expanses have the same handles and the same programs.          *)
LEMMA ReorderedSame ==
  ASSUME Reordered
  PROVE  /\ Handles' = Handles
         /\ \A c : Owned(c)' = Owned(c)
<1>1. PICK g \in [DOMAIN expanses' -> DOMAIN expanses] :
        /\ \A i \in DOMAIN expanses : \E k \in DOMAIN expanses' : g[k] = i
        /\ \A k \in DOMAIN expanses' : /\ expanses'[k].exp.handle = expanses[g[k]].exp.handle
                                       /\ expanses'[k].pid = expanses[g[k]].pid
  BY DEF Reordered
<1>2. Handles' = Handles
  BY <1>1 DEF Handles
<1>3. ASSUME NEW c
      PROVE  Owned(c)' = Owned(c)
  <2>1. Owned(c)' \subseteq Owned(c)
    BY <1>1 DEF Owned
  <2>2. Owned(c) \subseteq Owned(c)'
    BY <1>1 DEF Owned
  <2>3. QED
    BY <2>1, <2>2
<1>4. QED
  BY <1>2, <1>3

(* No handle is given twice for the list's being in another order.         *)
LEMMA ReorderedDistinct ==
  ASSUME Reordered, Distinct, count' = count
  PROVE  Distinct'
<1>1. PICK g \in [DOMAIN expanses' -> DOMAIN expanses] :
        /\ \A k, l \in DOMAIN expanses' : g[k] = g[l] => k = l
        /\ \A k \in DOMAIN expanses' : expanses'[k].exp.handle = expanses[g[k]].exp.handle
  BY DEF Reordered
<1>2. \A h \in Handles' : h < count'
  BY ReorderedSame DEF Distinct
<1>3. \A k, l \in DOMAIN expanses' :
        expanses'[k].exp.handle = expanses'[l].exp.handle => k = l
  BY <1>1 DEF Distinct
<1>4. QED
  BY <1>2, <1>3 DEF Distinct

(* The sets grow with what is owned.                                       *)
LEMMA OwnGrows ==
  ASSUME NEW c, Owned(c) \subseteq Owned(c)'
  PROVE  /\ OwnAsks(c) \subseteq OwnAsks(c)' /\ OwnPosts(c) \subseteq OwnPosts(c)'
         /\ OwnReplies(c) \subseteq OwnReplies(c)' /\ OwnGifts(c) \subseteq OwnGifts(c)'
<1>1. OwnAsks(c) \subseteq OwnAsks(c)'
  BY DEF OwnAsks
<1>2. OwnPosts(c) \subseteq OwnPosts(c)'
  BY <1>1 DEF OwnPosts
<1>3. OwnReplies(c) \subseteq OwnReplies(c)'
  BY DEF OwnReplies
<1>4. OwnGifts(c) \subseteq OwnGifts(c)'
  BY <1>3 DEF OwnGifts
<1>5. QED
  BY <1>1, <1>2, <1>3, <1>4

(* What names a program's own expanses still does when it owns more.       *)
LEMMA OwnsStays ==
  ASSUME NEW c, OwnsRight(c), Owned(c) \subseteq Owned(c)'
  PROVE  /\ wire[AskCh(c)] \in Seq(OwnAsks(c)')
         /\ out[c] \in Seq(OwnPosts(c)')
         /\ wire[ReplyCh(c)] \in Seq(OwnReplies(c)')
         /\ wire[GiftCh(c)] \in Seq(OwnGifts(c)')
         /\ exp_list[c] \in Seq(Owned(c)')
<1>1. /\ OwnAsks(c) \subseteq OwnAsks(c)' /\ OwnPosts(c) \subseteq OwnPosts(c)'
      /\ OwnReplies(c) \subseteq OwnReplies(c)' /\ OwnGifts(c) \subseteq OwnGifts(c)'
  BY OwnGrows
<1>2. QED
  BY <1>1, SeqMonotonic DEF OwnsRight

(***************************************************************************)
(* What the steps change, for the invariants that follow.                  *)
(***************************************************************************)

FreshExp == [handle |-> count, place |-> 0]

(* create_expanse: what it puts in the list and in the channels.           *)
LEMMA CreateDoes ==
  ASSUME StepInv, R!create_expanse
  PROVE  /\ req.id \in Clients /\ req.want = <<>> /\ req.func = "create" /\ req' = R!Idle
         /\ UNCHANGED <<out, em>> /\ count' = count + 1
         /\ expanses' = << R!NewExpanse(req.id) >> \o expanses
         /\ wire'[ReplyCh(req.id)] = wire[ReplyCh(req.id)] \o << Message("handle", count) >>
         /\ em = None => wire'[OrderCh] = wire[OrderCh]
         /\ em # None => wire'[OrderCh] = wire[OrderCh] \o
                           << Message("func", "init_expanse"), Message("expanse", FreshExp) >>
         /\ \A ch \in Channels : ch # OrderCh /\ ch # ReplyCh(req.id) => wire'[ch] = wire[ch]
<1>1. PICK c, e, told :
        /\ c = req.id /\ e = R!NewExpanse(req.id)
        /\ told = IF em = None THEN wire
                  ELSE R!Posted(wire, Rusk, em, R!ES_COMM_PORT, R!em_init_expanse(e))
        /\ wire' = R!Posted(told, Rusk, c, R!ES_COMM_PORT, << R!Message("handle", count) >>)
        /\ expanses' = <<e>> \o expanses
  BY DEF R!create_expanse, R!Delivers
<1>2. /\ req.want = <<>> /\ req.func = "create" /\ req' = R!Idle
      /\ UNCHANGED <<out, em>> /\ count' = count + 1
  BY DEF R!create_expanse, R!Performs, R!Done, R!Delivers
<1>3. c \in Clients /\ ReplyCh(c) \in Channels /\ OrderCh \in Channels
  BY <1>1, <1>2, Arguments, ChannelsApart DEF StepInv
<1>4. DOMAIN wire = Channels /\ em \in {None, Bearing}
  BY DEF StepInv, Typed
<1>5. PICK t : t = << Message("func", "init_expanse"), Message("expanse", FreshExp) >>
  OBVIOUS
<1>6. R!em_init_expanse(e) = t
  <2>1. e.exp = FreshExp
    BY <1>1 DEF R!NewExpanse, FreshExp
  <2>2. QED
    BY <1>5, <2>1, RuskMessages DEF R!em_init_expanse
<1>7. /\ DOMAIN told = Channels
      /\ \A ch \in Channels : ch # OrderCh => told[ch] = wire[ch]
      /\ told[OrderCh] = IF em = None THEN wire[OrderCh] ELSE wire[OrderCh] \o t
  <2>1. CASE em = None
    BY <1>1, <1>4, <2>1
  <2>2. CASE em # None
    <3>1. told = R!Posted(wire, Rusk, Bearing, ES_COMM_PORT, t)
      BY <1>1, <1>4, <1>6, <2>2, RuskMessages
    <3>2. /\ DOMAIN told = Channels /\ told[OrderCh] = wire[OrderCh] \o t
          /\ \A ch \in Channels : ch # OrderCh => told[ch] = wire[ch]
      BY <1>4, <3>1, PostsOrder, Zenon
    <3>3. QED
      BY <2>2, <3>2
  <2>3. QED
    BY <2>1, <2>2
<1>8. PICK s : s = << Message("handle", count) >>
  OBVIOUS
<1>9. wire' = R!Posted(told, Rusk, c, ES_COMM_PORT, s)
  BY <1>1, <1>8, RuskMessages, Zenon
<1>10. /\ DOMAIN wire' = Channels /\ wire'[ReplyCh(c)] = told[ReplyCh(c)] \o s
       /\ \A ch \in Channels : ch # ReplyCh(c) => wire'[ch] = told[ch]
  <2>1. c \in Clients /\ DOMAIN told = Channels
    BY <1>3, <1>7
  <2>2. QED
    BY <1>9, <2>1, PostsReply, Zenon
<1>11. ReplyCh(c) # OrderCh
  BY <1>3, OthersApart
<1>12. wire'[ReplyCh(c)] = wire[ReplyCh(c)] \o s /\ wire'[OrderCh] = told[OrderCh]
  BY <1>3, <1>7, <1>10, <1>11
<1>13. \A ch \in Channels : ch # OrderCh /\ ch # ReplyCh(c) => wire'[ch] = wire[ch]
  BY <1>7, <1>10
<1>14. expanses' = << R!NewExpanse(c) >> \o expanses
  BY <1>1
<1>15. QED
  BY <1>1, <1>2, <1>3, <1>5, <1>7, <1>8, <1>12, <1>13, <1>14

(* register_em: what it tells the manager.                                 *)
LEMMA RegisterDoes ==
  ASSUME StepInv, R!register_em
  PROVE  /\ req.want = <<>> /\ req.id = Bearing /\ req.func = "register_em" /\ req' = R!Idle
         /\ em = None /\ em' = Bearing
         /\ UNCHANGED <<out, expanses, count>> /\ wire[OrderCh] = <<>>
         /\ wire'[OrderCh] = wire[OrderCh] \o (<< Message("bool", TRUE) >> \o R!em_registered)
         /\ \A ch \in Channels : ch # OrderCh => wire'[ch] = wire[ch]
<1>1. /\ req.want = <<>> /\ req.func = "register_em" /\ req' = R!Idle
      /\ UNCHANGED <<out, expanses, count>>
  BY DEF R!register_em, R!Performs, R!Done, R!Delivers
<1>2. em = None /\ req = Registration /\ req.id = Bearing
  BY <1>1, Arguments DEF StepInv, Registration
<1>3. em' = Bearing
  BY <1>2 DEF R!register_em
<1>4. PICK s : s = << Message("bool", TRUE) >> \o R!em_registered
  OBVIOUS
<1>5. wire' = R!Posted(wire, Rusk, Bearing, ES_COMM_PORT, s)
  BY <1>2, <1>4, RuskMessages DEF R!register_em, R!Delivers
<1>6. DOMAIN wire = Channels
  BY DEF StepInv, Typed
<1>7. /\ DOMAIN wire' = Channels /\ wire'[OrderCh] = wire[OrderCh] \o s
      /\ \A ch \in Channels : ch # OrderCh => wire'[ch] = wire[ch]
  BY <1>5, <1>6, PostsOrder
<1>8. wire[OrderCh] = <<>>
  <2>1. Path(OrderSteps, Turn, wire[OrderCh], "register")
    BY <1>2 DEF StepInv, Answering, Ordering
  <2>2. QED
    BY <2>1, Unregistered
<1>9. QED
  BY <1>1, <1>2, <1>3, <1>4, <1>7, <1>8

(* send_events: what it gives to the program of the front expanse.         *)
LEMMA SendDoes ==
  ASSUME StepInv, R!send_events
  PROVE  /\ req.want = <<>> /\ req.func = "send_events" /\ req' = R!Idle
         /\ UNCHANGED <<out, expanses, em, count>>
         /\ \/ UNCHANGED wire
            \/ \E i \in DOMAIN expanses : \E l \in Events :
                 LET c == expanses[i].pid IN
                 /\ c \in Clients /\ l = req.got[1]
                 /\ wire'[GiftCh(c)] = wire[GiftCh(c)] \o
                      << Message("handle", expanses[i].exp.handle), Message("events", l) >>
                 /\ \A ch \in Channels : ch # GiftCh(c) => wire'[ch] = wire[ch]
<1>1. /\ req.want = <<>> /\ req.func = "send_events" /\ req' = R!Idle
      /\ UNCHANGED <<out, expanses, em, count>>
  BY DEF R!send_events, R!Performs, R!Done, R!Delivers
<1>2. DOMAIN wire = Channels /\ expanses \in Seq(Window)
  BY DEF StepInv, Typed
<1>3. CASE expanses = <<>>
  BY <1>1, <1>3 DEF R!send_events, R!Delivers
<1>4. CASE expanses # <<>>
  <2>1. PICK e \in Window : e = Head(expanses) /\ e = expanses[1]
    BY <1>2, <1>4
  <2>2. PICK c \in Clients, h \in Nat : c = e.pid /\ h = e.exp.handle
    BY DEF Window, Exp
  <2>3. PICK l \in Events : l = req.got[1]
    BY <1>1, Arguments DEF StepInv
  <2>4. PICK s : s = << Message("handle", h), Message("events", l) >>
    OBVIOUS
  <2>5. wire' = R!Posted(wire, Rusk, c, EVENT_COMM_PORT, s)
    BY <1>4, <2>1, <2>2, <2>3, <2>4, RuskMessages DEF R!send_events, R!Delivers
  <2>6. /\ wire'[GiftCh(c)] = wire[GiftCh(c)] \o s
        /\ \A ch \in Channels : ch # GiftCh(c) => wire'[ch] = wire[ch]
    BY <1>2, <2>5, PostsGift
  <2>7. 1 \in DOMAIN expanses /\ expanses[1].pid = c /\ expanses[1].exp.handle = h
    BY <1>2, <1>4, <2>1, <2>2
  <2>8. wire'[GiftCh(expanses[1].pid)] = wire[GiftCh(expanses[1].pid)] \o
          << Message("handle", expanses[1].exp.handle), Message("events", l) >>
    BY <2>4, <2>6, <2>7
  <2>9. QED
    BY <1>1, <2>3, <2>6, <2>7, <2>8
<1>5. QED
  BY <1>3, <1>4

(* process_events: what it tells the manager.                              *)
LEMMA ReadDoes ==
  ASSUME StepInv, R!process_events
  PROVE  /\ UNCHANGED <<out, expanses, em, count, req>>
         /\ \/ wire'[OrderCh] = wire[OrderCh]
            \/ wire'[OrderCh] = wire[OrderCh] \o << Message("func", "handle_events") >>
         /\ \A ch \in Channels : ch # OrderCh /\ ch # ListCh => wire'[ch] = wire[ch]
<1>1. UNCHANGED <<expanses, em, count, req>>
  BY DEF R!process_events
<1>2. DOMAIN wire = Channels /\ em \in {None, Bearing}
  BY DEF StepInv, Typed
<1>3. PICK l : R!handle_events(l)
  BY DEF R!process_events
<1>4. UNCHANGED out
  BY <1>3 DEF R!handle_events, R!Delivers
<1>5. CASE em = None
  BY <1>1, <1>3, <1>4, <1>5 DEF R!handle_events, R!Delivers
<1>6. CASE em # None
  <2>1. em = Bearing
    BY <1>2, <1>6
  <2>2. PICK list : list = [i \in DOMAIN expanses |-> expanses[i].exp]
    OBVIOUS
  <2>3. PICK s, t : /\ s = << Message("func", "handle_events") >>
                    /\ t = << Message("list", list), Message("events", l) >>
    OBVIOUS
  <2>4. PICK w : w = R!Posted(wire, Rusk, Bearing, ES_COMM_PORT, s)
    OBVIOUS
  <2>5. wire' = R!Posted(w, Rusk, Bearing, EVENT_COMM_PORT, t)
    <3>1. wire' = R!Posted(
                    R!Posted(wire, Rusk, em, R!ES_COMM_PORT, << R!Message("func", "handle_events") >>),
                    Rusk, em, R!EVENT_COMM_PORT, << R!Message("list", list), R!Message("events", l) >>)
      BY <1>3, <1>6, <2>2 DEF R!handle_events, R!Delivers
    <3>2. QED
      BY <2>1, <2>3, <2>4, <3>1, RuskMessages
  <2>6. /\ DOMAIN w = Channels /\ w[OrderCh] = wire[OrderCh] \o s
        /\ \A ch \in Channels : ch # OrderCh => w[ch] = wire[ch]
    BY <1>2, <2>4, PostsOrder
  <2>7. \A ch \in Channels : ch # ListCh => wire'[ch] = w[ch]
    BY <2>5, <2>6, PostsList
  <2>8. wire'[OrderCh] = wire[OrderCh] \o s
    BY <2>6, <2>7, ChannelsApart, OthersApart
  <2>9. \A ch \in Channels : ch # ListCh /\ ch # OrderCh => wire'[ch] = wire[ch]
    BY <2>6, <2>7
  <2>10. QED
    BY <1>1, <1>4, <2>3, <2>8, <2>9
<1>7. QED
  BY <1>5, <1>6

(* serve: the request it begins.                                           *)
LEMMA ServeDoes ==
  ASSUME StepInv, NEW id \in Programs, R!serve(id)
  PROVE  /\ id \in Askers /\ req = R!Idle /\ wire[AskCh(id)] # <<>>
         /\ \E f : /\ f = Head(wire[AskCh(id)]).val
                   /\ req' = [func |-> f, id |-> id, want |-> R!Args[f], got |-> <<>>]
         /\ UNCHANGED <<expanses, em, count>> /\ \A p \in Askers : out'[p] = out[p]
         /\ id \in Clients => wire'[AskCh(id)] = Tail(wire[AskCh(id)])
         /\ \A ch \in Channels : ch # AskCh(id) => wire'[ch] = wire[ch]
<1>1. PICK s, f : s = wire[AskCh(id)] /\ f = Head(s).val
  OBVIOUS
<1>2. /\ s # <<>> /\ req = R!Idle
      /\ req' = [func |-> f, id |-> id, want |-> R!Args[f], got |-> <<>>]
      /\ R!Receives(Rusk, id, ES_COMM_PORT, 1, <<>>)
      /\ UNCHANGED <<expanses, em, count>>
  BY <1>1, RuskMessages DEF R!serve, R!Serving, R!Finds, R!Waiting, AskCh
<1>3. DOMAIN wire = Channels /\ DOMAIN out = Programs /\ wire[SelfCh] = <<>>
  BY DEF StepInv, Typed
<1>4. id \in Askers
  <2>1. id # Rusk
    BY <1>1, <1>2, <1>3 DEF AskCh, SelfCh
  <2>2. QED
    BY <2>1 DEF Programs, Askers
<1>5. /\ wire' = [wire EXCEPT ![AskCh(id)] = SubSeq(@, 1 + 1, Len(@))]
      /\ \A p \in Askers : out'[p] = out[p]
  BY <1>2, <1>3, RuskTakes DEF AskCh
<1>6. \A ch \in Channels : ch # AskCh(id) => wire'[ch] = wire[ch]
  BY <1>3, <1>5
<1>7. ASSUME id \in Clients
      PROVE  wire'[AskCh(id)] = Tail(wire[AskCh(id)])
  <2>1. Asks(id, Left(id), s, out[id])
    BY <1>1, <1>4, <1>7, ChannelsApart DEF StepInv, Asking
  <2>2. PICK w, v : Path(RequestSteps(id), w, s, v)
    BY <2>1 DEF Asks
  <2>3. QED
    BY <1>1, <1>2, <1>3, <1>4, <1>5, <2>2, ChannelsApart, Takes
<1>8. QED
  BY <1>1, <1>2, <1>4, <1>5, <1>6, <1>7

(* receive_data: the argument it takes.                                    *)
LEMMA ReceiveDoes ==
  ASSUME StepInv, R!receive_data
  PROVE  /\ UNCHANGED <<expanses, em, count>>
         /\ \/ /\ req.func = "send_events" /\ req'.func = "send_events"
               /\ req.got = <<>> /\ wire[SortedCh] # <<>>
               /\ req'.got = << Head(wire[SortedCh]).val >>
               /\ wire'[SortedCh] = Tail(wire[SortedCh])
               /\ \A p \in Askers : out'[p] = out[p]
               /\ \A ch \in Channels : ch # SortedCh => wire'[ch] = wire[ch]
            \/ \E p \in Askers : \E m :
               /\ p = req.id /\ wire[AskCh(p)] # <<>> /\ m = Head(wire[AskCh(p)])
               /\ req.func \in Funcs(p) /\ Progress(req.func, p, req.want, req.got)
               /\ req.want \in Wants /\ m.type = Head(req.want) /\ req.func # "send_events"
               /\ req' = [func |-> req.func, id |-> p, want |-> Tail(req.want),
                          got |-> Append(req.got, m.val)]
               /\ wire'[AskCh(p)] = Tail(wire[AskCh(p)])
               /\ \A ch \in Channels : ch # AskCh(p) => wire'[ch] = wire[ch]
               /\ \A q \in Askers : out'[q] = out[q]
<1>1. req.want # <<>> /\ UNCHANGED <<expanses, em, count>>
  BY DEF R!receive_data
<1>2. PICK ch, v : ch = R!Waiting(Rusk, R!ArgSender, R!ArgPort) /\ v = Head(ch).val
  OBVIOUS
<1>3. /\ ch # <<>> /\ req' = [req EXCEPT !.want = Tail(@), !.got = Append(@, v)]
      /\ R!Receives(Rusk, R!ArgSender, R!ArgPort, 1, <<>>)
  BY <1>2 DEF R!receive_data, R!Finds, R!Arguments, R!Gets
<1>5. CASE /\ ch # <<>> /\ req' = [req EXCEPT !.want = Tail(@), !.got = Append(@, v)]
           /\ R!Receives(Rusk, R!ArgSender, R!ArgPort, 1, <<>>)
  <2>1. req.func # "none" /\ req.func # "register_em"
    <3>1. req # R!Idle /\ req # Registration
      BY <1>1 DEF R!Idle, Registration
    <3>2. /\ req.func \in Funcs(req.id)
      BY <3>1 DEF StepInv, RequestRight
    <3>3. QED
      BY <3>2 DEF Funcs, ClientFuncs, BearingFuncs
  <2>2. PICK p, f, want, got : p = req.id /\ f = req.func /\ want = req.want /\ got = req.got
    OBVIOUS
  <2>3. /\ p \in Askers /\ f \in Funcs(p) /\ Progress(f, p, want, got) /\ want # <<>>
        /\ req = [func |-> f, id |-> p, want |-> want, got |-> got]
    BY <1>1, <2>1, <2>2, Asker DEF StepInv
  <2>4. req' = [func |-> f, id |-> p, want |-> Tail(want), got |-> Append(got, v)]
    BY <1>5, <2>3
  <2>5. ASSUME em = None
        PROVE  p # Bearing
    BY <1>1, <2>2, <2>5 DEF StepInv, Registering, Registration
  <2>6. DOMAIN wire = Channels /\ DOMAIN out = Programs /\ em \in {None, Bearing}
    BY DEF StepInv, Typed
  <2>10. CASE Head(want) = "events"
    <3>1. f = "send_events"
      BY <2>3, <2>10, Wanting
    <3>2. p = Bearing
      BY <2>2, <3>1, OfBearing DEF StepInv, BearingFuncs
    <3>3. em = Bearing
      BY <2>5, <2>6, <3>2
    <3>4. R!ArgSender = Bearing /\ R!ArgPort = EVENT_COMM_PORT
      BY <2>2, <2>10, <3>3, RuskMessages DEF R!ArgSender, R!ArgPort
    <3>6. /\ wire' = [wire EXCEPT ![SortedCh] = SubSeq(@, 1 + 1, Len(@))]
          /\ \A q \in Askers : out'[q] = out[q]
      BY <1>5, <2>6, <3>4, RuskTakes DEF SortedCh
    <3>7. \A other \in Channels : other # SortedCh => wire'[other] = wire[other]
      BY <2>6, <3>6
    <3>8. req.func = "send_events" /\ req'.func = "send_events"
      BY <2>2, <2>4, <3>1
    <3>9. wire'[SortedCh] = Tail(wire[SortedCh]) /\ ch = wire[SortedCh]
      <4>1. ch = wire[SortedCh]
        BY <1>2, <3>4 DEF R!Waiting, SortedCh
      <4>2. Path(SortedSteps, "events", wire[SortedCh], "events")
        BY DEF StepInv, Answering, Sorting
      <4>3. QED
        BY <1>5, <2>6, <3>6, <4>1, <4>2, ChannelsApart, Takes
    <3>10. got = <<>> /\ req'.got = <<v>>
      <4>1. got = <<>>
        <5>1. R!Args[f] = <<"events">>
          BY <3>1, ArgsSpelled
        <5>2. QED
          BY <2>3, <5>1, HeadsSpelled DEF Progress
      <4>2. QED
        BY <2>4, <4>1, Appended
    <3>11. QED
      BY <1>1, <1>2, <1>5, <2>2, <3>6, <3>7, <3>8, <3>9, <3>10
  <2>11. CASE Head(want) # "events"
    <3>1. want \in Wants /\ want # <<"events">>
      <4>1. want \in Wants
        BY <2>3, <2>11, Wanting
      <4>2. Head(<<"events">>) = "events"
        OBVIOUS
      <4>3. QED
        BY <2>11, <4>1, <4>2
    <3>2. R!ArgSender = p /\ R!ArgPort = ES_COMM_PORT
      BY <2>2, <2>11, RuskMessages DEF R!ArgSender, R!ArgPort
    <3>3. ch = wire[AskCh(p)]
      BY <1>2, <3>2 DEF R!Waiting, AskCh
    <3>4. Left(p) = want
      BY <2>2, <3>1 DEF Left
    <3>5. Asks(p, want, ch, out[p])
      BY <2>3, <2>5, <3>3, <3>4 DEF StepInv, Asking
    <3>6. PICK u \in States : <<want, Head(ch), u>> \in RequestSteps(p)
      BY <1>5, <3>5, AskPop
    <3>7. Head(ch).type = Head(want)
      BY <2>3, <3>6, RequestStep
    <3>8. /\ wire' = [wire EXCEPT ![AskCh(p)] = SubSeq(@, 1 + 1, Len(@))]
          /\ \A q \in Askers : out'[q] = out[q]
      BY <1>5, <2>6, <3>2, RuskTakes DEF AskCh
    <3>9. /\ wire'[AskCh(p)] = Tail(ch)
          /\ \A other \in Channels : other # AskCh(p) => wire'[other] = wire[other]
      <4>1. \E x : Path(RequestSteps(p), want, ch, x)
        BY <3>5 DEF Asks
      <4>2. QED
        BY <1>5, <2>3, <2>6, <3>3, <3>8, <4>1, ChannelsApart, Takes
    <3>10. PICK m : m = Head(ch)
      OBVIOUS
    <3>11. f # "send_events"
      <4>1. R!Args["send_events"] = <<"events">>
        BY ArgsSpelled
      <4>2. CASE f = "send_events"
        <5>1. want = <<"events">>
          BY <2>3, <4>1, <4>2, HeadsSpelled DEF Progress
        <5>2. QED
          BY <3>1, <5>1
      <4>3. QED
        BY <4>2
    <3>12. /\ p \in Askers /\ p = req.id /\ wire[AskCh(p)] # <<>> /\ m = Head(wire[AskCh(p)])
           /\ req.func \in Funcs(p) /\ Progress(req.func, p, req.want, req.got)
           /\ req.want \in Wants /\ m.type = Head(req.want) /\ req.func # "send_events"
           /\ req' = [func |-> req.func, id |-> p, want |-> Tail(req.want), got |-> Append(req.got, m.val)]
           /\ wire'[AskCh(p)] = Tail(wire[AskCh(p)])
      BY <1>2, <1>5, <2>2, <2>3, <2>4, <3>1, <3>3, <3>7, <3>9, <3>10, <3>11
    <3>13. QED
      BY <1>1, <3>8, <3>9, <3>12
  <2>12. QED
    BY <2>10, <2>11
<1>6. QED
  BY <1>3, <1>5

(* The manager leaves what the programs and rusk say to each other alone,  *)
(* and takes the orders one by one.                                        *)
LEMMA BearingDoes ==
  ASSUME StepInv, B!Work, UNCHANGED <<ruskVars, shinyVars>>
  PROVE  /\ UNCHANGED <<expanses, em, count, req, phase, exp_list>>
         /\ \A c \in Clients : /\ out'[c] = out[c] /\ wire'[AskCh(c)] = wire[AskCh(c)]
                               /\ wire'[ReplyCh(c)] = wire[ReplyCh(c)]
                               /\ wire'[GiftCh(c)] = wire[GiftCh(c)]
         /\ \/ wire'[OrderCh] = wire[OrderCh] /\ introduced' = introduced
            \/ /\ wire[OrderCh] # <<>> /\ wire'[OrderCh] = Tail(wire[OrderCh])
               /\ IF Head(wire[OrderCh]).type = "expanse"
                  THEN introduced' = Append(introduced, Head(wire[OrderCh]).val.handle)
                  ELSE introduced' = introduced
<1>0. UNCHANGED <<expanses, em, count, req, phase, exp_list>>
  BY DEF ruskVars, shinyVars
<1>1. DOMAIN wire = Channels /\ DOMAIN out = Programs
  BY DEF StepInv, Typed
<1>2. \A c \in Clients : c \in Askers /\ c # Bearing
  BY ChannelsApart
<1>3. ASSUME NEW ch \in {OrderCh, ListCh, SortedCh, AskCh(Bearing)},
             \A other \in Channels : other # ch => wire'[other] = wire[other]
      PROVE  \A c \in Clients : /\ wire'[AskCh(c)] = wire[AskCh(c)]
                                /\ wire'[ReplyCh(c)] = wire[ReplyCh(c)]
                                /\ wire'[GiftCh(c)] = wire[GiftCh(c)]
  BY <1>2, <1>3, ChannelsApart, AskApart, OthersApart
<1>4. ASSUME NEW o, out' = [out EXCEPT ![Bearing] = o]
      PROVE  \A c \in Clients : out'[c] = out[c]
  BY <1>1, <1>2, <1>4
<1>5. ASSUME NEW o, B!Receives(Bearing, Rusk, ES_COMM_PORT, 1, o), wire[OrderCh] # <<>>
      PROVE  /\ wire'[OrderCh] = Tail(wire[OrderCh])
             /\ \A other \in Channels : other # OrderCh => wire'[other] = wire[other]
             /\ \A c \in Clients : out'[c] = out[c]
             /\ \E u : <<Turn, Head(wire[OrderCh]), u>> \in OrderSteps
  <2>1. PICK v : Path(OrderSteps, Turn, wire[OrderCh], v)
    BY DEF StepInv, Answering, Ordering
  <2>2. /\ wire' = [wire EXCEPT ![OrderCh] = SubSeq(@, 1 + 1, Len(@))]
        /\ out' = [out EXCEPT ![Bearing] = o]
    BY <1>5, BearingReceives DEF OrderCh
  <2>3. /\ wire'[OrderCh] = Tail(wire[OrderCh])
        /\ \A other \in Channels : other # OrderCh => wire'[other] = wire[other]
    BY <1>1, <1>5, <2>1, <2>2, ChannelsApart, Takes
  <2>4. \E u \in States : <<Turn, Head(wire[OrderCh]), u>> \in OrderSteps
    BY <1>5, <2>1, PathHead
  <2>5. QED
    BY <1>4, <2>2, <2>3, <2>4
<1>6. CASE B!register_em
  <2>1. wire' = wire /\ introduced' = introduced
    BY <1>6 DEF B!register_em, B!Sends
  <2>2. \A c \in Clients : out'[c] = out[c]
    BY <1>4, <1>6 DEF B!register_em, B!Sends
  <2>3. QED
    BY <1>0, <2>1, <2>2
<1>7. CASE B!registered
  <2>1. /\ duty = "register" /\ wire[OrderCh] # <<>> /\ introduced' = introduced
        /\ B!Receives(Bearing, Rusk, ES_COMM_PORT, 1, <<>>)
    BY <1>7, BearingMessages DEF B!registered
  <2>2. Head(wire[OrderCh]).type # "expanse"
    BY <1>5, <2>1, OrderStep DEF Turn
  <2>3. QED
    BY <1>0, <1>3, <1>5, <2>1, <2>2
<1>8. CASE B!serve
  <2>1. /\ duty = "serve" /\ wire[OrderCh] # <<>> /\ introduced' = introduced
        /\ B!Receives(Bearing, Rusk, ES_COMM_PORT, 1, <<>>)
    BY <1>8, BearingMessages DEF B!serve
  <2>2. Head(wire[OrderCh]).type # "expanse"
    BY <1>5, <2>1, OrderStep DEF Turn
  <2>3. QED
    BY <1>0, <1>3, <1>5, <2>1, <2>2
<1>9. CASE B!init_expanse
  <2>1. PICK e : e = [Head(wire[OrderCh]).val EXCEPT !.place = 1]
    OBVIOUS
  <2>2. /\ duty = "init_expanse" /\ wire[OrderCh] # <<>>
        /\ introduced' = Append(introduced, e.handle)
        /\ B!Receives(Bearing, Rusk, ES_COMM_PORT, 1, B!update(e) \o B!setup_borders(e, "grey"))
    BY <1>9, <2>1, BearingMessages DEF B!init_expanse
  <2>3. Head(wire[OrderCh]).type = "expanse" /\ Head(wire[OrderCh]).val \in Exp
    BY <1>5, <2>2, OrderStep DEF Turn
  <2>4. e.handle = Head(wire[OrderCh]).val.handle
    BY <2>1, <2>3 DEF Exp
  <2>5. QED
    BY <1>0, <1>3, <1>5, <2>2, <2>3, <2>4
<1>10. CASE B!handle_events
  <2>1. \/ UNCHANGED <<wire, out, introduced>>
        \/ /\ introduced' = introduced
           /\ \E o : B!Receives(Bearing, Rusk, EVENT_COMM_PORT, 2, o)
    <3>1. B!EVENT_COMM_PORT = EVENT_COMM_PORT
      BY BearingMessages
    <3>2. QED
      BY <1>10, <3>1, Zenon DEF B!handle_events, B!bearingVars
  <2>2. CASE UNCHANGED <<wire, out, introduced>>
    BY <1>0, <2>2
  <2>3. ASSUME introduced' = introduced, NEW o, B!Receives(Bearing, Rusk, EVENT_COMM_PORT, 2, o)
        PROVE  /\ \A other \in Channels : other # ListCh => wire'[other] = wire[other]
               /\ \A c \in Clients : out'[c] = out[c]
    <3>1. /\ wire' = [wire EXCEPT ![ListCh] = SubSeq(@, 2 + 1, Len(@))]
          /\ out' = [out EXCEPT ![Bearing] = o]
      BY <2>3, BearingReceives DEF ListCh
    <3>2. QED
      BY <1>1, <1>4, <3>1
  <2>4. QED
    BY <1>0, <1>3, <2>1, <2>2, <2>3, ChannelsApart, OthersApart
<1>11. CASE B!send(Bearing) /\ UNCHANGED B!bearingVars
  <2>1. introduced' = introduced
    BY <1>11 DEF B!bearingVars
  <2>2. PICK x : x = Head(out[Bearing])
    OBVIOUS
  <2>3. /\ out[Bearing] # <<>>
        /\ wire' = [wire EXCEPT ![<<Bearing, x.to, x.port>>] = Append(@, x.msg)]
        /\ out' = [out EXCEPT ![Bearing] = Tail(@)]
    BY <1>11, <2>2 DEF B!send
  <2>4. x.to = Rusk /\ x.port \in {ES_COMM_PORT, EVENT_COMM_PORT}
    <3>1. \/ x = Posting(ES_COMM_PORT, x.msg) \/ \E l \in Events : x = SortedPost(l)
      <4>1. CASE em = None
        <5>1. out[Bearing] = << Posting(ES_COMM_PORT, RegisterFunc) >>
          BY <2>3, <4>1 DEF StepInv, Registering
        <5>2. x = Posting(ES_COMM_PORT, RegisterFunc)
          BY <2>2, <5>1
        <5>3. QED
          BY <5>2 DEF Posting
      <4>2. CASE em # None
        <5>1. Asks(Bearing, Left(Bearing), wire[AskCh(Bearing)], out[Bearing])
          BY <4>2, ChannelsApart DEF StepInv, Asking
        <5>2. QED
          BY <2>2, <2>3, <5>1, AskSend
      <4>3. QED
        BY <4>1, <4>2
    <3>2. QED
      BY <3>1 DEF Posting, SortedPost
  <2>5. <<Bearing, x.to, x.port>> \in {SortedCh, AskCh(Bearing)}
    BY <2>4 DEF SortedCh, AskCh
  <2>6. \A other \in Channels : other # <<Bearing, x.to, x.port>> => wire'[other] = wire[other]
    BY <1>1, <2>3
  <2>7. \A c \in Clients : out'[c] = out[c]
    BY <1>4, <2>3
  <2>8. wire'[OrderCh] = wire[OrderCh]
    BY <2>5, <2>6, ChannelsApart, AskApart, OthersApart
  <2>9. \A c \in Clients : /\ wire'[AskCh(c)] = wire[AskCh(c)]
                           /\ wire'[ReplyCh(c)] = wire[ReplyCh(c)]
                           /\ wire'[GiftCh(c)] = wire[GiftCh(c)]
    <3>1. PICK ch \in {SortedCh, AskCh(Bearing)} : ch = <<Bearing, x.to, x.port>>
      BY <2>5
    <3>2. QED
      BY <1>3, <2>6, <3>1
  <2>10. QED
    BY <1>0, <2>1, <2>7, <2>8, <2>9
<1>12. QED
  BY <1>6, <1>7, <1>8, <1>9, <1>10, <1>11 DEF B!Work

(***************************************************************************)
(* Rusk keeps what is whose.                                               *)
(***************************************************************************)

LEMMA ChangedReordered ==
  ASSUME DOMAIN expanses' = DOMAIN expanses,
         \A i \in DOMAIN expanses : /\ expanses'[i].exp.handle = expanses[i].exp.handle
                                    /\ expanses'[i].pid = expanses[i].pid
  PROVE  Reordered
<1>1. PICK g \in [DOMAIN expanses' -> DOMAIN expanses] : g = [i \in DOMAIN expanses |-> i]
  OBVIOUS
<1>2. QED
  BY <1>1 DEF Reordered

(* Bringing one to the front moves those before it one place back.         *)
LEMMA FrontReordered ==
  ASSUME expanses \in Seq(Window), NEW h, expanses' = R!ToFront(h)
  PROVE  /\ Reordered
         /\ \A k \in DOMAIN expanses' : \E i \in DOMAIN expanses : expanses'[k] = expanses[i]
<1>1. CASE R!Behind(h) = {}
  <2>1. expanses' = expanses
    BY <1>1 DEF R!ToFront
  <2>2. QED
    BY <2>1, NotReordered
<1>2. CASE R!Behind(h) # {}
  <2>1. R!Behind(h) \in SUBSET Nat /\ R!Behind(h) \subseteq DOMAIN expanses
    BY DEF R!Behind, R!OfHandle
  <2>2. PICK m \in DOMAIN expanses : m = Min(R!Behind(h))
    BY <1>2, <2>1, MinIn
  <2>3. expanses' = << expanses[m] >> \o RemoveAt(expanses, m)
    BY <1>2, <2>2 DEF R!ToFront, R!Min, Min, R!RemoveAt, RemoveAt
  <2>4. PICK n \in Nat : n = Len(expanses) /\ DOMAIN expanses = 1 .. n
    OBVIOUS
  <2>5. PICK a \in Seq(Window) :
          /\ a = SubSeq(expanses, 1, m - 1) /\ Len(a) = m - 1
          /\ \A i \in 1 .. m - 1 : a[i] = expanses[i]
    <3>1. /\ SubSeq(expanses, 1, m - 1) \in Seq(Window) /\ Len(SubSeq(expanses, 1, m - 1)) = m - 1
          /\ \A i \in 1 .. m - 1 : SubSeq(expanses, 1, m - 1)[i] = expanses[i]
      BY <2>4
    <3>2. QED
      BY <3>1
  <2>6. PICK b \in Seq(Window) :
          /\ b = SubSeq(expanses, m + 1, n) /\ Len(b) = n - m
          /\ \A i \in 1 .. n - m : b[i] = expanses[m + i]
    <3>1. SubSeq(expanses, m + 1, n) \in Seq(Window) /\ Len(SubSeq(expanses, m + 1, n)) = n - m
      BY <2>4
    <3>2. \A i \in 1 .. n - m : SubSeq(expanses, m + 1, n)[i] = expanses[m + i]
      BY <2>4, <3>1
    <3>3. QED
      BY <3>1, <3>2
  <2>7. PICK r \in Seq(Window) : r = a \o b
    <3>1. a \o b \in Seq(Window)
      OBVIOUS
    <3>2. QED
      BY <3>1
  <2>8. Len(r) = n - 1 /\ \A i \in 1 .. n - 1 : r[i] = IF i < m THEN expanses[i] ELSE expanses[i + 1]
    <3>1. Len(r) = (m - 1) + (n - m)
      BY <2>4, <2>5, <2>6, <2>7
    <3>2. ASSUME NEW i \in 1 .. n - 1
          PROVE  r[i] = IF i < m THEN expanses[i] ELSE expanses[i + 1]
      <4>1. CASE i < m
        BY <2>4, <2>5, <2>6, <2>7, <4>1
      <4>2. CASE ~(i < m)
        <5>1. PICK j \in 1 .. n - m : j = i - (m - 1)
          BY <2>4, <4>2
        <5>2. r[i] = b[j]
          <6>1. m \in 1 .. n /\ i \in 1 .. (m - 1) + (n - m) /\ ~(i <= m - 1)
            BY <2>4, <4>2
          <6>2. \A x \in Nat, y \in Nat : x = Len(a) /\ y = Len(b) =>
                  \A k \in 1 .. x + y : ~(k <= x) => r[k] = b[k - x]
            BY <2>7
          <6>3. m - 1 \in Nat /\ n - m \in Nat
            BY <2>4
          <6>4. QED
            BY <2>5, <2>6, <5>1, <6>1, <6>2, <6>3
        <5>3. m + j = i + 1
          BY <2>4, <5>1
        <5>4. QED
          BY <2>6, <4>2, <5>2, <5>3
      <4>3. QED
        BY <4>1, <4>2
    <3>3. QED
      BY <2>4, <3>1, <3>2
  <2>9. PICK f \in Seq(Window) : f = << expanses[m] >> /\ Len(f) = 1 /\ f[1] = expanses[m]
    <3>1. PICK e \in Window : e = expanses[m]
      OBVIOUS
    <3>2. << e >> \in Seq(Window)
      OBVIOUS
    <3>3. QED
      BY <3>1, <3>2
  <2>10. expanses' = f \o r
    <3>1. RemoveAt(expanses, m) = r
      BY <2>4, <2>5, <2>6, <2>7 DEF RemoveAt
    <3>2. QED
      BY <2>3, <2>9, <3>1
  <2>11. /\ DOMAIN expanses' = 1 .. n
         /\ \A k \in 1 .. n : expanses'[k] = IF k = 1 THEN f[1] ELSE r[k - 1]
    BY <2>4, <2>8, <2>9, <2>10
  <2> DEFINE g == [k \in 1 .. n |-> IF k = 1 THEN m ELSE IF k <= m THEN k - 1 ELSE k]
  <2>12. g \in [DOMAIN expanses' -> DOMAIN expanses]
    BY <2>4, <2>11
  <2>13. ASSUME NEW k \in 1 .. n
         PROVE  expanses'[k] = expanses[g[k]]
    <3>1. CASE k = 1
      BY <2>9, <2>11, <3>1
    <3>2. CASE k # 1
      <4>1. k - 1 \in 1 .. n - 1 /\ k - 1 + 1 = k
        BY <3>2
      <4>2. r[k - 1] = IF k - 1 < m THEN expanses[k - 1] ELSE expanses[k]
        BY <2>8, <4>1
      <4>3. QED
        BY <2>4, <2>11, <3>2, <4>2
    <3>3. QED
      BY <3>1, <3>2
  <2>14. \A k, l \in 1 .. n : g[k] = g[l] => k = l
    BY <2>4
  <2>15. \A i \in 1 .. n : \E k \in 1 .. n : g[k] = i
    <3>1. ASSUME NEW i \in 1 .. n
          PROVE  \E k \in 1 .. n : g[k] = i
      <4>1. CASE i = m
        <5>1. 1 \in 1 .. n /\ g[1] = i
          BY <4>1
        <5>2. QED
          BY <5>1
      <4>2. CASE i < m
        <5>1. i + 1 \in 1 .. n /\ g[i + 1] = i
          BY <2>4, <4>2
        <5>2. QED
          BY <5>1
      <4>3. CASE i > m
        <5>1. g[i] = i
          BY <2>4, <4>3
        <5>2. QED
          BY <5>1
      <4>4. QED
        BY <2>4, <4>1, <4>2, <4>3
    <3>2. QED
      BY <3>1
  <2>16. \A k \in 1 .. n : g[k] \in DOMAIN expanses
    BY <2>4
  <2> HIDE DEF g
  <2>17. Reordered
    <3>1. /\ \A i \in DOMAIN expanses : \E k \in DOMAIN expanses' : g[k] = i
          /\ \A k, l \in DOMAIN expanses' : g[k] = g[l] => k = l
      BY <2>4, <2>11, <2>14, <2>15
    <3>2. \A k \in DOMAIN expanses' : /\ expanses'[k].exp.handle = expanses[g[k]].exp.handle
                                      /\ expanses'[k].pid = expanses[g[k]].pid
      BY <2>11, <2>13
    <3>3. QED
      BY <2>12, <3>1, <3>2, Zenon DEF Reordered
  <2>18. QED
    BY <2>11, <2>13, <2>16, <2>17
<1>3. QED
  BY <1>1, <1>2

(* Nothing of what a program and rusk say to each other changes.           *)
Untouched(c) ==
  /\ out'[c] = out[c] /\ wire'[AskCh(c)] = wire[AskCh(c)]
  /\ wire'[ReplyCh(c)] = wire[ReplyCh(c)] /\ wire'[GiftCh(c)] = wire[GiftCh(c)]
  /\ exp_list'[c] = exp_list[c]

(* What a program that is left alone names are its own expanses still.     *)
LEMMA OwnsUntouched ==
  ASSUME NEW c, OwnsRight(c), Owned(c) \subseteq Owned(c)', Untouched(c)
  PROVE  OwnsRight(c)'
BY OwnsStays DEF OwnsRight, Untouched

(* A request that sends nothing and leaves every expanse its handle and    *)
(* its program keeps the invariant.                                        *)
LEMMA OwnAlone ==
  ASSUME Distinct, Owning, Reordered, count' = count, req' = R!Idle,
         \A c \in Clients : Untouched(c)
  PROVE  Distinct' /\ Owning'
<1>1. Distinct'
  BY ReorderedDistinct
<1>2. ASSUME NEW c \in Clients
      PROVE  OwnsRight(c)' /\ DrawsRight(c)'
  <2>1. OwnsRight(c)'
    BY <1>2, ReorderedSame, OwnsUntouched DEF Owning
  <2>2. DrawsRight(c)'
    BY DEF DrawsRight, R!Idle
  <2>3. QED
    BY <2>1, <2>2
<1>3. QED
  BY <1>1, <1>2 DEF Owning

(* Functions that change nothing but the list.                             *)
LEMMA QuietDoes ==
  ASSUME StepInv, UNCHANGED <<bearingVars, shinyVars>>,
         R!remove_expanse \/ R!update_partial \/ R!update_expanse
           \/ R!set_decoration_buffers \/ R!bring_expanse_to_front
  PROVE  /\ req' = R!Idle /\ UNCHANGED <<em, count>> /\ UNCHANGED wire
         /\ \A c : Untouched(c)
<1>1. req' = R!Idle /\ UNCHANGED <<wire, out, em, count>>
  BY DEF R!remove_expanse, R!update_partial, R!update_expanse, R!set_decoration_buffers,
         R!bring_expanse_to_front, R!Done, R!wireVars
<1>2. UNCHANGED exp_list
  BY DEF shinyVars
<1>3. QED
  BY <1>1, <1>2 DEF Untouched

(* A function with two arguments has got something when it has got all.    *)
LEMMA GotTwoOnly ==
  ASSUME NEW f, NEW p, NEW got, NEW a, NEW b, Progress(f, p, <<>>, got), R!Args[f] = <<a, b>>
  PROVE  got # <<>>
<1>0. Tail(<<a, b>>) = <<b>> /\ <<b>> # <<>> /\ <<a, b>> # <<>>
  BY HeadsSpelled
<1>1. \E v, v2 : got = <<v, v2>>
  BY <1>0 DEF Progress
<1>2. QED
  BY <1>1, HeadsSpelled

(* update_partial: the picture is changed by the program whose expanse it  *)
(* is.                                                                     *)
LEMMA OwnDraw ==
  ASSUME StepInv, OwnInv, R!update_partial, UNCHANGED <<bearingVars, shinyVars>>
  PROVE  OwnInv' /\ Reordered
<1>1. /\ req.want = <<>> /\ req.func = "draw"
      /\ expanses' = [i \in DOMAIN expanses |->
                        IF i \in R!OfHandle(req.got[1])
                        THEN [expanses[i] EXCEPT !.drawn = req.got[2]] ELSE expanses[i]]
  BY DEF R!update_partial, R!Performs
<1>2. req.id \in Clients /\ req.got[2] = req.id
  BY <1>1, Arguments DEF StepInv
<1>3. req.got # <<>>
  <2>1. Progress("draw", req.id, <<>>, req.got)
    BY <1>1, Asker DEF StepInv
  <2>2. QED
    BY <2>1, ArgsSpelled, GotTwoOnly
<1>4. req.got[1] \in Owned(req.id)
  BY <1>1, <1>2, <1>3 DEF OwnInv, Owning, DrawsRight
<1>5. ASSUME NEW i \in DOMAIN expanses
      PROVE  /\ expanses'[i].exp = expanses[i].exp /\ expanses'[i].pid = expanses[i].pid
             /\ expanses'[i].drawn \in {None, expanses'[i].pid}
  <2>1. PICK e \in Window : e = expanses[i]
    BY DEF StepInv, Typed
  <2>2. e.drawn \in {None, e.pid}
    BY <2>1 DEF OwnInv, Pictures
  <2>3. CASE i \notin R!OfHandle(req.got[1])
    BY <1>1, <2>1, <2>2, <2>3
  <2>4. CASE i \in R!OfHandle(req.got[1])
    <3>1. expanses[i].exp.handle = req.got[1]
      BY <2>4 DEF R!OfHandle
    <3>2. PICK j \in DOMAIN expanses : expanses[j].pid = req.id /\ expanses[j].exp.handle = req.got[1]
      BY <1>4 DEF Owned
    <3>3. i = j
      BY <3>1, <3>2 DEF OwnInv, Distinct
    <3>4. e.pid = req.id
      BY <2>1, <3>2, <3>3
    <3>5. expanses'[i] = [e EXCEPT !.drawn = req.id]
      BY <1>1, <1>2, <2>1, <2>4
    <3>6. QED
      BY <2>1, <3>4, <3>5 DEF Window
  <2>5. QED
    BY <2>3, <2>4
<1>6. DOMAIN expanses' = DOMAIN expanses
  BY <1>1
<1>7. Reordered
  BY <1>5, <1>6, ChangedReordered
<1>8. Pictures'
  BY <1>5, <1>6 DEF Pictures
<1>9. QED
  BY <1>7, <1>8, QuietDoes, OwnAlone DEF OwnInv

(* update_expanse changes nobody's expanse into another's.                 *)
LEMMA OwnUpdate ==
  ASSUME StepInv, OwnInv, R!update_expanse, UNCHANGED <<bearingVars, shinyVars>>
  PROVE  OwnInv' /\ Reordered
<1>1. expanses' = [i \in DOMAIN expanses |->
                        IF i \in R!OfHandle(req.got[1].handle)
                        THEN [expanses[i] EXCEPT !.exp = req.got[1]] ELSE expanses[i]]
  BY DEF R!update_expanse
<1>2. ASSUME NEW i \in DOMAIN expanses
      PROVE  /\ expanses'[i].exp.handle = expanses[i].exp.handle
             /\ expanses'[i].pid = expanses[i].pid /\ expanses'[i].drawn = expanses[i].drawn
  <2>1. PICK e \in Window : e = expanses[i]
    BY DEF StepInv, Typed
  <2>2. CASE i \in R!OfHandle(req.got[1].handle)
    <3>1. e.exp.handle = req.got[1].handle
      BY <2>1, <2>2 DEF R!OfHandle
    <3>2. expanses'[i] = [e EXCEPT !.exp = req.got[1]]
      BY <1>1, <2>1, <2>2
    <3>3. QED
      BY <2>1, <3>1, <3>2 DEF Window
  <2>3. CASE i \notin R!OfHandle(req.got[1].handle)
    BY <1>1, <2>3
  <2>4. QED
    BY <2>2, <2>3
<1>3. DOMAIN expanses' = DOMAIN expanses
  BY <1>1
<1>4. Reordered
  BY <1>2, <1>3, ChangedReordered
<1>5. Pictures'
  BY <1>2, <1>3 DEF OwnInv, Pictures
<1>6. QED
  BY <1>4, <1>5, QuietDoes, OwnAlone DEF OwnInv

(* Nor does set_decoration_buffers.                                        *)
LEMMA OwnDecorate ==
  ASSUME StepInv, OwnInv, R!set_decoration_buffers, UNCHANGED <<bearingVars, shinyVars>>
  PROVE  OwnInv' /\ Reordered
<1>1. expanses' = [i \in DOMAIN expanses |->
                        IF i \in R!OfHandle(req.got[1].handle)
                        THEN [expanses[i] EXCEPT !.top = req.got[2]] ELSE expanses[i]]
  BY DEF R!set_decoration_buffers
<1>2. ASSUME NEW i \in DOMAIN expanses
      PROVE  /\ expanses'[i].exp.handle = expanses[i].exp.handle
             /\ expanses'[i].pid = expanses[i].pid /\ expanses'[i].drawn = expanses[i].drawn
  <2>1. PICK e \in Window : e = expanses[i]
    BY DEF StepInv, Typed
  <2>2. expanses'[i] = [e EXCEPT !.top = req.got[2]] \/ expanses'[i] = e
    BY <1>1, <2>1
  <2>3. QED
    BY <2>1, <2>2 DEF Window
<1>3. DOMAIN expanses' = DOMAIN expanses
  BY <1>1
<1>4. Reordered
  BY <1>2, <1>3, ChangedReordered
<1>5. Pictures'
  BY <1>2, <1>3 DEF OwnInv, Pictures
<1>6. QED
  BY <1>4, <1>5, QuietDoes, OwnAlone DEF OwnInv

(* Nor does bring_expanse_to_front.                                        *)
LEMMA OwnFront ==
  ASSUME StepInv, OwnInv, R!bring_expanse_to_front, UNCHANGED <<bearingVars, shinyVars>>
  PROVE  OwnInv' /\ Reordered
<1>1. expanses' = R!ToFront(req.got[1].handle) /\ expanses \in Seq(Window)
  BY DEF R!bring_expanse_to_front, StepInv, Typed
<1>2. /\ Reordered
      /\ \A k \in DOMAIN expanses' : \E i \in DOMAIN expanses : expanses'[k] = expanses[i]
  BY <1>1, FrontReordered
<1>3. Pictures'
  BY <1>2 DEF OwnInv, Pictures
<1>4. QED
  BY <1>2, <1>3, QuietDoes, OwnAlone DEF OwnInv

(* Nor does remove_expanse, which stops the machine.                       *)
LEMMA OwnRemove ==
  ASSUME StepInv, OwnInv, R!remove_expanse, UNCHANGED <<bearingVars, shinyVars>>
  PROVE  OwnInv' /\ Reordered
<1>1. expanses' = expanses
  BY DEF R!remove_expanse
<1>2. Reordered
  BY <1>1, NotReordered
<1>3. Pictures'
  BY <1>1 DEF OwnInv, Pictures
<1>4. QED
  BY <1>2, <1>3, QuietDoes, OwnAlone DEF OwnInv

(* Who owns what is read off the list.                                     *)
LEMMA OwnedSame ==
  ASSUME UNCHANGED <<expanses, count>>
  PROVE  /\ \A c : /\ Owned(c)' = Owned(c) /\ OwnAsks(c)' = OwnAsks(c)
                   /\ OwnPosts(c)' = OwnPosts(c) /\ OwnReplies(c)' = OwnReplies(c)
                   /\ OwnGifts(c)' = OwnGifts(c)
         /\ OwnInv => Distinct' /\ Pictures' /\ Reordered
<1>1. ASSUME NEW c
      PROVE  /\ Owned(c)' = Owned(c) /\ OwnAsks(c)' = OwnAsks(c)
             /\ OwnPosts(c)' = OwnPosts(c) /\ OwnReplies(c)' = OwnReplies(c)
             /\ OwnGifts(c)' = OwnGifts(c)
  <2>1. Owned(c)' = Owned(c)
    BY DEF Owned
  <2>2. OwnAsks(c)' = OwnAsks(c) /\ OwnReplies(c)' = OwnReplies(c)
    BY <2>1 DEF OwnAsks, OwnReplies
  <2>3. QED
    BY <2>1, <2>2 DEF OwnPosts, OwnGifts
<1>2. OwnInv => Distinct' /\ Pictures'
  BY DEF OwnInv, Distinct, Handles, Pictures
<1>3. QED
  BY <1>1, <1>2, NotReordered

(* The others are left alone while one is served.                          *)
LEMMA OwnOthers ==
  ASSUME OwnInv, UNCHANGED <<expanses, count>>, NEW q,
         \A c \in Clients : c # q => Untouched(c),
         q \in Clients => OwnsRight(q)',
         \A c \in Clients : DrawsRight(c)'
  PROVE  OwnInv'
<1>1. ASSUME NEW c \in Clients
      PROVE  OwnsRight(c)'
  <2>1. CASE c = q
    BY <2>1
  <2>2. CASE c # q
    <3>1. Owned(c) \subseteq Owned(c)' /\ OwnsRight(c) /\ Untouched(c)
      BY <2>2, OwnedSame DEF OwnInv, Owning
    <3>2. QED
      BY <3>1, OwnsUntouched
  <2>3. QED
    BY <2>1, <2>2
<1>2. QED
  BY <1>1, OwnedSame DEF OwnInv, Owning

(* A channel that is not one of a program's does not touch him.            *)
LEMMA ServedAlone ==
  ASSUME NEW ch, \A other \in Channels : other # ch => wire'[other] = wire[other],
         \A p \in Askers : out'[p] = out[p], exp_list' = exp_list, NEW c \in Clients,
         ch # AskCh(c), ch # ReplyCh(c), ch # GiftCh(c)
  PROVE  Untouched(c)
BY ChannelsApart DEF Untouched

(* A program asks about his own expanses when his request is begun.        *)
LEMMA OwnServe ==
  ASSUME StepInv, OwnInv, NEW id \in Programs, R!serve(id), UNCHANGED <<bearingVars, shinyVars>>
  PROVE  OwnInv' /\ Reordered
<1>1. /\ id \in Askers /\ wire[AskCh(id)] # <<>> /\ req'.got = <<>>
      /\ UNCHANGED <<expanses, count, exp_list>> /\ \A p \in Askers : out'[p] = out[p]
      /\ id \in Clients => wire'[AskCh(id)] = Tail(wire[AskCh(id)])
      /\ \A ch \in Channels : ch # AskCh(id) => wire'[ch] = wire[ch]
  BY ServeDoes DEF shinyVars
<1>2. ASSUME NEW c \in Clients, c # id
      PROVE  Untouched(c)
  BY <1>1, <1>2, ServedAlone, ChannelsApart, AskApart
<1>3. ASSUME id \in Clients
      PROVE  OwnsRight(id)'
  <2>1. OwnsRight(id)
    BY <1>3 DEF OwnInv, Owning
  <2>2. Tail(wire[AskCh(id)]) \in Seq(OwnAsks(id))
    BY <1>1, <2>1 DEF OwnsRight
  <2>3. /\ wire'[ReplyCh(id)] = wire[ReplyCh(id)] /\ wire'[GiftCh(id)] = wire[GiftCh(id)]
    BY <1>1, <1>3, ChannelsApart, AskApart
  <2>4. QED
    BY <1>1, <1>3, <2>1, <2>2, <2>3, OwnedSame DEF OwnsRight
<1>4. \A c \in Clients : DrawsRight(c)'
  BY <1>1 DEF DrawsRight
<1>5. QED
  BY <1>1, <1>2, <1>3, <1>4, OwnOthers, OwnedSame

(* The first argument of a picture is the handle, which is the sender's.   *)
LEMMA PlaceIsOwn ==
  ASSUME NEW c \in Clients, OwnInv, NEW m \in OwnAsks(c), m.type = "place"
  PROVE  m.val \in Owned(c)
<1>1. \/ \E f : m = Message("func", f)
      \/ m = Message("api", c) \/ m = Message("buffer", c)
      \/ \E h : m = Message("handle", h)
      \/ \E h \in Owned(c) : m = Message("place", h)
  BY DEF OwnAsks
<1>2. \A t, v : Message(t, v).type = t /\ Message(t, v).val = v
  BY DEF Message
<1>3. QED
  BY <1>1, <1>2

(* And so he does when its argument is taken: what he draws to is his own. *)
LEMMA OwnReceive ==
  ASSUME StepInv, OwnInv, R!receive_data, UNCHANGED <<bearingVars, shinyVars>>
  PROVE  OwnInv' /\ Reordered
<1>1. UNCHANGED <<expanses, count, exp_list>>
  BY ReceiveDoes DEF shinyVars
<1>3. CASE /\ req.func = "send_events" /\ req'.func = "send_events"
           /\ \A p \in Askers : out'[p] = out[p]
           /\ \A ch \in Channels : ch # SortedCh => wire'[ch] = wire[ch]
  <2>1. ASSUME NEW c \in Clients
        PROVE  Untouched(c) /\ DrawsRight(c)'
    <3>1. Untouched(c)
      BY <1>1, <1>3, ServedAlone, ChannelsApart, AskApart, OthersApart
    <3>2. QED
      BY <1>3, <3>1 DEF DrawsRight
  <2>2. QED
    BY <1>1, <2>1, OwnOthers, OwnedSame, WireAssumption
<1>4. ASSUME NEW p \in Askers, NEW m,
             p = req.id, wire[AskCh(p)] # <<>>, m = Head(wire[AskCh(p)]),
             req.func \in Funcs(p), Progress(req.func, p, req.want, req.got),
             req.want \in Wants, m.type = Head(req.want),
             req' = [func |-> req.func, id |-> p, want |-> Tail(req.want),
                     got |-> Append(req.got, m.val)],
             wire'[AskCh(p)] = Tail(wire[AskCh(p)]),
             \A ch \in Channels : ch # AskCh(p) => wire'[ch] = wire[ch],
             \A q \in Askers : out'[q] = out[q]
      PROVE  OwnInv'
  <2>1. ASSUME NEW c \in Clients, c # p
        PROVE  Untouched(c)
    BY <1>1, <1>4, <2>1, ServedAlone, ChannelsApart, AskApart
  <2>2. ASSUME p \in Clients
        PROVE  OwnsRight(p)' /\ m \in OwnAsks(p)
    <3>1. OwnsRight(p)
      BY <2>2 DEF OwnInv, Owning
    <3>2. Tail(wire[AskCh(p)]) \in Seq(OwnAsks(p)) /\ m \in OwnAsks(p)
      <4>1. wire[AskCh(p)] \in Seq(OwnAsks(p))
        BY <3>1 DEF OwnsRight
      <4>2. PICK s \in Seq(OwnAsks(p)) : s = wire[AskCh(p)]
        BY <4>1
      <4>3. s # <<>> /\ m = Head(s)
        BY <1>4, <4>2
      <4>4. Tail(s) \in Seq(OwnAsks(p)) /\ Head(s) \in OwnAsks(p)
        BY <4>3
      <4>5. QED
        BY <4>2, <4>3, <4>4
    <3>3. wire'[ReplyCh(p)] = wire[ReplyCh(p)] /\ wire'[GiftCh(p)] = wire[GiftCh(p)]
      BY <1>4, <2>2, ChannelsApart, AskApart
    <3>4. QED
      BY <1>1, <1>4, <2>2, <3>1, <3>2, <3>3, OwnedSame DEF OwnsRight
  <2>3. ASSUME NEW c \in Clients, req'.func = "draw", req'.id = c
        PROVE  req'.got[1] \in Owned(c)'
    <3>1. c = p /\ req.func = "draw" /\ req'.got = Append(req.got, m.val)
      BY <1>4, <2>3
    <3>2. Progress("draw", p, req.want, req.got) /\ req.want # <<>>
      BY <1>4, <3>1, WantsAreStates
    <3>3. \/ req.want = <<"place", "buffer">> /\ req.got = <<>>
          \/ \E v : req.got = <<v>>
      BY <3>2, ArgsSpelled, HeadsSpelled DEF Progress
    <3>4. CASE req.want = <<"place", "buffer">> /\ req.got = <<>>
      <4>1. m.type = "place"
        BY <1>4, <3>4, HeadsSpelled
      <4>2. m.val \in Owned(c)
        BY <2>2, <3>1, <4>1, PlaceIsOwn
      <4>3. req'.got = << m.val >>
        BY <3>1, <3>4, Appended
      <4>4. QED
        BY <1>1, <4>2, <4>3, OwnedSame
    <3>5. ASSUME NEW v, req.got = <<v>>
          PROVE  req'.got[1] \in Owned(c)'
      <4>1. req'.got = <<v, m.val>>
        BY <3>1, <3>5, Appended
      <4>2. req.got # <<>> /\ req.got[1] = v
        BY <3>5, HeadsSpelled
      <4>3. v \in Owned(c)
        BY <1>4, <3>1, <4>2 DEF OwnInv, Owning, DrawsRight
      <4>4. QED
        BY <1>1, <4>1, <4>3, OwnedSame
    <3>6. QED
      BY <3>3, <3>4, <3>5
  <2>4. \A c \in Clients : DrawsRight(c)'
    BY <2>3 DEF DrawsRight
  <2>5. QED
    BY <1>1, <2>1, <2>2, <2>4, OwnOthers
<1>5. OwnInv'
  <2>1. \/ /\ req.func = "send_events" /\ req'.func = "send_events"
           /\ \A p \in Askers : out'[p] = out[p]
           /\ \A ch \in Channels : ch # SortedCh => wire'[ch] = wire[ch]
        \/ \E p \in Askers : \E m :
           /\ p = req.id /\ wire[AskCh(p)] # <<>> /\ m = Head(wire[AskCh(p)])
           /\ req.func \in Funcs(p) /\ Progress(req.func, p, req.want, req.got)
           /\ req.want \in Wants /\ m.type = Head(req.want)
           /\ req' = [func |-> req.func, id |-> p, want |-> Tail(req.want),
                      got |-> Append(req.got, m.val)]
           /\ wire'[AskCh(p)] = Tail(wire[AskCh(p)])
           /\ \A ch \in Channels : ch # AskCh(p) => wire'[ch] = wire[ch]
           /\ \A q \in Askers : out'[q] = out[q]
    BY ReceiveDoes, Zenon
  <2>2. QED
    BY <1>3, <1>4, <2>1, Zenon
<1>6. QED
  BY <1>1, <1>5, NotReordered

(* The events go to the program whose handle comes with them.              *)
LEMMA OwnSend ==
  ASSUME StepInv, OwnInv, R!send_events, UNCHANGED <<bearingVars, shinyVars>>
  PROVE  OwnInv' /\ Reordered
<1>1. UNCHANGED <<expanses, count, exp_list, out>> /\ req' = R!Idle
  BY SendDoes DEF shinyVars
<1>2. \A c \in Clients : DrawsRight(c)'
  BY <1>1 DEF DrawsRight, R!Idle
<1>3. CASE UNCHANGED wire
  <2>1. \A c \in Clients : Untouched(c)
    BY <1>1, <1>3 DEF Untouched
  <2>2. QED
    BY <1>1, <1>2, <2>1, OwnOthers, OwnedSame, WireAssumption
<1>4. ASSUME NEW i \in DOMAIN expanses, NEW l \in Events, NEW c \in Clients, NEW s,
             c = expanses[i].pid,
             s = << Message("handle", expanses[i].exp.handle), Message("events", l) >>,
             wire'[GiftCh(c)] = wire[GiftCh(c)] \o s,
             \A ch \in Channels : ch # GiftCh(c) => wire'[ch] = wire[ch]
      PROVE  OwnInv'
  <2>1. ASSUME NEW d \in Clients, d # c
        PROVE  Untouched(d)
    <3>1. AskCh(d) # GiftCh(c) /\ ReplyCh(d) # GiftCh(c) /\ GiftCh(d) # GiftCh(c)
      BY <2>1, AskApart, OthersApart, ChannelsApart
    <3>2. AskCh(d) \in Channels /\ ReplyCh(d) \in Channels /\ GiftCh(d) \in Channels
      BY ChannelsApart, AskApart, OthersApart
    <3>3. /\ wire'[AskCh(d)] = wire[AskCh(d)]
          /\ wire'[ReplyCh(d)] = wire[ReplyCh(d)]
          /\ wire'[GiftCh(d)] = wire[GiftCh(d)]
      BY <1>4, <3>1, <3>2
    <3>4. QED
      BY <1>1, <3>3 DEF Untouched
  <2>2. OwnsRight(c)
    BY DEF OwnInv, Owning
  <2>3. s \in Seq(OwnGifts(c))
    <3>1. expanses[i].exp.handle \in Owned(c)
      BY <1>4 DEF Owned
    <3>2. PICK m, k : /\ m = Message("handle", expanses[i].exp.handle) /\ k = Message("events", l)
                      /\ m \in OwnGifts(c) /\ k \in OwnGifts(c)
      BY <3>1 DEF OwnGifts, OwnReplies
    <3>3. << m, k >> \in Seq(OwnGifts(c))
      BY <3>2
    <3>4. QED
      BY <1>4, <3>2, <3>3
  <2>4. wire'[GiftCh(c)] \in Seq(OwnGifts(c))
    BY <1>4, <2>2, <2>3, ConcatProperties DEF OwnsRight
  <2>5. wire'[AskCh(c)] = wire[AskCh(c)] /\ wire'[ReplyCh(c)] = wire[ReplyCh(c)]
    BY <1>4, ChannelsApart, AskApart, OthersApart
  <2>6. OwnsRight(c)'
    BY <1>1, <2>2, <2>4, <2>5, OwnedSame DEF OwnsRight
  <2>7. QED
    BY <1>1, <1>2, <2>1, <2>6, OwnOthers
<1>5. OwnInv'
  <2>1. ASSUME NEW i \in DOMAIN expanses, NEW l \in Events, expanses[i].pid \in Clients,
               wire'[GiftCh(expanses[i].pid)] = wire[GiftCh(expanses[i].pid)] \o
                 << Message("handle", expanses[i].exp.handle), Message("events", l) >>,
               \A ch \in Channels : ch # GiftCh(expanses[i].pid) => wire'[ch] = wire[ch]
        PROVE  OwnInv'
    BY <1>4, <2>1
  <2>2. QED
    BY <1>3, <2>1, SendDoes
<1>6. QED
  BY <1>1, <1>5, NotReordered

(* The registration and the reading of the keyboard name nobody's expanses *)
(* to a program.                                                           *)
LEMMA OwnRegister ==
  ASSUME StepInv, OwnInv, R!register_em \/ R!process_events \/ R!reg_esys, shinyVars' = shinyVars
  PROVE  OwnInv' /\ Reordered
<1>1. UNCHANGED <<expanses, count, exp_list, out>> /\ (req' = R!Idle \/ req' = req)
  BY RegisterDoes, ReadDoes DEF shinyVars, R!reg_esys, R!ruskVars
<1>2. \A ch \in Channels : ch # OrderCh /\ ch # ListCh => wire'[ch] = wire[ch]
  BY RegisterDoes, ReadDoes DEF R!reg_esys
<1>3. \A c \in Clients : DrawsRight(c)'
  BY <1>1, OwnedSame DEF OwnInv, Owning, DrawsRight, R!Idle
<1>4. \A c \in Clients : Untouched(c)
  BY <1>1, <1>2, ChannelsApart, AskApart, OthersApart DEF Untouched
<1>5. QED
  BY <1>1, <1>3, <1>4, OwnOthers, OwnedSame, WireAssumption

(* A sequence with one element before it.                                  *)
LEMMA Prepended ==
  ASSUME NEW D, NEW e \in D, NEW s \in Seq(D)
  PROVE  /\ DOMAIN (<<e>> \o s) = 1 .. Len(s) + 1 /\ (<<e>> \o s)[1] = e
         /\ \A i \in DOMAIN s : i + 1 \in DOMAIN (<<e>> \o s) /\ (<<e>> \o s)[i + 1] = s[i]
         /\ \A k \in DOMAIN (<<e>> \o s) :
              k = 1 \/ (k - 1 \in DOMAIN s /\ (<<e>> \o s)[k] = s[k - 1])
<1>1. PICK f \in Seq(D) : f = <<e>> /\ Len(f) = 1 /\ f[1] = e
  <2>1. <<e>> \in Seq(D)
    OBVIOUS
  <2>2. QED
    BY <2>1
<1>2. PICK n \in Nat : n = Len(s) /\ DOMAIN s = 1 .. n
  OBVIOUS
<1>3. PICK r \in Seq(D) : r = f \o s
  <2>1. f \o s \in Seq(D)
    OBVIOUS
  <2>2. QED
    BY <2>1
<1>4. Len(r) = n + 1 /\ DOMAIN r = 1 .. n + 1
  BY <1>1, <1>2, <1>3
<1>5. r[1] = e
  BY <1>1, <1>2, <1>3, <1>4
<1>6. \A k \in 2 .. n + 1 : r[k] = s[k - 1]
  BY <1>1, <1>2, <1>3
<1>7. QED
  BY <1>1, <1>2, <1>3, <1>4, <1>5, <1>6

(* The new expanse has a handle nobody has, and it is told to the one who  *)
(* asked.                                                                  *)
LEMMA OwnCreate ==
  ASSUME StepInv, OwnInv, R!create_expanse, UNCHANGED <<bearingVars, shinyVars>>
  PROVE  /\ OwnInv'
         /\ Handles' = Handles \cup {count}
         /\ \A c : Owned(c)' = IF c = req.id THEN Owned(c) \cup {count} ELSE Owned(c)
<1>1. PICK p : p = req.id
  OBVIOUS
<1>2. PICK e : e = R!NewExpanse(p)
  OBVIOUS
<1>3. /\ p \in Clients /\ req' = R!Idle /\ UNCHANGED <<out, exp_list>> /\ count' = count + 1
      /\ expanses' = <<e>> \o expanses
      /\ wire'[ReplyCh(p)] = wire[ReplyCh(p)] \o << Message("handle", count) >>
      /\ \A ch \in Channels : ch # OrderCh /\ ch # ReplyCh(p) => wire'[ch] = wire[ch]
  BY <1>1, <1>2, CreateDoes DEF shinyVars
<1>4. /\ count \in Nat /\ expanses \in Seq(Window)
  BY DEF StepInv, Typed
<1>5. e \in Window /\ e.exp.handle = count /\ e.pid = p /\ e.drawn = None
  BY <1>2, <1>3, <1>4 DEF R!NewExpanse, Window, Exp
<1>6. /\ 1 \in DOMAIN expanses' /\ expanses'[1] = e
      /\ \A i \in DOMAIN expanses : i + 1 \in DOMAIN expanses' /\ expanses'[i + 1] = expanses[i]
      /\ \A k \in DOMAIN expanses' :
           k = 1 \/ (k - 1 \in DOMAIN expanses /\ expanses'[k] = expanses[k - 1])
      /\ DOMAIN expanses' = 1 .. Len(expanses) + 1 /\ DOMAIN expanses = 1 .. Len(expanses)
      /\ Len(expanses) \in Nat
  BY <1>3, <1>4, <1>5, Prepended
<1>7. Handles' = Handles \cup {count}
  <2>1. Handles' \subseteq Handles \cup {count}
    BY <1>5, <1>6 DEF Handles
  <2>2. Handles \cup {count} \subseteq Handles'
    BY <1>5, <1>6 DEF Handles
  <2>3. QED
    BY <2>1, <2>2
<1>8. ASSUME NEW c
      PROVE  Owned(c)' = IF c = p THEN Owned(c) \cup {count} ELSE Owned(c)
  <2>1. Owned(c)' \subseteq IF c = p THEN Owned(c) \cup {count} ELSE Owned(c)
    BY <1>5, <1>6 DEF Owned
  <2>2. Owned(c) \subseteq Owned(c)'
    BY <1>6 DEF Owned
  <2>3. c = p => count \in Owned(c)'
    BY <1>5, <1>6 DEF Owned
  <2>4. QED
    BY <2>1, <2>2, <2>3
<1>9. Distinct'
  <2>1. \A h \in Handles : h < count
    BY DEF OwnInv, Distinct
  <2>2. \A h \in Handles' : h < count'
    <3>1. \A h \in Handles : h \in Nat
      <4>1. \A i \in DOMAIN expanses : expanses[i] \in Window
        BY <1>4
      <4>2. QED
        BY <4>1 DEF Handles, Window, Exp
    <3>2. QED
      BY <1>3, <1>4, <1>7, <2>1, <3>1
  <2>3. ASSUME NEW k \in DOMAIN expanses', NEW l \in DOMAIN expanses',
               expanses'[k].exp.handle = expanses'[l].exp.handle
        PROVE  k = l
    <3>1. \A i \in DOMAIN expanses : expanses[i].exp.handle # count
      BY <1>4, <2>1 DEF Handles
    <3>2. CASE k = 1
      BY <1>5, <1>6, <2>3, <3>1, <3>2
    <3>3. CASE l = 1
      BY <1>5, <1>6, <2>3, <3>1, <3>3
    <3>4. CASE k # 1 /\ l # 1
      <4>1. PICK i \in DOMAIN expanses, j \in DOMAIN expanses :
              i = k - 1 /\ j = l - 1 /\ expanses'[k] = expanses[i] /\ expanses'[l] = expanses[j]
        BY <1>6, <3>4
      <4>2. i = j
        BY <2>3, <4>1 DEF OwnInv, Distinct
      <4>3. QED
        BY <1>6, <4>1, <4>2
    <3>5. QED
      BY <3>2, <3>3, <3>4
  <2>4. QED
    BY <2>2, <2>3 DEF Distinct
<1>10. Pictures'
  BY <1>5, <1>6 DEF OwnInv, Pictures
<1>11. ASSUME NEW c \in Clients
       PROVE  OwnsRight(c)' /\ DrawsRight(c)'
  <2>1. OwnsRight(c) /\ Owned(c) \subseteq Owned(c)'
    BY <1>8 DEF OwnInv, Owning
  <2>2. DrawsRight(c)'
    BY <1>3 DEF DrawsRight, R!Idle
  <2>3. wire'[AskCh(c)] = wire[AskCh(c)] /\ wire'[GiftCh(c)] = wire[GiftCh(c)]
    BY <1>3, ChannelsApart, AskApart, OthersApart
  <2>4. CASE c # p
    <3>1. wire'[ReplyCh(c)] = wire[ReplyCh(c)]
      BY <1>3, <2>4, ChannelsApart, OthersApart
    <3>2. Untouched(c)
      BY <1>3, <2>3, <3>1 DEF Untouched
    <3>3. QED
      BY <2>1, <2>2, <3>2, OwnsUntouched
  <2>5. CASE c = p
    <3>1. PICK m : m = Message("handle", count) /\ m \in OwnReplies(c)'
      BY <1>8, <2>5 DEF OwnReplies
    <3>2. << m >> \in Seq(OwnReplies(c)')
      BY <3>1
    <3>3. wire[ReplyCh(c)] \in Seq(OwnReplies(c)')
      BY <2>1, OwnsStays
    <3>4. wire[ReplyCh(c)] \o << m >> \in Seq(OwnReplies(c)')
      BY <3>2, <3>3, ConcatProperties
    <3>5. QED
      BY <1>3, <2>1, <2>2, <2>3, <2>5, <3>1, <3>4, OwnsStays DEF OwnsRight
  <2>6. QED
    BY <2>4, <2>5
<1>12. Owning'
  BY <1>11 DEF Owning
<1>13. OwnInv'
  BY <1>9, <1>10, <1>12 DEF OwnInv
<1>14. QED
  BY <1>1, <1>7, <1>8, <1>13

(***************************************************************************)
(* What a program with windows does.                                       *)
(***************************************************************************)

LEMMA ClientPosts ==
  /\ \A f : S!call_func(f) = Posting(ES_COMM_PORT, Message("func", f))
  /\ \A type, val : S!send_data(type, val) = Posting(ES_COMM_PORT, Message(type, val))
BY DEF S!call_func, S!send_data, S!To, S!ES_COMM_PORT, S!Message, Posting, Message, ES_COMM_PORT

(* A step of one program leaves the others alone.                          *)
LEMMA ClientAlone ==
  ASSUME NEW c \in Clients, DOMAIN out = Programs, NEW o, out' = [out EXCEPT ![c] = o],
         \A ch \in Channels : ch # AskCh(c) /\ ch # ReplyCh(c) /\ ch # GiftCh(c) => wire'[ch] = wire[ch],
         exp_list \in [Clients -> Seq(Nat)], NEW l, exp_list' = [exp_list EXCEPT ![c] = l]
  PROVE  /\ out'[c] = o /\ exp_list'[c] = l
         /\ \A d \in Clients : d # c => Untouched(d)
<1>1. /\ out'[c] = o /\ exp_list'[c] = l
      /\ \A d \in Clients : d # c => out'[d] = out[d] /\ exp_list'[d] = exp_list[d]
  BY ChannelsApart
<1>2. ASSUME NEW d \in Clients, d # c
      PROVE  Untouched(d)
  <2>1. /\ AskCh(d) # AskCh(c) /\ AskCh(d) # ReplyCh(c) /\ AskCh(d) # GiftCh(c)
        /\ ReplyCh(d) # AskCh(c) /\ ReplyCh(d) # ReplyCh(c) /\ ReplyCh(d) # GiftCh(c)
        /\ GiftCh(d) # AskCh(c) /\ GiftCh(d) # ReplyCh(c) /\ GiftCh(d) # GiftCh(c)
    BY <1>2, ChannelsApart, AskApart, OthersApart
  <2>2. AskCh(d) \in Channels /\ ReplyCh(d) \in Channels /\ GiftCh(d) \in Channels
    BY ChannelsApart
  <2>3. QED
    BY <1>1, <1>2, <2>1, <2>2 DEF Untouched
<1>3. QED
  BY <1>1, <1>2

(* create_shiny_expanse: what a program has to send then.                  *)
LEMMA CreatesDoes ==
  ASSUME StepInv, NEW c \in Clients, S!create_shiny_expanse(c)
  PROVE  /\ UNCHANGED <<wire, exp_list>> /\ phase[c] = "create" /\ out[c] = <<>>
         /\ phase' = [phase EXCEPT ![c] = "handle"]
         /\ out'[c] = << Posting(ES_COMM_PORT, Message("func", "create")),
                         Posting(ES_COMM_PORT, Message("api", c)) >>
         /\ \A d \in Clients : d # c => Untouched(d)
<1>1. PICK o : o = << S!call_func("create"), S!send_data("api", c) >>
  OBVIOUS
<1>2. /\ out[c] = <<>> /\ out' = [out EXCEPT ![c] = o] /\ phase' = [phase EXCEPT ![c] = "handle"]
      /\ phase[c] = "create" /\ UNCHANGED <<wire, exp_list>>
  BY <1>1 DEF S!create_shiny_expanse, S!Free, S!Sends
<1>3. DOMAIN out = Programs /\ exp_list \in [Clients -> Seq(Nat)]
  BY DEF StepInv, Typed
<1>4. exp_list' = [exp_list EXCEPT ![c] = exp_list[c]]
  BY <1>2, <1>3
<1>5. out'[c] = o /\ \A d \in Clients : d # c => Untouched(d)
  BY <1>2, <1>3, <1>4, ClientAlone
<1>6. QED
  BY <1>1, <1>2, <1>5, ClientPosts

(* recieve_handle: the handle becomes a part of the program's list, and    *)
(* with the last the program draws.                                        *)
LEMMA HandledDoes ==
  ASSUME StepInv, NEW c \in Clients, S!recieve_handle(c)
  PROVE  /\ phase[c] = "handle" /\ out[c] = <<>> /\ wire[ReplyCh(c)] # <<>>
         /\ exp_list'[c] = Append(exp_list[c], Head(wire[ReplyCh(c)]).val)
         /\ phase' = [phase EXCEPT ![c] = IF Len(exp_list'[c]) = Windows THEN "main" ELSE "create"]
         /\ out'[c] = IF Len(exp_list'[c]) = Windows
                      THEN FlattenSeq([i \in DOMAIN exp_list'[c] |-> S!draw_buffer(c, exp_list'[c][i])])
                      ELSE <<>>
         /\ wire'[ReplyCh(c)] = Tail(wire[ReplyCh(c)])
         /\ wire'[AskCh(c)] = wire[AskCh(c)] /\ wire'[GiftCh(c)] = wire[GiftCh(c)]
         /\ wire'[OrderCh] = wire[OrderCh]
         /\ exp_list' \in [Clients -> Seq(Nat)]
         /\ \A d \in Clients : d # c => Untouched(d)
<1>1. PICK s, list : s = wire[ReplyCh(c)] /\ list = Append(exp_list[c], Head(s).val)
  OBVIOUS
<1>2. PICK o : o = IF Len(list) = Windows
                   THEN S!FlattenSeq([i \in DOMAIN list |-> S!draw_buffer(c, list[i])]) ELSE <<>>
  OBVIOUS
<1>3. /\ out[c] = <<>> /\ s # <<>> /\ phase[c] = "handle"
      /\ exp_list' = [exp_list EXCEPT ![c] = list]
      /\ phase' = [phase EXCEPT ![c] = IF Len(list) = Windows THEN "main" ELSE "create"]
      /\ S!Receives(c, Rusk, ES_COMM_PORT, 1, o)
  BY <1>1, <1>2, ClientMessages DEF S!recieve_handle, S!Free
<1>4. /\ DOMAIN wire = Channels /\ DOMAIN out = Programs /\ exp_list \in [Clients -> Seq(Nat)]
      /\ Path(HandleSteps, "handle", s, "handle")
  BY <1>1 DEF StepInv, Typed, Answering, Replying
<1>5. PICK u \in States : <<"handle", Head(s), u>> \in HandleSteps
  BY <1>3, <1>4, PathHead
<1>6. list \in Seq(Nat)
  <2>1. Head(s).val \in Nat /\ exp_list[c] \in Seq(Nat)
    BY <1>4, <1>5, HandleStep
  <2>2. QED
    BY <1>1, <2>1
<1>7. /\ wire' = [wire EXCEPT ![ReplyCh(c)] = SubSeq(@, 1 + 1, Len(@))]
      /\ out' = [out EXCEPT ![c] = o]
  BY <1>3, ClientReceives DEF ReplyCh
<1>8. /\ wire'[ReplyCh(c)] = Tail(s)
      /\ \A other \in Channels : other # ReplyCh(c) => wire'[other] = wire[other]
  BY <1>1, <1>3, <1>4, <1>7, ChannelsApart, Takes
<1>9. /\ wire'[AskCh(c)] = wire[AskCh(c)] /\ wire'[GiftCh(c)] = wire[GiftCh(c)]
      /\ wire'[OrderCh] = wire[OrderCh]
  BY <1>8, ChannelsApart, AskApart, OthersApart
<1>10. /\ out'[c] = o /\ exp_list'[c] = list
       /\ \A d \in Clients : d # c => Untouched(d)
  BY <1>3, <1>4, <1>7, <1>8, ClientAlone
<1>11. S!FlattenSeq([i \in DOMAIN list |-> S!draw_buffer(c, list[i])])
         = FlattenSeq([i \in DOMAIN list |-> S!draw_buffer(c, list[i])])
  BY DEF S!FlattenSeq, FlattenSeq
<1>12. exp_list' \in [Clients -> Seq(Nat)]
  BY <1>3, <1>4, <1>6
<1>13. QED
  BY <1>1, <1>2, <1>3, <1>8, <1>9, <1>10, <1>11, <1>12

(* shiny_main_loop: the handle and the events are taken, and the program   *)
(* may draw or destroy.                                                    *)
LEMMA LoopDoes ==
  ASSUME StepInv, NEW c \in Clients, S!shiny_main_loop(c)
  PROVE  /\ phase[c] = "main" /\ out[c] = <<>> /\ UNCHANGED phase
         /\ Len(wire[GiftCh(c)]) >= 2
         /\ wire'[GiftCh(c)] = SubSeq(wire[GiftCh(c)], 3, Len(wire[GiftCh(c)]))
         /\ wire'[AskCh(c)] = wire[AskCh(c)] /\ wire'[ReplyCh(c)] = wire[ReplyCh(c)]
         /\ wire'[OrderCh] = wire[OrderCh]
         /\ LET h == wire[GiftCh(c)][1].val IN
            \/ exp_list'[c] = exp_list[c] /\ out'[c] = <<>>
            \/ exp_list'[c] = exp_list[c] /\ out'[c] = S!draw_buffer(c, h)
            \/ /\ "destroy" \in Reactions /\ exp_list'[c] = S!Without(exp_list[c], h)
               /\ out'[c] = << S!call_func("remove"), S!send_data("handle", h) >>
         /\ \A d \in Clients : d # c => Untouched(d)
<1>1. PICK s, h : s = wire[GiftCh(c)] /\ h = s[1].val
  OBVIOUS
<1>2. PICK reaction \in {"none"} \cup Reactions :
        /\ S!Receives(c, Rusk, EVENT_COMM_PORT, 2,
             CASE reaction = "draw" -> S!draw_buffer(c, h)
               [] reaction = "destroy" -> << S!call_func("remove"), S!send_data("handle", h) >>
               [] OTHER -> <<>>)
        /\ exp_list' = [exp_list EXCEPT ![c] = IF reaction = "destroy" THEN S!Without(@, h) ELSE @]
  BY <1>1, ClientMessages DEF S!shiny_main_loop
<1>3. out[c] = <<>> /\ Len(s) >= 2 /\ phase[c] = "main" /\ UNCHANGED phase
  BY <1>1, ClientMessages DEF S!shiny_main_loop, S!Free
<1>4. DOMAIN wire = Channels /\ DOMAIN out = Programs /\ exp_list \in [Clients -> Seq(Nat)]
  BY DEF StepInv, Typed
<1>5. PICK o : o = CASE reaction = "draw" -> S!draw_buffer(c, h)
                     [] reaction = "destroy" -> << S!call_func("remove"), S!send_data("handle", h) >>
                     [] OTHER -> <<>>
  OBVIOUS
<1>6. PICK l : l = IF reaction = "destroy" THEN S!Without(exp_list[c], h) ELSE exp_list[c]
  OBVIOUS
<1>7. exp_list' = [exp_list EXCEPT ![c] = l]
  BY <1>2, <1>4, <1>6
<1>8. /\ wire' = [wire EXCEPT ![GiftCh(c)] = SubSeq(@, 2 + 1, Len(@))]
      /\ out' = [out EXCEPT ![c] = o]
  <2>1. S!Receives(c, Rusk, EVENT_COMM_PORT, 2, o)
    BY <1>2, <1>5, Zenon
  <2>2. QED
    BY <2>1, ClientReceives DEF GiftCh
<1>9. /\ wire'[GiftCh(c)] = SubSeq(s, 3, Len(s))
      /\ \A other \in Channels : other # GiftCh(c) => wire'[other] = wire[other]
  BY <1>1, <1>4, <1>8, ChannelsApart
<1>10. /\ wire'[AskCh(c)] = wire[AskCh(c)] /\ wire'[ReplyCh(c)] = wire[ReplyCh(c)]
       /\ wire'[OrderCh] = wire[OrderCh]
  BY <1>9, ChannelsApart, AskApart, OthersApart
<1>11. /\ out'[c] = o /\ exp_list'[c] = l
       /\ \A d \in Clients : d # c => Untouched(d)
  BY <1>4, <1>7, <1>8, <1>9, ClientAlone
<1>12. \/ l = exp_list[c] /\ o = <<>>
       \/ l = exp_list[c] /\ o = S!draw_buffer(c, h)
       \/ /\ "destroy" \in Reactions /\ l = S!Without(exp_list[c], h)
          /\ o = << S!call_func("remove"), S!send_data("handle", h) >>
  <2>1. CASE reaction = "draw"
    BY <1>5, <1>6, <2>1
  <2>2. CASE reaction = "destroy"
    BY <1>5, <1>6, <2>2
  <2>3. CASE reaction # "draw" /\ reaction # "destroy"
    BY <1>5, <1>6, <2>3
  <2>4. QED
    BY <2>1, <2>2, <2>3
<1>13. QED
  BY <1>1, <1>3, <1>9, <1>10, <1>11, <1>12

(* A system call of a program: the next message enters its channel.        *)
LEMMA ClientSends ==
  ASSUME StepInv, OwnInv, NEW c \in Clients, S!send(c), UNCHANGED S!shinyVars
  PROVE  /\ UNCHANGED <<phase, exp_list>> /\ out[c] # <<>>
         /\ out'[c] = Tail(out[c])
         /\ wire'[AskCh(c)] = Append(wire[AskCh(c)], Head(out[c]).msg)
         /\ wire'[ReplyCh(c)] = wire[ReplyCh(c)] /\ wire'[GiftCh(c)] = wire[GiftCh(c)]
         /\ wire'[OrderCh] = wire[OrderCh]
         /\ Head(out[c]) = Posting(ES_COMM_PORT, Head(out[c]).msg)
         /\ Head(out[c]).msg \in OwnAsks(c)
         /\ \A d \in Clients : d # c => Untouched(d)
<1>1. PICK x : x = Head(out[c])
  OBVIOUS
<1>2. /\ out[c] # <<>> /\ UNCHANGED <<phase, exp_list>>
      /\ wire' = [wire EXCEPT ![<<c, x.to, x.port>>] = Append(@, x.msg)]
      /\ out' = [out EXCEPT ![c] = Tail(out[c])]
  BY <1>1 DEF S!send, S!shinyVars
<1>3. out[c] \in Seq(OwnPosts(c))
  BY DEF OwnInv, Owning, OwnsRight
<1>4. x \in OwnPosts(c)
  <2>1. PICK s \in Seq(OwnPosts(c)) : s = out[c]
    BY <1>3
  <2>2. s # <<>> /\ x = Head(s)
    BY <1>1, <1>2, <2>1
  <2>3. QED
    BY <2>2
<1>5. PICK m \in OwnAsks(c) : x = Posting(ES_COMM_PORT, m)
  BY <1>4 DEF OwnPosts
<1>6. x.to = Rusk /\ x.port = ES_COMM_PORT /\ x.msg = m
  BY <1>5 DEF Posting
<1>7. wire' = [wire EXCEPT ![AskCh(c)] = Append(@, m)]
  BY <1>2, <1>6 DEF AskCh
<1>8. DOMAIN wire = Channels /\ DOMAIN out = Programs /\ exp_list \in [Clients -> Seq(Nat)]
  BY DEF StepInv, Typed
<1>9. /\ wire'[AskCh(c)] = Append(wire[AskCh(c)], m)
      /\ \A other \in Channels : other # AskCh(c) => wire'[other] = wire[other]
  BY <1>7, <1>8, Appends, ChannelsApart
<1>10. /\ wire'[ReplyCh(c)] = wire[ReplyCh(c)] /\ wire'[GiftCh(c)] = wire[GiftCh(c)]
       /\ wire'[OrderCh] = wire[OrderCh]
  BY <1>9, ChannelsApart, AskApart
<1>11. exp_list' = [exp_list EXCEPT ![c] = exp_list[c]]
  BY <1>2, <1>8
<1>12. out'[c] = Tail(out[c]) /\ \A d \in Clients : d # c => Untouched(d)
  <2>1. PICK o, l : o = Tail(out[c]) /\ l = exp_list[c]
    OBVIOUS
  <2>2. out' = [out EXCEPT ![c] = o] /\ exp_list' = [exp_list EXCEPT ![c] = l]
    BY <1>2, <1>11, <2>1
  <2>3. \A ch \in Channels : ch # AskCh(c) /\ ch # ReplyCh(c) /\ ch # GiftCh(c) => wire'[ch] = wire[ch]
    BY <1>9
  <2>4. out'[c] = o /\ \A d \in Clients : d # c => Untouched(d)
    BY <1>8, <2>2, <2>3, ClientAlone
  <2>5. QED
    BY <2>1, <2>4
<1>13. QED
  BY <1>1, <1>2, <1>5, <1>6, <1>9, <1>10, <1>12

(***************************************************************************)
(* A program says nothing of the expanses of others.                       *)
(***************************************************************************)

LEMMA OwnClient ==
  ASSUME OwnInv, UNCHANGED <<expanses, count, req>>, NEW c \in Clients,
         \A d \in Clients : d # c => Untouched(d), OwnsRight(c)'
  PROVE  OwnInv' /\ Reordered
<1>1. \A d \in Clients : DrawsRight(d)'
  BY OwnedSame DEF OwnInv, Owning, DrawsRight
<1>2. OwnInv'
  BY <1>1, OwnOthers
<1>3. QED
  BY <1>2, OwnedSame

(* To draw in one's own expanse, or to have it removed, names one's own    *)
(* expanse.                                                                *)
LEMMA DrawIsOwn ==
  ASSUME NEW c, NEW h \in Owned(c), h \in Nat
  PROVE  /\ S!draw_buffer(c, h) \in Seq(OwnPosts(c))
         /\ << S!call_func("remove"), S!send_data("handle", h) >> \in Seq(OwnPosts(c))
<1>1. /\ Message("func", "draw") \in OwnAsks(c) /\ Message("func", "remove") \in OwnAsks(c)
      /\ Message("place", h) \in OwnAsks(c) /\ Message("buffer", c) \in OwnAsks(c)
      /\ Message("handle", h) \in OwnAsks(c)
  BY DEF OwnAsks, ClientFuncs
<1>2. PICK d, p, b, r, k :
        /\ d = S!call_func("draw") /\ p = S!send_data("place", h) /\ b = S!send_data("buffer", c)
        /\ r = S!call_func("remove") /\ k = S!send_data("handle", h)
  OBVIOUS
<1>3. {d, p, b, r, k} \subseteq OwnPosts(c)
  BY <1>1, <1>2, ClientPosts DEF OwnPosts
<1>4. << d, p, b >> \in Seq(OwnPosts(c)) /\ << r, k >> \in Seq(OwnPosts(c))
  BY <1>3
<1>5. S!draw_buffer(c, h) = << d, p, b >>
  BY <1>2 DEF S!draw_buffer
<1>6. QED
  BY <1>2, <1>4, <1>5

(* The pictures of all its expanses.                                       *)
LEMMA DrawnAre ==
  ASSUME NEW c, NEW list \in Seq(Nat), NEW P,
         \A i \in DOMAIN list : S!draw_buffer(c, list[i]) \in Seq(P)
  PROVE  FlattenSeq([i \in DOMAIN list |-> S!draw_buffer(c, list[i])]) \in Seq(P)
<1>1. PICK n \in Nat : DOMAIN list = 1 .. n /\ Len(list) = n
  OBVIOUS
<1>2. PICK T : T = {<<"handle", x, "handle">> : x \in P}
  OBVIOUS
<1>3. Labels(T) = P
  <2>1. \A x \in P : x \in Labels(T)
    <3>1. ASSUME NEW x \in P PROVE <<"handle", x, "handle">> \in T
      BY <1>2
    <3>2. QED
      BY <3>1, Labelled
  <2>2. ASSUME NEW t \in T
        PROVE  t[2] \in P
    <3>1. PICK x \in P : t = <<"handle", x, "handle">>
      BY <1>2
    <3>2. t[2] = x
      BY <3>1
    <3>3. QED
      BY <3>2
  <2>3. QED
    BY <2>1, <2>2 DEF Labels
<1>4. ASSUME NEW i \in 1 .. n
      PROVE  /\ S!draw_buffer(c, list[i]) \in Seq(P)
             /\ Path(T, "handle", S!draw_buffer(c, list[i]), "handle")
  <2>2. S!draw_buffer(c, list[i]) \in Seq(P)
    BY <1>1
  <2>3. PICK s \in Seq(P) : s = S!draw_buffer(c, list[i])
    BY <2>2
  <2> DEFINE st == [j \in 0 .. Len(s) |-> "handle"]
  <2>4. st \in [0 .. Len(s) -> States]
    BY NamesOfStates
  <2>5. st[0] = "handle" /\ st[Len(s)] = "handle"
    <3>1. Len(s) \in Nat
      OBVIOUS
    <3>2. 0 \in 0 .. Len(s) /\ Len(s) \in 0 .. Len(s)
      BY <3>1
    <3>3. QED
      BY <3>2
  <2>6. ASSUME NEW j \in 1 .. Len(s)
        PROVE  <<st[j - 1], s[j], st[j]>> \in T
    <3>1. PICK m \in Nat : m = Len(s)
      OBVIOUS
    <3>2. s[j] \in P
      OBVIOUS
    <3>3. j - 1 \in 0 .. m /\ j \in 0 .. m
      BY <3>1
    <3>4. st[j - 1] = "handle" /\ st[j] = "handle"
      BY <3>1, <3>3
    <3>5. QED
      BY <1>2, <3>2, <3>4
  <2> HIDE DEF st
  <2>7. Follows(T, "handle", s, "handle", st)
    BY <2>5, <2>6 DEF Follows
  <2>8. s \in Seq(Labels(T))
    BY <1>3
  <2>9. Path(T, "handle", s, "handle")
    BY <2>4, <2>7, <2>8 DEF Path
  <2>10. QED
    BY <2>2, <2>3, <2>9
<1>5. PICK ss \in Seq(Seq(Labels(T))) : ss = [i \in DOMAIN list |-> S!draw_buffer(c, list[i])]
  <2>1. [i \in 1 .. n |-> S!draw_buffer(c, list[i])] \in [1 .. n -> Seq(Labels(T))]
    BY <1>3, <1>4
  <2>2. [i \in 1 .. n |-> S!draw_buffer(c, list[i])] \in Seq(Seq(Labels(T)))
    BY <2>1
  <2>3. QED
    BY <1>1, <2>2
<1>6. Len(ss) = n /\ \A i \in 1 .. n : ss[i] = S!draw_buffer(c, list[i])
  BY <1>1, <1>5
<1>7. \A i \in 1 .. Len(ss) : Path(T, "handle", ss[i], "handle")
  BY <1>4, <1>6
<1>8. Path(T, "handle", FlattenSeq(ss), "handle")
  BY <1>7, PathJoin, NamesOfStates
<1>9. FlattenSeq(ss) \in Seq(P)
  BY <1>3, <1>8, PathEnds
<1>10. QED
  BY <1>5, <1>9

(* And so does drawing in all of them.                                     *)
LEMMA DrawnAreOwn ==
  ASSUME NEW c, NEW list \in Seq(Owned(c)), list \in Seq(Nat)
  PROVE  FlattenSeq([i \in DOMAIN list |-> S!draw_buffer(c, list[i])]) \in Seq(OwnPosts(c))
<1>1. ASSUME NEW i \in DOMAIN list
      PROVE  S!draw_buffer(c, list[i]) \in Seq(OwnPosts(c))
  <2>1. list[i] \in Owned(c) /\ list[i] \in Nat
    OBVIOUS
  <2>2. QED
    BY <2>1, DrawIsOwn
<1>2. QED
  BY <1>1, DrawnAre

(* To ask for an expanse names none.                                       *)
LEMMA OwnCreates ==
  ASSUME StepInv, OwnInv, NEW c \in Clients, S!create_shiny_expanse(c),
         UNCHANGED <<ruskVars, bearingVars>>
  PROVE  OwnInv' /\ Reordered
<1>1. UNCHANGED <<expanses, count, req>>
  BY DEF ruskVars
<1>2. PICK a, b : /\ a = Posting(ES_COMM_PORT, Message("func", "create"))
                  /\ b = Posting(ES_COMM_PORT, Message("api", c))
  OBVIOUS
<1>3. a \in OwnPosts(c) /\ b \in OwnPosts(c)
  BY <1>2 DEF OwnPosts, OwnAsks, ClientFuncs
<1>4. << a, b >> \in Seq(OwnPosts(c))
  BY <1>3
<1>5. out'[c] \in Seq(OwnPosts(c)) /\ UNCHANGED <<wire, exp_list>>
  BY <1>2, <1>4, CreatesDoes
<1>6. OwnsRight(c)
  BY DEF OwnInv, Owning
<1>7. OwnsRight(c)'
  BY <1>1, <1>5, <1>6, OwnedSame DEF OwnsRight
<1>8. QED
  BY <1>1, <1>7, CreatesDoes, OwnClient

(* The handle that is received is the program's own.                       *)
LEMMA OwnHandled ==
  ASSUME StepInv, OwnInv, NEW c \in Clients, S!recieve_handle(c),
         UNCHANGED <<ruskVars, bearingVars>>
  PROVE  OwnInv' /\ Reordered
<1>1. UNCHANGED <<expanses, count, req>>
  BY DEF ruskVars
<1>2. OwnsRight(c)
  BY DEF OwnInv, Owning
<1>3. PICK s \in Seq(OwnReplies(c)) : s = wire[ReplyCh(c)] /\ s # <<>>
  BY <1>2, HandledDoes DEF OwnsRight
<1>4. Head(s) \in OwnReplies(c) /\ Tail(s) \in Seq(OwnReplies(c))
  BY <1>3
<1>5. Head(s).val \in Owned(c)
  BY <1>4 DEF OwnReplies, Message
<1>6. PICK list \in Seq(Owned(c)) : list = exp_list'[c]
  <2>1. exp_list[c] \in Seq(Owned(c))
    BY <1>2 DEF OwnsRight
  <2>2. exp_list'[c] = Append(exp_list[c], Head(s).val)
    BY <1>3, HandledDoes
  <2>3. Append(exp_list[c], Head(s).val) \in Seq(Owned(c))
    BY <1>5, <2>1
  <2>4. QED
    BY <2>2, <2>3
<1>7. list \in Seq(Nat)
  BY <1>6, HandledDoes
<1>8. out'[c] \in Seq(OwnPosts(c))
  <2>1. exp_list'[c] \in Seq(Owned(c)) /\ exp_list'[c] \in Seq(Nat)
    BY <1>6, <1>7
  <2>2. FlattenSeq([i \in DOMAIN exp_list'[c] |-> S!draw_buffer(c, exp_list'[c][i])])
          \in Seq(OwnPosts(c))
    BY <2>1, DrawnAreOwn
  <2>3. <<>> \in Seq(OwnPosts(c))
    OBVIOUS
  <2>4. \/ out'[c] = FlattenSeq([i \in DOMAIN exp_list'[c] |-> S!draw_buffer(c, exp_list'[c][i])])
        \/ out'[c] = <<>>
    BY HandledDoes
  <2>5. QED
    BY <2>2, <2>3, <2>4
<1>9. /\ wire'[ReplyCh(c)] = Tail(s)
      /\ wire'[AskCh(c)] = wire[AskCh(c)] /\ wire'[GiftCh(c)] = wire[GiftCh(c)]
      /\ \A d \in Clients : d # c => Untouched(d)
  BY <1>3, HandledDoes
<1>10. OwnsRight(c)'
  BY <1>1, <1>2, <1>4, <1>6, <1>8, <1>9, OwnedSame DEF OwnsRight
<1>11. QED
  BY <1>1, <1>9, <1>10, OwnClient

(* The handle that comes with events is the program's own.                 *)
LEMMA GiftIsOwn ==
  ASSUME StepInv, OwnInv, NEW c \in Clients, Len(wire[GiftCh(c)]) >= 2
  PROVE  wire[GiftCh(c)][1].val \in Owned(c) /\ wire[GiftCh(c)][1].val \in Nat
<1>1. PICK s \in Seq(OwnGifts(c)) : s = wire[GiftCh(c)]
  BY DEF OwnInv, Owning, OwnsRight
<1>2. PICK n \in Nat : n = Len(s) /\ n >= 2
  BY <1>1
<1>3. PICK h : h = s[1].val
  OBVIOUS
<1>4. h \in Owned(c) /\ h \in Nat
  <2>1. Path(GivenSteps, "handle", s, "handle")
    BY <1>1 DEF StepInv, Answering, Giving
  <2>2. s # <<>> /\ s[1] = Head(s) /\ h \in Nat
    BY <1>2, <1>3, <2>1, TakenTwo, Given
  <2>3. PICK u \in States : <<"handle", Head(s), u>> \in GivenSteps
    BY <2>1, <2>2, PathHead
  <2>4. s[1].type = "handle"
    BY <2>2, <2>3, GivenStep
  <2>5. s[1] \in OwnGifts(c)
    BY <1>2
  <2>6. s[1] \in OwnReplies(c)
    BY <2>4, <2>5 DEF OwnGifts, Message
  <2>7. PICK x \in Owned(c) : s[1] = Message("handle", x)
    BY <2>6 DEF OwnReplies
  <2>8. h = x
    BY <1>3, <2>7 DEF Message
  <2>9. QED
    BY <2>2, <2>7, <2>8
<1>5. QED
  BY <1>1, <1>3, <1>4

(* The main loop answers for the program's own expanse.                    *)
LEMMA OwnLoop ==
  ASSUME StepInv, OwnInv, NEW c \in Clients, S!shiny_main_loop(c),
         UNCHANGED <<ruskVars, bearingVars>>
  PROVE  OwnInv' /\ Reordered
<1>1. UNCHANGED <<expanses, count, req>>
  BY DEF ruskVars
<1>2. OwnsRight(c)
  BY DEF OwnInv, Owning
<1>3. PICK s \in Seq(OwnGifts(c)) : s = wire[GiftCh(c)]
  BY <1>2 DEF OwnsRight
<1>4. PICK n \in Nat : n = Len(s) /\ n >= 2
  BY <1>3, LoopDoes
<1>5. SubSeq(s, 3, n) \in Seq(OwnGifts(c))
  BY <1>4, SubSeqProperties
<1>6. PICK h : h = s[1].val
  OBVIOUS
<1>7. h \in Owned(c) /\ h \in Nat
  BY <1>3, <1>4, <1>6, GiftIsOwn
<1>8. exp_list[c] \in Seq(Owned(c)) /\ S!Without(exp_list[c], h) \in Seq(Owned(c))
  BY <1>2, WithoutRight DEF OwnsRight
<1>9. /\ S!draw_buffer(c, h) \in Seq(OwnPosts(c)) /\ <<>> \in Seq(OwnPosts(c))
      /\ << S!call_func("remove"), S!send_data("handle", h) >> \in Seq(OwnPosts(c))
  BY <1>7, DrawIsOwn
<1>10. /\ wire'[GiftCh(c)] = SubSeq(s, 3, n)
       /\ wire'[AskCh(c)] = wire[AskCh(c)] /\ wire'[ReplyCh(c)] = wire[ReplyCh(c)]
       /\ \A d \in Clients : d # c => Untouched(d)
  BY <1>3, <1>4, LoopDoes
<1>11. \/ exp_list'[c] = exp_list[c] /\ out'[c] = <<>>
       \/ exp_list'[c] = exp_list[c] /\ out'[c] = S!draw_buffer(c, h)
       \/ /\ exp_list'[c] = S!Without(exp_list[c], h)
          /\ out'[c] = << S!call_func("remove"), S!send_data("handle", h) >>
  BY <1>3, <1>6, LoopDoes
<1>12. exp_list'[c] \in Seq(Owned(c)) /\ out'[c] \in Seq(OwnPosts(c))
  BY <1>8, <1>9, <1>11
<1>13. OwnsRight(c)'
  BY <1>1, <1>2, <1>5, <1>10, <1>12, OwnedSame DEF OwnsRight
<1>14. QED
  BY <1>1, <1>10, <1>13, OwnClient

(* What a program sends was in what he had to send.                        *)
LEMMA OwnSays ==
  ASSUME StepInv, OwnInv, NEW c \in Clients, S!send(c), UNCHANGED S!shinyVars,
         UNCHANGED <<ruskVars, bearingVars>>
  PROVE  OwnInv' /\ Reordered
<1>1. UNCHANGED <<expanses, count, req>>
  BY DEF ruskVars
<1>2. OwnsRight(c)
  BY DEF OwnInv, Owning
<1>3. PICK s \in Seq(OwnPosts(c)) : s = out[c] /\ s # <<>>
  BY <1>2, ClientSends DEF OwnsRight
<1>4. Tail(s) \in Seq(OwnPosts(c))
  BY <1>3
<1>5. PICK m \in OwnAsks(c) : wire'[AskCh(c)] = Append(wire[AskCh(c)], m)
  BY ClientSends
<1>6. wire'[AskCh(c)] \in Seq(OwnAsks(c))
  BY <1>2, <1>5 DEF OwnsRight
<1>7. /\ out'[c] = Tail(s) /\ UNCHANGED exp_list
      /\ wire'[ReplyCh(c)] = wire[ReplyCh(c)] /\ wire'[GiftCh(c)] = wire[GiftCh(c)]
      /\ \A d \in Clients : d # c => Untouched(d)
  BY <1>3, ClientSends
<1>8. OwnsRight(c)'
  BY <1>1, <1>2, <1>4, <1>6, <1>7, OwnedSame DEF OwnsRight
<1>9. QED
  BY <1>1, <1>7, <1>8, OwnClient

(* Every step of rusk keeps who owns what, and only create_expanse adds to *)
(* it.                                                                     *)
LEMMA OwnRusk ==
  ASSUME StepInv, OwnInv, R!Work, UNCHANGED <<bearingVars, shinyVars>>
  PROVE  OwnInv' /\ (R!create_expanse \/ Reordered)
<1>1. ASSUME NEW id \in Programs, R!serve(id)
      PROVE  OwnInv' /\ Reordered
  BY <1>1, OwnServe
<1>2. CASE R!reg_esys
  BY <1>2, OwnRegister
<1>3. CASE R!receive_data
  BY <1>3, OwnReceive
<1>4. CASE R!create_expanse
  BY <1>4, OwnCreate
<1>5. CASE R!remove_expanse
  BY <1>5, OwnRemove
<1>6. CASE R!update_partial
  BY <1>6, OwnDraw
<1>7. CASE R!update_expanse
  BY <1>7, OwnUpdate
<1>8. CASE R!set_decoration_buffers
  BY <1>8, OwnDecorate
<1>9. CASE R!register_em
  BY <1>9, OwnRegister
<1>10. CASE R!bring_expanse_to_front
  BY <1>10, OwnFront
<1>11. CASE R!send_events
  BY <1>11, OwnSend
<1>12. QED
  BY <1>1, <1>2, <1>3, <1>4, <1>5, <1>6, <1>7, <1>8, <1>9, <1>10, <1>11 DEF R!Work, R!Programs, Programs

(* The manager speaks to no program.                                       *)
LEMMA OwnBearing ==
  ASSUME StepInv, OwnInv, B!Work, UNCHANGED <<ruskVars, shinyVars>>
  PROVE  OwnInv' /\ Reordered
<1>1. UNCHANGED <<expanses, count, req>> /\ \A c \in Clients : Untouched(c)
  BY BearingDoes DEF Untouched, ruskVars
<1>2. ASSUME NEW c \in Clients
      PROVE  OwnsRight(c)' /\ DrawsRight(c)'
  <2>1. OwnsRight(c) /\ DrawsRight(c) /\ Owned(c)' = Owned(c)
    BY <1>1, OwnedSame DEF OwnInv, Owning
  <2>2. OwnsRight(c)'
    BY <1>1, <2>1, OwnsUntouched
  <2>3. DrawsRight(c)'
    BY <1>1, <2>1 DEF DrawsRight
  <2>4. QED
    BY <2>2, <2>3
<1>3. QED
  BY <1>1, <1>2, OwnedSame DEF OwnInv, Owning

(* Every step of a program keeps who owns what.                            *)
LEMMA OwnShiny ==
  ASSUME StepInv, OwnInv, NEW c \in Clients, S!Work(c), UNCHANGED <<ruskVars, bearingVars>>
  PROVE  OwnInv' /\ Reordered
<1>1. CASE S!create_shiny_expanse(c)
  BY <1>1, OwnCreates
<1>2. CASE S!recieve_handle(c)
  BY <1>2, OwnHandled
<1>3. CASE S!shiny_main_loop(c)
  BY <1>3, OwnLoop
<1>4. ASSUME S!send(c), UNCHANGED S!shinyVars
      PROVE  OwnInv' /\ Reordered
  BY <1>4, OwnSays
<1>5. QED
  BY <1>1, <1>2, <1>3, <1>4 DEF S!Work

(* Every step but a creation leaves the same expanses in the list.         *)
LEMMA OwnStep ==
  ASSUME StepInv, OwnInv, [Orderly]_vars
  PROVE  OwnInv' /\ (R!create_expanse \/ Reordered)
<1>1. CASE RuskWorks
  BY <1>1, OwnRusk DEF RuskWorks
<1>2. CASE RuskReads
  BY <1>2, OwnRegister DEF RuskReads
<1>3. CASE BearingWorks
  BY <1>3, OwnBearing DEF BearingWorks
<1>4. ASSUME NEW c \in Clients, ShinyWorks(c)
      PROVE  OwnInv' /\ Reordered
  BY <1>4, OwnShiny DEF ShinyWorks
<1>5. CASE UNCHANGED vars
  <2>1. UNCHANGED <<wire, out, expanses, count, req, exp_list>>
    BY <1>5 DEF vars, wireVars, ruskVars, shinyVars
  <2>2. \A c \in Clients : Untouched(c)
    BY <2>1 DEF Untouched
  <2>3. ASSUME NEW c \in Clients
        PROVE  OwnsRight(c)' /\ DrawsRight(c)'
    <3>1. OwnsRight(c) /\ DrawsRight(c) /\ Owned(c)' = Owned(c)
      BY <2>1, OwnedSame DEF OwnInv, Owning
    <3>2. QED
      BY <2>1, <2>2, <3>1, OwnsUntouched DEF DrawsRight
  <2>4. QED
    BY <2>1, <2>3, OwnedSame DEF OwnInv, Owning
<1>6. QED
  BY <1>1, <1>2, <1>3, <1>4, <1>5 DEF Orderly

(* In the beginning nobody owns anything.                                  *)
LEMMA OwnStarts == Init => OwnInv
<1> SUFFICES ASSUME Init PROVE OwnInv
  OBVIOUS
<1>1. /\ wire = [ch \in Channels |-> <<>>] /\ out = [p \in Programs |-> <<>>]
      /\ expanses = <<>> /\ req = R!Idle /\ exp_list = [c \in Clients |-> <<>>]
  BY DEF Init, InitWire, R!InitRusk, S!InitShiny
<1>2. DOMAIN expanses = {}
  BY <1>1
<1>3. Distinct /\ Pictures
  BY <1>2 DEF Distinct, Handles, Pictures
<1>4. ASSUME NEW c \in Clients
      PROVE  OwnsRight(c) /\ DrawsRight(c)
  <2>1. /\ wire[AskCh(c)] = <<>> /\ wire[ReplyCh(c)] = <<>> /\ wire[GiftCh(c)] = <<>>
        /\ out[c] = <<>> /\ exp_list[c] = <<>>
    BY <1>1, ChannelsApart
  <2>2. <<>> \in Seq(OwnAsks(c)) /\ <<>> \in Seq(OwnPosts(c)) /\ <<>> \in Seq(OwnReplies(c))
        /\ <<>> \in Seq(OwnGifts(c)) /\ <<>> \in Seq(Owned(c))
    OBVIOUS
  <2>3. QED
    BY <1>1, <2>1, <2>2 DEF OwnsRight, DrawsRight, R!Idle
<1>5. QED
  BY <1>3, <1>4 DEF OwnInv, Owning

(* However the requests of the programs are mixed, until rusk first misses *)
(* an argument an expanse shows nothing but what its own program has drawn *)
(* (update_partial of rusk_comm.c looks the expanse up by a handle the     *)
(* program sends; the handle is one it was given).  For any programs, any  *)
(* windows, any number of events.                                          *)
THEOREM OwnPicturesShown == Spec => []OwnPictures
<1>1. Init => astray \/ (StepInv /\ OwnInv)
  BY StepStarts, OwnStarts
<1>2. (astray \/ (StepInv /\ OwnInv)) /\ [Next]_vars => astray' \/ (StepInv' /\ OwnInv')
  BY AstrayStays, OrderlyUntil, StepKept, OwnStep
<1>3. astray \/ (StepInv /\ OwnInv) => OwnPictures
  BY DEF OwnInv, Pictures, OwnPictures
<1>4. QED
  BY <1>1, <1>2, <1>3, PTL DEF Spec

(***************************************************************************)
(* How far a program is with its expanses.                                 *)
(***************************************************************************)

CreateMsg     == Message("func", "create")
ApiMsg(c)     == Message("api", c)
CreatePost    == Posting(ES_COMM_PORT, CreateMsg)
ApiPost(c)    == Posting(ES_COMM_PORT, ApiMsg(c))
Creating(c, want, got) == [func |-> "create", id |-> c, want |-> want, got |-> got]

(* The one request it waits for is to be sent, is being sent, is being     *)
(* received, is about to be performed, or has been answered.               *)
Asked(c) ==
  \/ out[c] = << CreatePost, ApiPost(c) >> /\ wire[AskCh(c)] = <<>>
  \/ out[c] = << ApiPost(c) >> /\ wire[AskCh(c)] = << CreateMsg >>
  \/ out[c] = <<>> /\ wire[AskCh(c)] = << CreateMsg, ApiMsg(c) >>
Heard(c) ==
  \/ /\ req = Creating(c, <<"api">>, <<>>)
     /\ \/ out[c] = << ApiPost(c) >> /\ wire[AskCh(c)] = <<>>
        \/ out[c] = <<>> /\ wire[AskCh(c)] = << ApiMsg(c) >>
  \/ req = Creating(c, <<>>, <<c>>) /\ out[c] = <<>> /\ wire[AskCh(c)] = <<>>
Quiet(c) == out[c] = <<>> /\ wire[AskCh(c)] = <<>>

InHand(c) ==
  \/ wire[ReplyCh(c)] = <<>> /\ req.id # c /\ Asked(c)
  \/ wire[ReplyCh(c)] = <<>> /\ Heard(c)
  \/ (\E m : wire[ReplyCh(c)] = << m >>) /\ req.id # c /\ Quiet(c)

(* Once it is in its main loop it asks for no further expanse.             *)
NoCreates(c) ==
  /\ wire[AskCh(c)] \in Seq(OwnAsks(c) \ {CreateMsg})
  /\ out[c] \in Seq(OwnPosts(c) \ {CreatePost})
  /\ req.id = c => req.func # "create"

OneAtATime(c) ==
  /\ phase[c] = "create" => Quiet(c) /\ req.id # c /\ wire[ReplyCh(c)] = <<>>
  /\ phase[c] = "handle" => InHand(c)
  /\ phase[c] = "main" => NoCreates(c) /\ wire[ReplyCh(c)] = <<>>

(* Without destruction it has, or is being given, the handles of all that  *)
(* is its own.                                                             *)
Replied(c) == {wire[ReplyCh(c)][i].val : i \in DOMAIN wire[ReplyCh(c)]}
Kept(c) == "destroy" \notin Reactions => Owned(c) \subseteq Members(exp_list[c]) \cup Replied(c)

KeepInv == \A c \in Clients : OneAtATime(c) /\ Kept(c)

(* What is appended to nothing is alone.                                   *)
LEMMA AloneCat ==
  ASSUME NEW x
  PROVE  <<>> \o <<x>> = <<x>>
<1>1. <<x>> \in Seq({x})
  OBVIOUS
<1>2. QED
  BY <1>1, ConcatEmptySeq

(* What a program says and is told stays, but perhaps for its events.      *)
Resting(c) ==
  /\ out'[c] = out[c] /\ wire'[AskCh(c)] = wire[AskCh(c)]
  /\ wire'[ReplyCh(c)] = wire[ReplyCh(c)] /\ exp_list'[c] = exp_list[c]

(* A program that is left alone creates as before.                         *)
LEMMA OneRests ==
  ASSUME NEW c, OneAtATime(c), Resting(c), phase'[c] = phase[c],
         Owned(c)' = Owned(c),
         req' = req \/ (req'.id # c /\ (req.id # c \/ req.func # "create"))
  PROVE  OneAtATime(c)'
<1>1. OwnAsks(c)' = OwnAsks(c) /\ OwnPosts(c)' = OwnPosts(c)
  <2>1. OwnAsks(c)' = OwnAsks(c)
    BY DEF OwnAsks
  <2>2. QED
    BY <2>1 DEF OwnPosts
<1>2. CASE phase[c] = "create"
  BY <1>2 DEF OneAtATime, Resting, Quiet
<1>3. CASE phase[c] = "main"
  <2>1. NoCreates(c) /\ wire[ReplyCh(c)] = <<>>
    BY <1>3 DEF OneAtATime
  <2>2. NoCreates(c)'
    BY <1>1, <2>1 DEF NoCreates, Resting, CreateMsg, CreatePost, Message, Posting
  <2>3. QED
    BY <1>3, <2>1, <2>2 DEF OneAtATime, Resting
<1>4. CASE phase[c] = "handle"
  <2>1. InHand(c)
    BY <1>4 DEF OneAtATime
  <2>2. CASE Heard(c)
    <3>1. req' = req
      BY <2>2 DEF Heard, Creating
    <3>2. QED
      BY <1>4, <2>1, <3>1 DEF OneAtATime, Resting, InHand, Asked, Heard, Quiet,
           CreateMsg, ApiMsg, CreatePost, ApiPost, Message, Posting, Creating
  <2>3. CASE ~Heard(c)
    <3>1. req.id # c /\ req'.id # c
      BY <2>1, <2>3 DEF InHand
    <3>2. QED
      BY <1>4, <2>1, <2>3, <3>1 DEF OneAtATime, Resting, InHand, Asked, Quiet,
           CreateMsg, ApiMsg, CreatePost, ApiPost, Message, Posting
  <2>4. QED
    BY <2>2, <2>3
<1>5. QED
  BY <1>2, <1>3, <1>4 DEF OneAtATime

(* And it keeps its handles.                                               *)
LEMMA KeptRests ==
  ASSUME NEW c, Kept(c), Resting(c), Owned(c)' = Owned(c)
  PROVE  Kept(c)'
BY DEF Kept, Resting, Replied, Members

(***************************************************************************)
(* Rusk's steps, while programs create their expanses one by one.          *)
(***************************************************************************)

(* All but q rest.                                                         *)
LEMMA KeepOthers ==
  ASSUME KeepInv, UNCHANGED phase, NEW q,
         \A c \in Clients : c # q =>
           /\ Resting(c) /\ Owned(c)' = Owned(c)
           /\ req' = req \/ (req'.id # c /\ (req.id # c \/ req.func # "create")),
         q \in Clients => OneAtATime(q)' /\ Kept(q)'
  PROVE  KeepInv'
<1>1. ASSUME NEW c \in Clients
      PROVE  OneAtATime(c)' /\ Kept(c)'
  <2>1. CASE c = q
    BY <2>1
  <2>2. CASE c # q
    BY <2>2, OneRests, KeptRests DEF KeepInv
  <2>3. QED
    BY <2>1, <2>2
<1>2. QED
  BY <1>1 DEF KeepInv

(* A new request of another function, or none, disturbs nobody.            *)
LEMMA KeepAll ==
  ASSUME KeepInv, UNCHANGED phase, \A c \in Clients : Resting(c), Reordered,
         req' = req \/ (req' = R!Idle /\ req.func # "create")
  PROVE  KeepInv'
<1>1. ASSUME NEW c \in Clients
      PROVE  OneAtATime(c)' /\ Kept(c)'
  <2>1. req' = req \/ (req'.id # c /\ (req.id # c \/ req.func # "create"))
    BY WireAssumption DEF R!Idle
  <2>2. QED
    BY <2>1, ReorderedSame, OneRests, KeptRests DEF KeepInv
<1>2. QED
  BY <1>1 DEF KeepInv

(* The requests that create nothing, and the events given, leave the       *)
(* creations alone.                                                        *)
LEMMA KeepQuiet ==
  ASSUME StepInv, OwnInv, KeepInv, UNCHANGED <<bearingVars, shinyVars>>,
         R!remove_expanse \/ R!update_partial \/ R!update_expanse
           \/ R!set_decoration_buffers \/ R!bring_expanse_to_front \/ R!send_events
           \/ R!register_em \/ R!reg_esys
  PROVE  KeepInv'
<1>1. UNCHANGED phase /\ exp_list' = exp_list
  BY DEF shinyVars
<1>2. ASSUME R!remove_expanse \/ R!update_partial \/ R!update_expanse
               \/ R!set_decoration_buffers \/ R!bring_expanse_to_front
      PROVE  KeepInv'
  <2>1. req' = R!Idle /\ \A c : Untouched(c)
    BY <1>2, QuietDoes
  <2>2. req.func # "create"
    BY <1>2 DEF R!remove_expanse, R!update_partial, R!update_expanse, R!set_decoration_buffers,
         R!bring_expanse_to_front, R!Performs
  <2>3. Reordered
    BY <1>2, OwnDraw, OwnUpdate, OwnDecorate, OwnFront, OwnRemove
  <2>4. \A c \in Clients : Resting(c)
    BY <2>1 DEF Resting, Untouched
  <2>5. QED
    BY <1>1, <2>1, <2>2, <2>3, <2>4, KeepAll
<1>3. CASE R!send_events
  <2>1. req' = R!Idle /\ req.func # "create" /\ Reordered /\ UNCHANGED out
    BY <1>3, SendDoes, OwnSend
  <2>2. ASSUME NEW c \in Clients
        PROVE  wire'[AskCh(c)] = wire[AskCh(c)] /\ wire'[ReplyCh(c)] = wire[ReplyCh(c)]
    <3>1. ASSUME NEW d \in Clients, \A ch \in Channels : ch # GiftCh(d) => wire'[ch] = wire[ch]
          PROVE  wire'[AskCh(c)] = wire[AskCh(c)] /\ wire'[ReplyCh(c)] = wire[ReplyCh(c)]
      BY <3>1, ChannelsApart, AskApart, OthersApart
    <3>2. \/ UNCHANGED wire
          \/ \E d \in Clients : \A ch \in Channels : ch # GiftCh(d) => wire'[ch] = wire[ch]
      BY <1>3, SendDoes
    <3>3. QED
      BY <3>1, <3>2
  <2>3. \A c \in Clients : Resting(c)
    BY <1>1, <2>1, <2>2 DEF Resting
  <2>4. QED
    BY <1>1, <2>1, <2>3, KeepAll
<1>4. CASE R!register_em
  <2>1. req' = R!Idle /\ req.func # "create" /\ Reordered /\ UNCHANGED out
    BY <1>1, <1>4, RegisterDoes, OwnRegister DEF shinyVars
  <2>2. \A c \in Clients : Resting(c)
    BY <1>1, <1>4, <2>1, RegisterDoes, ChannelsApart, AskApart, OthersApart DEF Resting
  <2>3. QED
    BY <1>1, <2>1, <2>2, KeepAll
<1>5. CASE R!reg_esys
  <2>1. UNCHANGED <<wire, out, req, expanses>>
    BY <1>5 DEF R!reg_esys, R!ruskVars
  <2>2. \A c \in Clients : Resting(c)
    BY <1>1, <2>1 DEF Resting
  <2>3. QED
    BY <1>1, <2>1, <2>2, KeepAll, NotReordered
<1>6. QED
  BY <1>2, <1>3, <1>4, <1>5

(* The keyboard does too.                                                  *)
LEMMA KeepRead ==
  ASSUME StepInv, OwnInv, KeepInv, R!process_events, UNCHANGED <<bearingVars, shinyVars>>
  PROVE  KeepInv'
<1>1. UNCHANGED phase /\ exp_list' = exp_list /\ UNCHANGED <<out, req, expanses>>
  BY ReadDoes DEF shinyVars
<1>2. \A c \in Clients : Resting(c)
  BY <1>1, ReadDoes, ChannelsApart, AskApart, OthersApart DEF Resting
<1>3. QED
  BY <1>1, <1>2, KeepAll, NotReordered

(* A request to create is begun: it has left the channel and is rusk's     *)
(* only one.                                                               *)
LEMMA KeepServe ==
  ASSUME StepInv, OwnInv, KeepInv, NEW id \in Programs, R!serve(id),
         UNCHANGED <<bearingVars, shinyVars>>
  PROVE  KeepInv'
<1>1. PICK f : /\ f = Head(wire[AskCh(id)]).val
               /\ req' = [func |-> f, id |-> id, want |-> R!Args[f], got |-> <<>>]
  BY ServeDoes
<1>2. /\ id \in Askers /\ req = R!Idle /\ wire[AskCh(id)] # <<>>
      /\ UNCHANGED <<expanses, count, phase, exp_list>> /\ \A p \in Askers : out'[p] = out[p]
      /\ id \in Clients => wire'[AskCh(id)] = Tail(wire[AskCh(id)])
      /\ \A ch \in Channels : ch # AskCh(id) => wire'[ch] = wire[ch]
  BY ServeDoes DEF shinyVars
<1>3. req'.id = id /\ \A c \in Clients : req.id # c
  BY <1>1, <1>2, WireAssumption DEF R!Idle
<1>4. ASSUME NEW c \in Clients, c # id
      PROVE  Resting(c)
  BY <1>2, <1>4, ChannelsApart, AskApart DEF Resting
<1>5. ASSUME id \in Clients
      PROVE  OneAtATime(id)' /\ Kept(id)'
  <2>1. /\ wire'[AskCh(id)] = Tail(wire[AskCh(id)]) /\ out'[id] = out[id]
        /\ wire'[ReplyCh(id)] = wire[ReplyCh(id)]
    BY <1>2, <1>5, ChannelsApart, AskApart
  <2>2. Kept(id)'
    BY <1>2, <1>5, <2>1, OwnedSame DEF KeepInv, Kept, Replied, Members
  <2>3. OneAtATime(id) /\ phase[id] # "create"
    BY <1>2, <1>5 DEF KeepInv, OneAtATime, Quiet
  <2>4. CASE phase[id] = "handle"
    <3>1. InHand(id)
      BY <2>3, <2>4 DEF OneAtATime
    <3>2. wire[ReplyCh(id)] = <<>> /\ Asked(id)
      BY <1>2, <1>3, <1>5, <3>1 DEF InHand, Heard, Quiet, Creating
    <3>3. \/ out[id] = << ApiPost(id) >> /\ wire[AskCh(id)] = << CreateMsg >>
          \/ out[id] = <<>> /\ wire[AskCh(id)] = << CreateMsg, ApiMsg(id) >>
      BY <1>2, <3>2 DEF Asked
    <3>4. f = "create"
      BY <1>1, <3>3, HeadsSpelled DEF CreateMsg, Message
    <3>5. req' = Creating(id, <<"api">>, <<>>)
      BY <1>1, <3>4, ArgsSpelled DEF Creating
    <3>6. \/ out'[id] = << ApiPost(id) >> /\ wire'[AskCh(id)] = <<>>
          \/ out'[id] = <<>> /\ wire'[AskCh(id)] = << ApiMsg(id) >>
      BY <2>1, <3>3, HeadsSpelled
    <3>7. Heard(id)' /\ wire'[ReplyCh(id)] = <<>>
      BY <2>1, <3>2, <3>5, <3>6 DEF Heard, Creating, ApiPost, ApiMsg, Posting, Message
    <3>8. QED
      BY <1>2, <2>2, <2>4, <3>7 DEF OneAtATime, InHand
  <2>5. CASE phase[id] = "main"
    <3>1. NoCreates(id) /\ wire[ReplyCh(id)] = <<>>
      BY <2>3, <2>5 DEF OneAtATime
    <3>2. PICK s \in Seq(OwnAsks(id) \ {CreateMsg}) : s = wire[AskCh(id)]
      BY <3>1 DEF NoCreates
    <3>3. s # <<>> /\ Head(s) \in OwnAsks(id) \ {CreateMsg} /\ Tail(s) \in Seq(OwnAsks(id) \ {CreateMsg})
      BY <1>2, <3>2
    <3>4. Head(s).type = "func"
      <4>1. Waiting(Rusk, id, ES_COMM_PORT) = s
        BY <3>2 DEF Waiting, AskCh
      <4>2. RuskFinds
        BY RuskFindsRight
      <4>3. QED
        BY <1>3, <1>5, <3>3, <4>1, <4>2 DEF RuskFinds, Finds
    <3>5. Head(s) \in {Message("func", g) : g \in ClientFuncs}
      BY <3>3, <3>4 DEF OwnAsks, Message
    <3>6. PICK g \in ClientFuncs : Head(s) = Message("func", g)
      BY <3>5
    <3>7. g # "create" /\ f = g
      BY <1>1, <3>2, <3>3, <3>6 DEF CreateMsg, Message
    <3>8. OwnAsks(id)' = OwnAsks(id) /\ OwnPosts(id)' = OwnPosts(id)
      BY <1>2, OwnedSame
    <3>9. NoCreates(id)'
      <4>1. req'.func # "create"
        BY <1>1, <3>7
      <4>2. wire'[AskCh(id)] = Tail(s)
        BY <2>1, <3>2
      <4>3. QED
        BY <2>1, <3>1, <3>3, <3>8, <4>1, <4>2
           DEF NoCreates, CreateMsg, CreatePost, Message, Posting
    <3>10. QED
      BY <1>2, <2>1, <2>2, <2>5, <3>1, <3>9 DEF OneAtATime
  <2>6. phase[id] \in {"create", "handle", "main"}
    BY <1>5 DEF StepInv, Typed, Phases
  <2>7. QED
    BY <2>3, <2>4, <2>5, <2>6
<1>6. QED
  BY <1>2, <1>3, <1>4, <1>5, KeepOthers, OwnedSame

(* An argument is taken: the request that was begun goes on.               *)
LEMMA KeepReceive ==
  ASSUME StepInv, StepInv', OwnInv, KeepInv, R!receive_data, UNCHANGED <<bearingVars, shinyVars>>
  PROVE  KeepInv'
<1>1. UNCHANGED <<expanses, count, phase, exp_list>>
  BY ReceiveDoes DEF shinyVars
<1>3. CASE /\ req.func = "send_events" /\ req'.func = "send_events"
           /\ \A p \in Askers : out'[p] = out[p]
           /\ \A ch \in Channels : ch # SortedCh => wire'[ch] = wire[ch]
  <2>1. \A c \in Clients : Resting(c)
    BY <1>1, <1>3, ChannelsApart, AskApart, OthersApart DEF Resting
  <2>2. req'.id = Bearing
    <3>1. RequestRight'
      BY DEF StepInv
    <3>2. req'.func \in Funcs(req'.id)
      BY <1>3, <3>1 DEF RequestRight, R!Idle, Registration
    <3>3. QED
      BY <1>3, <3>2 DEF Funcs, ClientFuncs
  <2>3. \A c \in Clients : req'.id # c
    BY <2>2, WireAssumption
  <2>4. QED
    BY <1>1, <1>3, <2>1, <2>3, KeepOthers, OwnedSame, WireAssumption
<1>4. ASSUME NEW p \in Askers, NEW m,
             p = req.id, wire[AskCh(p)] # <<>>, m = Head(wire[AskCh(p)]),
             req.want \in Wants, m.type = Head(req.want),
             req' = [func |-> req.func, id |-> p, want |-> Tail(req.want),
                     got |-> Append(req.got, m.val)],
             wire'[AskCh(p)] = Tail(wire[AskCh(p)]),
             \A ch \in Channels : ch # AskCh(p) => wire'[ch] = wire[ch],
             \A q \in Askers : out'[q] = out[q]
      PROVE  KeepInv'
  <2>1. ASSUME NEW c \in Clients, c # p
        PROVE  Resting(c) /\ req.id # c /\ req'.id # c
    BY <1>1, <1>4, <2>1, ChannelsApart, AskApart DEF Resting
  <2>2. ASSUME p \in Clients
        PROVE  OneAtATime(p)' /\ Kept(p)'
    <3>1. out'[p] = out[p] /\ wire'[ReplyCh(p)] = wire[ReplyCh(p)]
      BY <1>4, <2>2, ChannelsApart, AskApart
    <3>2. Kept(p)'
      BY <1>1, <2>2, <3>1, OwnedSame DEF KeepInv, Kept, Replied, Members
    <3>3. OneAtATime(p) /\ phase[p] # "create"
      BY <1>4, <2>2 DEF KeepInv, OneAtATime
    <3>4. CASE phase[p] = "handle"
      <4>1. wire[ReplyCh(p)] = <<>> /\ Heard(p)
        BY <1>4, <3>3, <3>4 DEF OneAtATime, InHand
      <4>2. /\ req = Creating(p, <<"api">>, <<>>)
            /\ out[p] = <<>> /\ wire[AskCh(p)] = << ApiMsg(p) >>
        BY <1>4, <4>1 DEF Heard
      <4>3. m.val = p
        BY <1>4, <4>2, HeadsSpelled DEF ApiMsg, Message
      <4>4. req' = Creating(p, <<>>, <<p>>)
        BY <1>4, <4>2, <4>3, HeadsSpelled, Appended DEF Creating
      <4>5. wire'[AskCh(p)] = <<>>
        <5>1. Tail(<< ApiMsg(p) >>) = <<>>
          BY HeadsSpelled
        <5>2. wire'[AskCh(p)] = Tail(wire[AskCh(p)])
          BY <1>4
        <5>3. QED
          BY <4>2, <5>1, <5>2
      <4>6. Heard(p)'
        BY <3>1, <4>2, <4>4, <4>5 DEF Heard, Creating
      <4>7. QED
        BY <1>1, <3>1, <3>2, <3>4, <4>1, <4>6 DEF OneAtATime, InHand
    <3>5. CASE phase[p] = "main"
      <4>1. NoCreates(p) /\ wire[ReplyCh(p)] = <<>>
        BY <3>3, <3>5 DEF OneAtATime
      <4>2. PICK s \in Seq(OwnAsks(p) \ {CreateMsg}) : s = wire[AskCh(p)]
        BY <4>1 DEF NoCreates
      <4>3. Tail(s) \in Seq(OwnAsks(p) \ {CreateMsg})
        BY <1>4, <4>2
      <4>4. OwnAsks(p)' = OwnAsks(p) /\ OwnPosts(p)' = OwnPosts(p)
        BY <1>1, OwnedSame
      <4>5. NoCreates(p)'
        <5>1. wire'[AskCh(p)] = Tail(s) /\ req'.func = req.func /\ req.id = p
          BY <1>4, <4>2
        <5>2. QED
          BY <3>1, <4>1, <4>3, <4>4, <5>1 DEF NoCreates, CreateMsg, CreatePost, Message, Posting
      <4>6. QED
        BY <1>1, <3>1, <3>2, <3>5, <4>1, <4>5 DEF OneAtATime
    <3>6. phase[p] \in {"create", "handle", "main"}
      BY <2>2 DEF StepInv, Typed, Phases
    <3>7. QED
      BY <3>3, <3>4, <3>5, <3>6
  <2>3. QED
    BY <1>1, <2>1, <2>2, KeepOthers, OwnedSame
<1>5. QED
  <2>1. \/ /\ req.func = "send_events" /\ req'.func = "send_events"
           /\ \A p \in Askers : out'[p] = out[p]
           /\ \A ch \in Channels : ch # SortedCh => wire'[ch] = wire[ch]
        \/ \E p \in Askers : \E m :
           /\ p = req.id /\ wire[AskCh(p)] # <<>> /\ m = Head(wire[AskCh(p)])
           /\ req.want \in Wants /\ m.type = Head(req.want)
           /\ req' = [func |-> req.func, id |-> p, want |-> Tail(req.want),
                      got |-> Append(req.got, m.val)]
           /\ wire'[AskCh(p)] = Tail(wire[AskCh(p)])
           /\ \A ch \in Channels : ch # AskCh(p) => wire'[ch] = wire[ch]
           /\ \A q \in Askers : out'[q] = out[q]
    BY ReceiveDoes, Zenon
  <2>2. QED
    BY <1>3, <1>4, <2>1, Zenon

(* The one request of a program is answered with its expanse's handle.     *)
LEMMA KeepCreate ==
  ASSUME StepInv, OwnInv, KeepInv, R!create_expanse, UNCHANGED <<bearingVars, shinyVars>>
  PROVE  KeepInv'
<1>1. PICK p \in Clients : p = req.id
  BY CreateDoes
<1>2. PICK m : m = Message("handle", count)
  OBVIOUS
<1>3. /\ req.want = <<>> /\ req.func = "create" /\ req' = R!Idle
      /\ UNCHANGED <<out, phase, exp_list>>
      /\ wire'[ReplyCh(p)] = wire[ReplyCh(p)] \o << m >>
      /\ \A ch \in Channels : ch # OrderCh /\ ch # ReplyCh(p) => wire'[ch] = wire[ch]
  BY <1>1, <1>2, CreateDoes DEF shinyVars
<1>4. \A c : Owned(c)' = IF c = p THEN Owned(c) \cup {count} ELSE Owned(c)
  BY <1>1, OwnCreate
<1>5. \A c \in Clients : req'.id # c
  BY <1>3, WireAssumption DEF R!Idle
<1>6. ASSUME NEW c \in Clients, c # p
      PROVE  Resting(c) /\ Owned(c)' = Owned(c) /\ req.id # c /\ req'.id # c
  BY <1>1, <1>3, <1>4, <1>5, <1>6, ChannelsApart, AskApart, OthersApart DEF Resting
<1>7. wire'[AskCh(p)] = wire[AskCh(p)]
  BY <1>3, ChannelsApart, AskApart
<1>8. phase[p] = "handle" /\ Heard(p) /\ wire[ReplyCh(p)] = <<>>
  <2>1. OneAtATime(p) /\ phase[p] \in {"create", "handle", "main"}
    BY DEF KeepInv, StepInv, Typed, Phases
  <2>2. QED
    BY <1>1, <1>3, <2>1 DEF OneAtATime, NoCreates, InHand
<1>9. out[p] = <<>> /\ wire[AskCh(p)] = <<>>
  <2>1. <<"api">> # <<>>
    BY HeadsSpelled
  <2>2. QED
    BY <1>3, <1>8, <2>1 DEF Heard, Creating
<1>10. wire'[ReplyCh(p)] = << m >>
  BY <1>3, <1>8, AloneCat
<1>11. OneAtATime(p)'
  BY <1>3, <1>5, <1>7, <1>8, <1>9, <1>10 DEF OneAtATime, InHand, Quiet
<1>12. Kept(p)'
  <2>1. ASSUME "destroy" \notin Reactions
        PROVE  Owned(p)' \subseteq Members(exp_list'[p]) \cup Replied(p)'
    <3>1. Owned(p) \subseteq Members(exp_list[p]) \cup Replied(p)
      BY <2>1 DEF KeepInv, Kept
    <3>2. Replied(p) = {}
      BY <1>8 DEF Replied
    <3>3. count \in Replied(p)'
      <4>1. 1 \in DOMAIN << m >> /\ << m >>[1].val = count
        BY <1>2 DEF Message
      <4>2. QED
        BY <1>10, <4>1 DEF Replied
    <3>4. exp_list'[p] = exp_list[p] /\ Owned(p)' = Owned(p) \cup {count}
      BY <1>3, <1>4
    <3>5. QED
      BY <3>1, <3>2, <3>3, <3>4
  <2>2. QED
    BY <2>1 DEF Kept, Members
<1>13. QED
  BY <1>3, <1>6, <1>11, <1>12, KeepOthers

(***************************************************************************)
(* The steps of a program.                                                 *)
(***************************************************************************)

LEMMA KeepClient ==
  ASSUME OwnInv, KeepInv, UNCHANGED <<expanses, count, req>>, NEW c \in Clients,
         phase \in [Clients -> Phases], NEW w, phase' = [phase EXCEPT ![c] = w],
         \A d \in Clients : d # c => Untouched(d), OneAtATime(c)', Kept(c)'
  PROVE  KeepInv'
<1>1. ASSUME NEW d \in Clients, d # c
      PROVE  OneAtATime(d)' /\ Kept(d)'
  <2>1. Resting(d) /\ phase'[d] = phase[d] /\ Owned(d)' = Owned(d) /\ req' = req
    BY <1>1, OwnedSame DEF Resting, Untouched
  <2>2. QED
    BY <2>1, OneRests, KeptRests DEF KeepInv
<1>2. QED
  BY <1>1 DEF KeepInv

(* A program asks for an expanse when nothing of it is under way.          *)
LEMMA KeepCreates ==
  ASSUME StepInv, OwnInv, KeepInv, NEW c \in Clients, S!create_shiny_expanse(c),
         UNCHANGED <<ruskVars, bearingVars>>
  PROVE  KeepInv'
<1>1. UNCHANGED <<expanses, count, req>> /\ phase \in [Clients -> Phases]
  BY DEF ruskVars, StepInv, Typed
<1>2. /\ UNCHANGED <<wire, exp_list>> /\ phase[c] = "create" /\ out[c] = <<>>
      /\ phase' = [phase EXCEPT ![c] = "handle"]
      /\ out'[c] = << CreatePost, ApiPost(c) >>
      /\ \A d \in Clients : d # c => Untouched(d)
  BY CreatesDoes DEF CreatePost, ApiPost, CreateMsg, ApiMsg
<1>3. phase'[c] = "handle"
  BY <1>1, <1>2
<1>4. wire[AskCh(c)] = <<>> /\ req.id # c /\ wire[ReplyCh(c)] = <<>>
  BY <1>2 DEF KeepInv, OneAtATime, Quiet
<1>5. Asked(c)'
  BY <1>2, <1>4 DEF Asked, CreatePost, ApiPost, CreateMsg, ApiMsg, Posting, Message
<1>6. OneAtATime(c)'
  BY <1>1, <1>2, <1>3, <1>4, <1>5 DEF OneAtATime, InHand
<1>7. Kept(c)'
  BY <1>1, <1>2, OwnedSame DEF KeepInv, Kept, Replied, Members
<1>8. QED
  BY <1>1, <1>2, <1>6, <1>7, KeepClient

(* What is drawn is not created.                                           *)
LEMMA DrawnNotCreated ==
  ASSUME NEW c, NEW h \in Owned(c), h \in Nat
  PROVE  /\ S!draw_buffer(c, h) \in Seq(OwnPosts(c) \ {CreatePost})
         /\ << S!call_func("remove"), S!send_data("handle", h) >> \in Seq(OwnPosts(c) \ {CreatePost})
<1>1. /\ Message("func", "draw") \in OwnAsks(c) /\ Message("func", "remove") \in OwnAsks(c)
      /\ Message("place", h) \in OwnAsks(c) /\ Message("buffer", c) \in OwnAsks(c)
      /\ Message("handle", h) \in OwnAsks(c)
  BY DEF OwnAsks, ClientFuncs
<1>2. PICK d, p, b, r, k :
        /\ d = S!call_func("draw") /\ p = S!send_data("place", h) /\ b = S!send_data("buffer", c)
        /\ r = S!call_func("remove") /\ k = S!send_data("handle", h)
  OBVIOUS
<1>3. {d, p, b, r, k} \subseteq OwnPosts(c)
  BY <1>1, <1>2, ClientPosts DEF OwnPosts
<1>4. CreatePost \notin {d, p, b, r, k}
  BY <1>2, ClientPosts DEF CreatePost, CreateMsg, Posting, Message
<1>5. << d, p, b >> \in Seq(OwnPosts(c) \ {CreatePost}) /\ << r, k >> \in Seq(OwnPosts(c) \ {CreatePost})
  BY <1>3, <1>4
<1>6. S!draw_buffer(c, h) = << d, p, b >>
  BY <1>2 DEF S!draw_buffer
<1>7. QED
  BY <1>2, <1>5, <1>6

(* The handle that is received is the one that was not in the program's    *)
(* list yet.                                                               *)
LEMMA KeepHandled ==
  ASSUME StepInv, OwnInv, OwnInv', KeepInv, NEW c \in Clients, S!recieve_handle(c),
         UNCHANGED <<ruskVars, bearingVars>>
  PROVE  KeepInv'
<1>1. UNCHANGED <<expanses, count, req>> /\ phase \in [Clients -> Phases]
  BY DEF ruskVars, StepInv, Typed
<1>2. PICK list, w : /\ list = exp_list'[c]
                     /\ w = IF Len(list) = Windows THEN "main" ELSE "create"
  OBVIOUS
<1>3. /\ phase[c] = "handle" /\ wire[ReplyCh(c)] # <<>>
      /\ list = Append(exp_list[c], Head(wire[ReplyCh(c)]).val) /\ list \in Seq(Nat)
      /\ wire'[ReplyCh(c)] = Tail(wire[ReplyCh(c)])
      /\ wire'[AskCh(c)] = wire[AskCh(c)]
      /\ \A d \in Clients : d # c => Untouched(d)
  BY <1>2, HandledDoes
<1>4. phase' = [phase EXCEPT ![c] = w] /\ phase'[c] = w
  BY <1>1, <1>2, HandledDoes
<1>5. req.id # c /\ Quiet(c) /\ \E m : wire[ReplyCh(c)] = << m >>
  BY <1>3 DEF KeepInv, OneAtATime, InHand
<1>6. PICK m : wire[ReplyCh(c)] = << m >>
  BY <1>5
<1>7. wire'[ReplyCh(c)] = <<>> /\ Head(wire[ReplyCh(c)]) = m /\ wire'[AskCh(c)] = <<>>
  <2>1. Tail(<< m >>) = <<>> /\ Head(<< m >>) = m
    BY HeadsSpelled
  <2>2. QED
    BY <1>3, <1>5, <1>6, <2>1 DEF Quiet
<1>8. ASSUME w = "create"
      PROVE  OneAtATime(c)'
  <2>1. out'[c] = <<>>
    <3>1. exp_list'[c] = list /\ Len(list) # Windows
      BY <1>2, <1>8
    <3>2. QED
      BY <3>1, HandledDoes
  <2>2. OneAtATime(c)'
    BY <1>1, <1>4, <1>5, <1>7, <1>8, <2>1 DEF OneAtATime, Quiet
  <2>3. QED
    BY <2>2
<1>9. ASSUME w = "main"
      PROVE  OneAtATime(c)'
  <2>1. ASSUME NEW i \in DOMAIN list
        PROVE  S!draw_buffer(c, list[i]) \in Seq(OwnPosts(c) \ {CreatePost})
    <3>1. list \in Seq(Owned(c)') /\ Owned(c)' = Owned(c)
      BY <1>1, <1>2, OwnedSame DEF OwnInv, Owning, OwnsRight
    <3>2. list[i] \in Owned(c) /\ list[i] \in Nat
      BY <1>3, <3>1
    <3>3. QED
      BY <3>2, DrawnNotCreated
  <2>2. FlattenSeq([i \in DOMAIN exp_list'[c] |-> S!draw_buffer(c, exp_list'[c][i])])
          \in Seq(OwnPosts(c) \ {CreatePost})
    <3>1. exp_list'[c] \in Seq(Nat)
      BY <1>2, <1>3
    <3>2. \A i \in DOMAIN exp_list'[c] :
            S!draw_buffer(c, exp_list'[c][i]) \in Seq(OwnPosts(c) \ {CreatePost})
      BY <1>2, <2>1
    <3>3. QED
      BY <3>1, <3>2, DrawnAre
  <2>3. out'[c] \in Seq(OwnPosts(c) \ {CreatePost})
    <3>1. \/ out'[c] = FlattenSeq([i \in DOMAIN exp_list'[c] |-> S!draw_buffer(c, exp_list'[c][i])])
          \/ out'[c] = <<>>
      BY HandledDoes
    <3>2. <<>> \in Seq(OwnPosts(c) \ {CreatePost})
      OBVIOUS
    <3>3. QED
      BY <2>2, <3>1, <3>2
  <2>4. OwnAsks(c)' = OwnAsks(c) /\ OwnPosts(c)' = OwnPosts(c)
    BY <1>1, OwnedSame
  <2>5. NoCreates(c)'
    <3>1. <<>> \in Seq(OwnAsks(c) \ {CreateMsg})
      OBVIOUS
    <3>2. QED
      BY <1>1, <1>5, <1>7, <2>3, <2>4, <3>1
         DEF NoCreates, CreateMsg, CreatePost, Message, Posting
  <2>6. OneAtATime(c)'
    BY <1>4, <1>7, <1>9, <2>5 DEF OneAtATime
  <2>7. QED
    BY <2>6
<1>10. Kept(c)'
  <2>1. ASSUME "destroy" \notin Reactions
        PROVE  Owned(c)' \subseteq Members(exp_list'[c]) \cup Replied(c)'
    <3>1. Owned(c) \subseteq Members(exp_list[c]) \cup Replied(c)
      BY <2>1 DEF KeepInv, Kept
    <3>2. Replied(c) \subseteq {m.val}
      <4>1. DOMAIN << m >> = 1 .. 1 /\ << m >>[1] = m
        OBVIOUS
      <4>2. QED
        BY <1>6, <4>1 DEF Replied
    <3>3. m.val \in Members(list) /\ Members(exp_list[c]) \subseteq Members(list)
      <4>1. exp_list[c] \in Seq(Nat) /\ m.val \in Nat
        <5>1. PICK u \in States : <<"handle", m, u>> \in HandleSteps
          BY <1>3, <1>7, PathHead DEF StepInv, Answering, Replying
        <5>2. QED
          BY <5>1, HandleStep DEF StepInv, Typed
      <4>2. PICK s \in Seq(Nat), t \in Seq(Nat), n \in Nat :
              s = exp_list[c] /\ t = list /\ n = Len(s)
        <5>1. Len(exp_list[c]) \in Nat
          BY <4>1
        <5>2. QED
          BY <1>3, <4>1, <5>1
      <4>3. t = Append(s, m.val)
        BY <1>3, <1>7, <4>2
      <4>4. /\ DOMAIN t = 1 .. n + 1 /\ DOMAIN s = 1 .. n /\ t[n + 1] = m.val
            /\ \A i \in 1 .. n : t[i] = s[i]
        BY <4>1, <4>2, <4>3
      <4>5. n + 1 \in 1 .. n + 1 /\ 1 .. n \subseteq 1 .. n + 1
        OBVIOUS
      <4>6. QED
        BY <4>2, <4>4, <4>5 DEF Members
    <3>4. Owned(c)' = Owned(c)
      BY <1>1, OwnedSame
    <3>5. QED
      BY <1>2, <3>1, <3>2, <3>3, <3>4
  <2>2. QED
    BY <2>1 DEF Kept, Members
<1>11. OneAtATime(c)'
  BY <1>2, <1>8, <1>9
<1>12. QED
  BY <1>1, <1>3, <1>4, <1>10, <1>11, KeepClient

(* In the main loop nothing is created, and a program that does not        *)
(* destroy keeps its list.                                                 *)
LEMMA KeepLoop ==
  ASSUME StepInv, OwnInv, KeepInv, NEW c \in Clients, S!shiny_main_loop(c),
         UNCHANGED <<ruskVars, bearingVars>>
  PROVE  KeepInv'
<1>1. UNCHANGED <<expanses, count, req>> /\ phase \in [Clients -> Phases]
  BY DEF ruskVars, StepInv, Typed
<1>2. PICK h : h = wire[GiftCh(c)][1].val
  OBVIOUS
<1>3. /\ phase[c] = "main" /\ out[c] = <<>> /\ UNCHANGED phase /\ Len(wire[GiftCh(c)]) >= 2
      /\ wire'[AskCh(c)] = wire[AskCh(c)] /\ wire'[ReplyCh(c)] = wire[ReplyCh(c)]
      /\ \A d \in Clients : d # c => Untouched(d)
  BY LoopDoes
<1>4. \/ exp_list'[c] = exp_list[c] /\ out'[c] = <<>>
      \/ exp_list'[c] = exp_list[c] /\ out'[c] = S!draw_buffer(c, h)
      \/ /\ "destroy" \in Reactions
         /\ out'[c] = << S!call_func("remove"), S!send_data("handle", h) >>
  BY <1>2, LoopDoes
<1>5. phase' = [phase EXCEPT ![c] = phase[c]]
  BY <1>1, <1>3
<1>6. out'[c] \in Seq(OwnPosts(c) \ {CreatePost})
  <2>1. h \in Owned(c) /\ h \in Nat
    BY <1>2, <1>3, GiftIsOwn
  <2>2. <<>> \in Seq(OwnPosts(c) \ {CreatePost})
    OBVIOUS
  <2>3. QED
    BY <1>4, <2>1, <2>2, DrawnNotCreated
<1>7. NoCreates(c) /\ wire[ReplyCh(c)] = <<>>
  BY <1>3 DEF KeepInv, OneAtATime
<1>8. NoCreates(c)'
  BY <1>1, <1>3, <1>6, <1>7, OwnedSame DEF NoCreates, CreateMsg, CreatePost, Message, Posting
<1>9. OneAtATime(c)'
  BY <1>3, <1>7, <1>8 DEF OneAtATime
<1>10. Kept(c)'
  BY <1>1, <1>3, <1>4, OwnedSame DEF KeepInv, Kept, Replied, Members
<1>11. QED
  BY <1>1, <1>3, <1>5, <1>9, <1>10, KeepClient

(* What a program has to send enters the channel.                          *)
LEMMA KeepSays ==
  ASSUME StepInv, OwnInv, KeepInv, NEW c \in Clients, S!send(c), UNCHANGED S!shinyVars,
         UNCHANGED <<ruskVars, bearingVars>>
  PROVE  KeepInv'
<1>1. UNCHANGED <<expanses, count, req>> /\ phase \in [Clients -> Phases]
  BY DEF ruskVars, StepInv, Typed
<1>2. PICK x : x = Head(out[c])
  OBVIOUS
<1>3. /\ UNCHANGED <<phase, exp_list>> /\ out[c] # <<>> /\ out'[c] = Tail(out[c])
      /\ wire'[AskCh(c)] = Append(wire[AskCh(c)], x.msg)
      /\ wire'[ReplyCh(c)] = wire[ReplyCh(c)]
      /\ x = Posting(ES_COMM_PORT, x.msg) /\ x.msg \in OwnAsks(c)
      /\ \A d \in Clients : d # c => Untouched(d)
  BY <1>2, ClientSends
<1>4. phase' = [phase EXCEPT ![c] = phase[c]]
  BY <1>1, <1>3
<1>5. Kept(c)'
  BY <1>1, <1>3, OwnedSame DEF KeepInv, Kept, Replied, Members
<1>6. OneAtATime(c) /\ phase[c] \in {"handle", "main"}
  BY <1>1, <1>3 DEF KeepInv, OneAtATime, Quiet, Phases
<1>7. ASSUME phase[c] = "handle"
      PROVE  OneAtATime(c)'
  <2>1. InHand(c)
    BY <1>6, <1>7 DEF OneAtATime
  <2>2. (CreatePost).msg = CreateMsg /\ ApiPost(c).msg = ApiMsg(c)
    BY DEF CreatePost, ApiPost, Posting
  <2>3. wire[ReplyCh(c)] = <<>>
    BY <1>3, <2>1 DEF InHand, Quiet
  <2>4. CASE req.id # c /\ Asked(c)
    <3>1. ASSUME out[c] = << CreatePost, ApiPost(c) >>, wire[AskCh(c)] = <<>>
          PROVE  Asked(c)'
      <4>1. x = CreatePost /\ out'[c] = << ApiPost(c) >>
        BY <1>2, <1>3, <3>1, HeadsSpelled
      <4>2. wire'[AskCh(c)] = << CreateMsg >>
        BY <1>3, <2>2, <3>1, <4>1, Appended
      <4>3. QED
        BY <4>1, <4>2 DEF Asked, CreatePost, ApiPost, CreateMsg, ApiMsg, Posting, Message
    <3>2. ASSUME out[c] = << ApiPost(c) >>, wire[AskCh(c)] = << CreateMsg >>
          PROVE  Asked(c)'
      <4>1. x = ApiPost(c) /\ out'[c] = <<>>
        BY <1>2, <1>3, <3>2, HeadsSpelled
      <4>2. wire'[AskCh(c)] = << CreateMsg, ApiMsg(c) >>
        BY <1>3, <2>2, <3>2, <4>1, Appended
      <4>3. QED
        BY <4>1, <4>2 DEF Asked, CreatePost, ApiPost, CreateMsg, ApiMsg, Posting, Message
    <3>3. Asked(c)'
      BY <1>3, <2>4, <3>1, <3>2 DEF Asked
    <3>4. QED
      BY <1>1, <1>3, <1>7, <2>3, <2>4, <3>3 DEF OneAtATime, InHand
  <2>5. CASE Heard(c)
    <3>1. /\ req = Creating(c, <<"api">>, <<>>)
          /\ out[c] = << ApiPost(c) >> /\ wire[AskCh(c)] = <<>>
      BY <1>3, <2>5 DEF Heard
    <3>2. x = ApiPost(c) /\ out'[c] = <<>>
      BY <1>2, <1>3, <3>1, HeadsSpelled
    <3>3. wire'[AskCh(c)] = << ApiMsg(c) >>
      BY <1>3, <2>2, <3>1, <3>2, Appended
    <3>4. Heard(c)'
      BY <1>1, <3>1, <3>2, <3>3 DEF Heard, Creating, ApiMsg, Message
    <3>5. QED
      BY <1>1, <1>3, <1>7, <2>3, <3>4 DEF OneAtATime, InHand
  <2>6. QED
    BY <1>3, <2>1, <2>4, <2>5 DEF InHand, Quiet
<1>8. ASSUME phase[c] = "main"
      PROVE  OneAtATime(c)'
  <2>1. NoCreates(c) /\ wire[ReplyCh(c)] = <<>>
    BY <1>6, <1>8 DEF OneAtATime
  <2>2. PICK s \in Seq(OwnPosts(c) \ {CreatePost}) : s = out[c] /\ s # <<>>
    BY <1>3, <2>1 DEF NoCreates
  <2>3. Tail(s) \in Seq(OwnPosts(c) \ {CreatePost}) /\ Head(s) # CreatePost
    BY <2>2
  <2>4. x.msg # CreateMsg
    BY <1>2, <1>3, <2>2, <2>3 DEF CreatePost
  <2>5. wire'[AskCh(c)] \in Seq(OwnAsks(c) \ {CreateMsg})
    BY <1>3, <2>1, <2>4 DEF NoCreates
  <2>6. out'[c] \in Seq(OwnPosts(c) \ {CreatePost})
    BY <1>3, <2>2, <2>3
  <2>7. NoCreates(c)'
    BY <1>1, <2>1, <2>5, <2>6, OwnedSame DEF NoCreates, CreateMsg, CreatePost, Message, Posting
  <2>8. QED
    BY <1>3, <1>8, <2>1, <2>7 DEF OneAtATime
<1>9. OneAtATime(c)'
  BY <1>6, <1>7, <1>8
<1>10. QED
  BY <1>1, <1>3, <1>4, <1>5, <1>9, KeepClient

(* Every step of a program keeps the invariant.                            *)
LEMMA KeepShiny ==
  ASSUME StepInv, OwnInv, OwnInv', KeepInv, NEW c \in Clients, S!Work(c),
         UNCHANGED <<ruskVars, bearingVars>>
  PROVE  KeepInv'
<1>1. CASE S!create_shiny_expanse(c)
  BY <1>1, KeepCreates
<1>2. CASE S!recieve_handle(c)
  BY <1>2, KeepHandled
<1>3. CASE S!shiny_main_loop(c)
  BY <1>3, KeepLoop
<1>4. ASSUME S!send(c), UNCHANGED S!shinyVars
      PROVE  KeepInv'
  BY <1>4, KeepSays
<1>5. QED
  BY <1>1, <1>2, <1>3, <1>4 DEF S!Work

(* Every step of rusk keeps it.                                            *)
LEMMA KeepRusk ==
  ASSUME StepInv, StepInv', OwnInv, KeepInv, R!Work, UNCHANGED <<bearingVars, shinyVars>>
  PROVE  KeepInv'
<1>1. ASSUME NEW id \in Programs, R!serve(id)
      PROVE  KeepInv'
  BY <1>1, KeepServe
<1>2. CASE R!receive_data
  BY <1>2, KeepReceive
<1>3. CASE R!create_expanse
  BY <1>3, KeepCreate
<1>4. CASE R!remove_expanse \/ R!update_partial \/ R!update_expanse
             \/ R!set_decoration_buffers \/ R!bring_expanse_to_front \/ R!send_events
             \/ R!register_em \/ R!reg_esys
  BY <1>4, KeepQuiet
<1>5. QED
  BY <1>1, <1>2, <1>3, <1>4 DEF R!Work, R!Programs, Programs

(* Every step of the window system keeps it.                               *)
LEMMA KeepStep ==
  ASSUME StepInv, StepInv', OwnInv, OwnInv', KeepInv, [Orderly]_vars
  PROVE  KeepInv'
<1>1. CASE RuskWorks
  BY <1>1, KeepRusk DEF RuskWorks
<1>2. CASE RuskReads
  BY <1>2, KeepRead DEF RuskReads
<1>3. CASE BearingWorks
  <2>1. B!Work /\ UNCHANGED <<ruskVars, shinyVars>>
    BY <1>3 DEF BearingWorks
  <2>2. \A c \in Clients : Resting(c)
    BY <2>1, BearingDoes DEF Resting
  <2>3. UNCHANGED <<phase, req, expanses>>
    BY <2>1, BearingDoes
  <2>4. QED
    BY <2>2, <2>3, KeepAll, NotReordered
<1>4. ASSUME NEW c \in Clients, ShinyWorks(c)
      PROVE  KeepInv'
  BY <1>4, KeepShiny DEF ShinyWorks
<1>5. CASE UNCHANGED vars
  <2>1. UNCHANGED <<wire, out, expanses, req, exp_list, phase>>
    BY <1>5 DEF vars, wireVars, ruskVars, shinyVars
  <2>2. QED
    BY <2>1, KeepAll, NotReordered DEF Resting
<1>6. QED
  BY <1>1, <1>2, <1>3, <1>4, <1>5 DEF Orderly

(* In the beginning nobody has asked for anything.                         *)
LEMMA KeepStarts == Init => KeepInv
<1> SUFFICES ASSUME Init PROVE KeepInv
  OBVIOUS
<1>1. /\ wire = [ch \in Channels |-> <<>>] /\ out = [p \in Programs |-> <<>>]
      /\ expanses = <<>> /\ req = R!Idle /\ phase = [c \in Clients |-> "create"]
  BY DEF Init, InitWire, R!InitRusk, S!InitShiny
<1>2. ASSUME NEW c \in Clients
      PROVE  OneAtATime(c) /\ Kept(c)
  <2>1. /\ wire[AskCh(c)] = <<>> /\ wire[ReplyCh(c)] = <<>> /\ out[c] = <<>> /\ phase[c] = "create"
    BY <1>1, ChannelsApart
  <2>2. req.id # c
    BY <1>1, WireAssumption DEF R!Idle
  <2>3. Owned(c) = {}
    BY <1>1 DEF Owned
  <2>4. QED
    BY <2>1, <2>2, <2>3 DEF OneAtATime, Kept, Quiet
<1>3. QED
  BY <1>2 DEF KeepInv

(* A program in its main loop has all its handles in its list.             *)
LEMMA HandlesRight ==
  ASSUME StepInv, OwnInv, KeepInv
  PROVE  OwnHandles
<1> SUFFICES ASSUME NEW c \in Clients, NEW i \in DOMAIN wire[GiftCh(c)], NEW m,
                    m = wire[GiftCh(c)][i], m.type = "handle",
                    phase[c] = "main", "destroy" \notin Reactions
             PROVE  Contains(exp_list[c], m.val)
  BY DEF OwnHandles, Waiting, GiftCh
<1>1. PICK s \in Seq(OwnGifts(c)) : s = wire[GiftCh(c)]
  BY DEF OwnInv, Owning, OwnsRight
<1>2. m \in OwnGifts(c)
  BY <1>1
<1>3. m \in OwnReplies(c)
  BY <1>2 DEF OwnGifts, Message
<1>4. PICK h \in Owned(c) : m = Message("handle", h)
  BY <1>3 DEF OwnReplies
<1>5. m.val = h
  BY <1>4 DEF Message
<1>6. h \in Members(exp_list[c]) \cup Replied(c)
  BY <1>4 DEF KeepInv, Kept
<1>7. Replied(c) = {}
  BY DEF KeepInv, OneAtATime, Replied
<1>8. PICK l \in Seq(Nat) : l = exp_list[c]
  BY DEF StepInv, Typed
<1>9. PICK k \in DOMAIN l : l[k] = h
  BY <1>6, <1>7, <1>8 DEF Members
<1>10. k \in 1 .. Len(l)
  OBVIOUS
<1>11. QED
  BY <1>5, <1>8, <1>9, <1>10 DEF Contains

(* Until rusk first misses an argument, the events a program is given come *)
(* with the handle of one of its own expanses, and one that the main loop  *)
(* of shiny.c finds in its list: for a program that destroys none, none is *)
(* given before its create_shiny_expanse has returned.  For any programs,  *)
(* any windows, any number of events.                                      *)
THEOREM OwnHandlesGiven == Spec => []OwnHandles
<1>1. Init => astray \/ (StepInv /\ OwnInv /\ KeepInv)
  BY StepStarts, OwnStarts, KeepStarts
<1>2. /\ astray \/ (StepInv /\ OwnInv /\ KeepInv)
      /\ [Next]_vars
      => astray' \/ (StepInv' /\ OwnInv' /\ KeepInv')
  BY AstrayStays, OrderlyUntil, StepKept, OwnStep, KeepStep
<1>3. astray \/ (StepInv /\ OwnInv /\ KeepInv) => OwnHandles
  BY HandlesRight DEF OwnHandles
<1>4. QED
  BY <1>1, <1>2, <1>3, PTL DEF Spec

(***************************************************************************)
(* What the manager is told of the expanses that are there already.        *)
(***************************************************************************)

(* A flattened list of pairs holds the pairs in their order.               *)
Paired(s, ss, m) ==
  /\ Len(s) = 2 * m
  /\ \A i \in 1 .. m : s[2 * i - 1] = ss[i][1] /\ s[2 * i] = ss[i][2]
  /\ \A j \in 1 .. 2 * m : \E i \in 1 .. m : j = 2 * i - 1 \/ j = 2 * i

(* One pair more.                                                          *)
LEMMA PairedNext ==
  ASSUME NEW L, NEW ss, NEW m \in Nat, NEW s \in Seq(L), Paired(s, ss, m),
         NEW t \in Seq(L), t = ss[m + 1], Len(t) = 2
  PROVE  s \o t \in Seq(L) /\ Paired(s \o t, ss, m + 1)
<1>1. PICK k \in Nat : k = 2 * m /\ k = Len(s)
  BY DEF Paired
<1>2. PICK r \in Seq(L) : r = s \o t
  <2>1. s \o t \in Seq(L)
    OBVIOUS
  <2>2. QED
    BY <2>1
<1>3. /\ Len(r) = k + 2 /\ \A j \in 1 .. k : r[j] = s[j]
      /\ r[k + 1] = t[1] /\ r[k + 2] = t[2]
  <2>1. /\ Len(r) = Len(s) + Len(t)
        /\ \A j \in 1 .. Len(s) + Len(t) : r[j] = IF j <= Len(s) THEN s[j] ELSE t[j - Len(s)]
    BY <1>2, ConcatProperties
  <2>2. /\ Len(r) = k + 2
        /\ \A j \in 1 .. k + 2 : r[j] = IF j <= k THEN s[j] ELSE t[j - k]
    BY <1>1, <2>1
  <2>3. /\ k + 1 \in 1 .. k + 2 /\ k + 2 \in 1 .. k + 2 /\ ~(k + 1 <= k) /\ ~(k + 2 <= k)
        /\ k + 1 - k = 1 /\ k + 2 - k = 2 /\ \A j \in 1 .. k : j \in 1 .. k + 2 /\ j <= k
    OBVIOUS
  <2>4. QED
    BY <2>2, <2>3
<1>4. Len(r) = 2 * (m + 1)
  <2>1. k + 2 = 2 * (m + 1)
    BY <1>1
  <2>2. QED
    BY <1>3, <2>1
<1>5. ASSUME NEW i \in 1 .. m + 1
      PROVE  r[2 * i - 1] = ss[i][1] /\ r[2 * i] = ss[i][2]
  <2>1. CASE i \in 1 .. m
    <3>1. 2 * i - 1 \in 1 .. k /\ 2 * i \in 1 .. k
      BY <1>1, <2>1
    <3>2. s[2 * i - 1] = ss[i][1] /\ s[2 * i] = ss[i][2]
      BY <2>1 DEF Paired
    <3>3. QED
      BY <1>3, <3>1, <3>2
  <2>2. CASE i = m + 1
    <3>1. 2 * i - 1 = k + 1 /\ 2 * i = k + 2
      BY <1>1, <2>2
    <3>2. QED
      BY <1>3, <2>2, <3>1
  <2>3. QED
    BY <2>1, <2>2
<1>6. ASSUME NEW j \in 1 .. 2 * (m + 1)
      PROVE  \E i \in 1 .. m + 1 : j = 2 * i - 1 \/ j = 2 * i
  <2>1. CASE j \in 1 .. 2 * m
    <3>1. PICK i \in 1 .. m : j = 2 * i - 1 \/ j = 2 * i
      BY <2>1 DEF Paired
    <3>2. i \in 1 .. m + 1
      OBVIOUS
    <3>3. QED
      BY <3>1, <3>2
  <2>2. CASE j \notin 1 .. 2 * m
    <3>1. m + 1 \in 1 .. m + 1 /\ (j = 2 * (m + 1) - 1 \/ j = 2 * (m + 1))
      BY <2>2
    <3>2. QED
      BY <3>1
  <2>3. QED
    BY <2>1, <2>2
<1>7. Paired(r, ss, m + 1)
  BY <1>4, <1>5, <1>6 DEF Paired
<1>8. QED
  BY <1>2, <1>7

(* By induction over the list's length.                                    *)
LEMMA FlattenPairs ==
  ASSUME NEW L, NEW ss \in Seq(Seq(L)), \A i \in 1 .. Len(ss) : Len(ss[i]) = 2
  PROVE  FlattenSeq(ss) \in Seq(L) /\ Paired(FlattenSeq(ss), ss, Len(ss))
<1>1. PICK n \in Nat : n = Len(ss)
  OBVIOUS
<1>2. ASSUME n = 0
      PROVE  FlattenSeq(ss) \in Seq(L) /\ Paired(FlattenSeq(ss), ss, n)
  <2>1. Len(ss) = 0 /\ ss = <<>>
    BY <1>1, <1>2, EmptySeq
  <2>2. FlattenSeq(ss) = <<>>
    BY <2>1, Zenon DEF FlattenSeq
  <2>3. 1 .. 2 * 0 = {} /\ 1 .. 0 = {} /\ 2 * 0 = 0 /\ Len(<<>>) = 0 /\ <<>> \in Seq(L)
    OBVIOUS
  <2>4. Paired(<<>>, ss, 0)
    BY <2>3 DEF Paired
  <2>5. QED
    BY <1>2, <2>2, <2>3, <2>4
<1>3. ASSUME n # 0
      PROVE  FlattenSeq(ss) \in Seq(L) /\ Paired(FlattenSeq(ss), ss, n)
  <2>1. PICK h : /\ FlattenSeq(ss) = h[n]
                 /\ \A i \in 1 .. n : h[i] = IF i = 1 THEN ss[i] ELSE h[i - 1] \o ss[i]
    BY <1>1, <1>3, Unfolded
  <2> DEFINE G == {m \in 0 .. n : m # 0 => h[m] \in Seq(L) /\ Paired(h[m], ss, m)}
  <2>2. 0 \in G
    OBVIOUS
  <2>3. ASSUME NEW m \in 1 .. n, m - 1 \in G
        PROVE  m \in G
    <3>1. PICK t \in Seq(L) : t = ss[m] /\ Len(t) = 2
      <4>1. ss[m] \in Seq(L) /\ Len(ss[m]) = 2
        BY <1>1
      <4>2. QED
        BY <4>1
    <3>2. ASSUME m = 1
          PROVE  h[m] \in Seq(L) /\ Paired(h[m], ss, m)
      <4>1. h[m] = t
        BY <2>1, <3>1, <3>2
      <4>2. /\ 2 * 1 = 2 /\ 2 * 1 - 1 = 1 /\ \A i \in 1 .. 1 : i = 1 /\ 1 \in 1 .. 1
            /\ \A j \in 1 .. 2 : j = 1 \/ j = 2
        OBVIOUS
      <4>3. Paired(t, ss, 1)
        BY <3>1, <3>2, <4>2 DEF Paired
      <4>4. QED
        BY <3>2, <4>1, <4>3
    <3>3. ASSUME m # 1
          PROVE  h[m] \in Seq(L) /\ Paired(h[m], ss, m)
      <4>1. PICK k \in Nat : k = m - 1 /\ k # 0 /\ m = k + 1
        BY <3>3
      <4>2. h[k] \in Seq(L) /\ Paired(h[k], ss, k)
        BY <2>3, <4>1
      <4>3. PICK s \in Seq(L) : s = h[k]
        BY <4>2
      <4>4. s \o t \in Seq(L) /\ Paired(s \o t, ss, k + 1)
        BY <3>1, <4>1, <4>2, <4>3, PairedNext
      <4>5. h[m] = s \o t
        BY <2>1, <3>1, <3>3, <4>1, <4>3
      <4>6. QED
        BY <4>1, <4>4, <4>5
    <3>4. m \in 0 .. n /\ h[m] \in Seq(L) /\ Paired(h[m], ss, m)
      BY <3>2, <3>3
    <3>5. QED
      BY <3>4
  <2>4. n \in G
    <3> HIDE DEF G
    <3>1. \A m \in 0 .. n : m \in G
      BY <2>2, <2>3, Upwards
    <3>2. QED
      BY <3>1
  <2>5. QED
    BY <1>3, <2>1, <2>4
<1>4. QED
  BY <1>1, <1>2, <1>3

(***************************************************************************)
(* Whom the manager knows.                                                 *)
(***************************************************************************)

Naming(s) == {i \in DOMAIN s : s[i].type = "expanse"}
Told(s)   == {s[i].val.handle : i \in Naming(s)}

(* Of the handles in hs, each is known or is told in s, and none twice.    *)
MetOnce(s, known, hs) ==
  /\ \A i, j \in DOMAIN known : known[i] = known[j] => i = j
  /\ \A i, j \in Naming(s) : s[i].val.handle = s[j].val.handle => i = j
  /\ \A i \in Naming(s) : s[i].val.handle \notin Members(known)
  /\ Members(known) \cup Told(s) = hs

(* The manager takes a message: a handle that was told is known then.      *)
LEMMA MetTaken ==
  ASSUME NEW L, NEW s \in Seq(L), s # <<>>, NEW known \in Seq(Nat), NEW hs, MetOnce(s, known, hs),
         Head(s).type = "expanse" => Head(s).val.handle \in Nat
  PROVE  MetOnce(Tail(s), IF Head(s).type = "expanse" THEN Append(known, Head(s).val.handle)
                          ELSE known, hs)
<1>1. PICK n \in Nat : n = Len(s) /\ n # 0
  BY EmptySeq
<1>2. PICK t \in Seq(L) : /\ t = Tail(s) /\ DOMAIN t = 1 .. n - 1
                          /\ \A i \in 1 .. n - 1 : t[i] = s[i + 1]
  <2>1. /\ Tail(s) \in Seq(L) /\ Len(Tail(s)) = n - 1
        /\ \A i \in 1 .. Len(Tail(s)) : Tail(s)[i] = s[i + 1]
    BY <1>1, HeadTailProperties
  <2>2. PICK t \in Seq(L) : t = Tail(s)
    BY <2>1
  <2>3. Len(t) = n - 1 /\ \A i \in 1 .. Len(t) : t[i] = s[i + 1]
    BY <2>1, <2>2
  <2>4. DOMAIN t = 1 .. n - 1
    BY <2>3
  <2>5. QED
    BY <2>2, <2>3, <2>4
<1>3. DOMAIN s = 1 .. n /\ Head(s) = s[1]
  BY <1>1
<1>4. /\ \A i \in Naming(t) : i + 1 \in Naming(s) /\ s[i + 1] = t[i]
      /\ \A j \in Naming(s) : j = 1 \/ (j - 1 \in Naming(t) /\ t[j - 1] = s[j])
  <2>1. ASSUME NEW i \in 1 .. n - 1
        PROVE  i + 1 \in 1 .. n /\ t[i] = s[i + 1]
    BY <1>2
  <2>2. ASSUME NEW j \in 1 .. n, j # 1
        PROVE  j - 1 \in 1 .. n - 1 /\ t[j - 1] = s[j]
    <3>1. j - 1 \in 1 .. n - 1 /\ j - 1 + 1 = j
      BY <2>2
    <3>2. QED
      BY <2>1, <3>1
  <2>3. \A i \in Naming(t) : i + 1 \in Naming(s) /\ s[i + 1] = t[i]
    BY <1>2, <1>3, <2>1 DEF Naming
  <2>4. \A j \in Naming(s) : j = 1 \/ (j - 1 \in Naming(t) /\ t[j - 1] = s[j])
    BY <1>2, <1>3, <2>2 DEF Naming
  <2>5. QED
    BY <2>3, <2>4
<1>5. /\ Naming(s) \subseteq Nat /\ Naming(t) \subseteq 1 .. n - 1
      /\ 1 \in Naming(s) <=> Head(s).type = "expanse"
  BY <1>1, <1>2, <1>3 DEF Naming
<1>6. \A i, j \in Naming(t) : t[i].val.handle = t[j].val.handle => i = j
  <2>1. ASSUME NEW i \in Naming(t), NEW j \in Naming(t), t[i].val.handle = t[j].val.handle
        PROVE  i = j
    <3>1. i + 1 = j + 1
      BY <1>4, <2>1 DEF MetOnce
    <3>2. i \in Nat /\ j \in Nat
      BY <1>5
    <3>3. QED
      BY <3>1, <3>2
  <2>2. QED
    BY <2>1
<1>7. ASSUME Head(s).type # "expanse"
      PROVE  MetOnce(t, known, hs)
  <2>1. \A j \in Naming(s) : j # 1
    BY <1>5, <1>7
  <2>2. Told(t) = Told(s)
    <3>1. Told(t) \subseteq Told(s)
      BY <1>4 DEF Told
    <3>2. ASSUME NEW j \in Naming(s)
          PROVE  s[j].val.handle \in Told(t)
      <4>1. PICK i : i = j - 1 /\ i \in Naming(t) /\ t[i] = s[j]
        BY <1>4, <2>1
      <4>2. t[i].val.handle \in Told(t)
        BY <4>1 DEF Told
      <4>3. QED
        BY <4>1, <4>2
    <3>3. QED
      BY <3>1, <3>2 DEF Told
  <2>3. \A i \in Naming(t) : t[i].val.handle \notin Members(known)
    BY <1>4 DEF MetOnce
  <2>4. QED
    BY <1>6, <2>2, <2>3 DEF MetOnce
<1>8. ASSUME NEW h, h = Head(s).val.handle, Head(s).type = "expanse"
      PROVE  MetOnce(t, Append(known, h), hs)
  <2>1. PICK m \in Nat : m = Len(known)
    OBVIOUS
  <2>2. 1 \in Naming(s) /\ h \in Nat /\ h \in Told(s) /\ h \notin Members(known)
    BY <1>3, <1>5, <1>8 DEF MetOnce, Told
  <2>3. PICK k \in Seq(Nat) : /\ k = Append(known, h) /\ DOMAIN k = 1 .. m + 1
                              /\ k[m + 1] = h /\ \A i \in 1 .. m : k[i] = known[i]
    <3>1. Append(known, h) \in Seq(Nat)
      BY <2>2
    <3>2. PICK k \in Seq(Nat) : k = Append(known, h)
      BY <3>1
    <3>3. Len(k) = m + 1 /\ k[m + 1] = h /\ \A i \in 1 .. m : k[i] = known[i]
      BY <2>1, <2>2, <3>2, AppendProperties
    <3>4. DOMAIN k = 1 .. m + 1
      BY <3>3
    <3>5. QED
      BY <3>2, <3>3, <3>4
  <2>4. DOMAIN known = 1 .. m
    BY <2>1
  <2>5. Members(k) = Members(known) \cup {h}
    <3>1. 1 .. m + 1 = (1 .. m) \cup {m + 1}
      OBVIOUS
    <3>2. QED
      BY <2>3, <2>4, <3>1 DEF Members
  <2>6. \A i, j \in DOMAIN k : k[i] = k[j] => i = j
    <3>1. 1 .. m + 1 = (1 .. m) \cup {m + 1}
      OBVIOUS
    <3>2. \A i \in 1 .. m : k[i] # h
      BY <2>2, <2>3, <2>4 DEF Members
    <3>3. \A i, j \in 1 .. m : k[i] = k[j] => i = j
      BY <2>3, <2>4 DEF MetOnce
    <3>4. \A i, j \in (1 .. m) \cup {m + 1} : k[i] = k[j] => i = j
      BY <2>3, <3>2, <3>3, Zenon
    <3>5. QED
      BY <2>3, <3>1, <3>4
  <2>7. ASSUME NEW i \in Naming(t)
        PROVE  t[i].val.handle \notin Members(k)
    <3>1. i + 1 \in Naming(s) /\ s[i + 1] = t[i] /\ i + 1 # 1
      BY <1>4, <1>5
    <3>2. t[i].val.handle # h
      BY <1>3, <1>8, <2>2, <3>1 DEF MetOnce
    <3>3. t[i].val.handle \notin Members(known)
      BY <3>1 DEF MetOnce
    <3>4. QED
      BY <2>5, <3>2, <3>3
  <2>8. Told(s) = Told(t) \cup {h}
    <3>1. Told(t) \subseteq Told(s)
      BY <1>4 DEF Told
    <3>2. Told(s) \subseteq Told(t) \cup {h}
      BY <1>3, <1>4, <1>8 DEF Told
    <3>3. QED
      BY <2>2, <3>1, <3>2
  <2>9. Members(k) \cup Told(t) = hs
    BY <2>5, <2>8 DEF MetOnce
  <2>10. MetOnce(t, k, hs)
    BY <1>6, <2>6, <2>7, <2>9 DEF MetOnce
  <2>11. QED
    BY <2>3, <2>10
<1>9. QED
  BY <1>2, <1>7, <1>8

(* One message more.                                                       *)
LEMMA MetSent ==
  ASSUME NEW L, NEW s \in Seq(L), NEW known, NEW hs, MetOnce(s, known, hs), NEW m \in L,
         m.type = "expanse" => m.val.handle \notin hs
  PROVE  MetOnce(s \o <<m>>, known, IF m.type = "expanse" THEN hs \cup {m.val.handle} ELSE hs)
<1>1. PICK n \in Nat : n = Len(s)
  OBVIOUS
<1>2. PICK t \in Seq(L) : /\ t = s \o <<m>> /\ DOMAIN t = 1 .. n + 1
                          /\ t[n + 1] = m /\ \A i \in 1 .. n : t[i] = s[i]
  <2>1. s \o <<m>> = Append(s, m) /\ Append(s, m) \in Seq(L)
    BY AppendIsConcat
  <2>2. PICK t \in Seq(L) : t = Append(s, m)
    BY <2>1
  <2>3. Len(t) = n + 1 /\ t[n + 1] = m /\ \A i \in 1 .. n : t[i] = s[i]
    BY <1>1, <2>2, AppendProperties
  <2>4. QED
    BY <2>1, <2>2, <2>3
<1>3. DOMAIN s = 1 .. n /\ 1 .. n + 1 = (1 .. n) \cup {n + 1} /\ n + 1 \notin 1 .. n
  BY <1>1
<1>4. /\ \A i \in Naming(s) : i \in Naming(t) /\ t[i] = s[i] /\ i # n + 1
      /\ \A i \in Naming(t) : i = n + 1 \/ i \in Naming(s)
      /\ n + 1 \in Naming(t) <=> m.type = "expanse"
  BY <1>2, <1>3 DEF Naming
<1>5. ASSUME m.type # "expanse"
      PROVE  MetOnce(t, known, hs)
  <2>1. Naming(t) = Naming(s) /\ \A i \in Naming(t) : t[i] = s[i]
    BY <1>4, <1>5
  <2>2. Told(t) = Told(s)
    BY <2>1 DEF Told
  <2>3. QED
    BY <2>1, <2>2 DEF MetOnce
<1>6. ASSUME NEW h, h = m.val.handle, m.type = "expanse"
      PROVE  MetOnce(t, known, hs \cup {h})
  <2>1. h \notin Members(known) /\ h \notin Told(s)
    BY <1>6 DEF MetOnce
  <2>2. \A i \in Naming(s) : t[i].val.handle \in Told(s)
    BY <1>4 DEF Told
  <2>3. n + 1 \in Naming(t) /\ t[n + 1].val.handle = h
    BY <1>2, <1>4, <1>6
  <2>4. \A i, j \in Naming(t) : t[i].val.handle = t[j].val.handle => i = j
    <3>1. \A i, j \in Naming(s) : t[i].val.handle = t[j].val.handle => i = j
      BY <1>4 DEF MetOnce
    <3>2. QED
      BY <1>4, <2>1, <2>2, <2>3, <3>1
  <2>5. \A i \in Naming(t) : t[i].val.handle \notin Members(known)
    BY <1>4, <2>1, <2>3 DEF MetOnce
  <2>6. Told(t) = Told(s) \cup {h}
    <3>1. Told(t) \subseteq Told(s) \cup {h}
      BY <1>4, <2>2, <2>3 DEF Told
    <3>2. Told(s) \subseteq Told(t)
      BY <1>4 DEF Told
    <3>3. h \in Told(t)
      BY <2>3 DEF Told
    <3>4. QED
      BY <3>1, <3>2, <3>3
  <2>7. QED
    BY <2>4, <2>5, <2>6 DEF MetOnce
<1>7. QED
  BY <1>2, <1>5, <1>6

(***************************************************************************)
(* Every expanse is introduced to the manager, and none twice.             *)
(***************************************************************************)

MetInv ==
  /\ introduced \in Seq(Nat)
  /\ em = None => introduced = <<>>
  /\ em # None => MetOnce(wire[OrderCh], introduced, Handles)

(* What touches neither the orders nor the list keeps the invariant.       *)
LEMMA MetSame ==
  ASSUME MetInv, wire'[OrderCh] = wire[OrderCh], introduced' = introduced, em' = em,
         Handles' = Handles
  PROVE  MetInv'
BY DEF MetInv

(* The orders are messages of the orders' steps.                           *)
LEMMA OrdersAre ==
  ASSUME StepInv
  PROVE  /\ wire[OrderCh] \in Seq(Labels(OrderSteps))
         /\ \A e \in Exp : /\ Message("func", "init_expanse") \in Labels(OrderSteps)
                           /\ Message("expanse", e) \in Labels(OrderSteps)
         /\ Message("func", "handle_events") \in Labels(OrderSteps)
         /\ Message("bool", TRUE) \in Labels(OrderSteps)
<1>1. wire[OrderCh] \in Seq(Labels(OrderSteps))
  BY PathEnds DEF StepInv, Answering, Ordering
<1>2. /\ <<"register", Message("bool", TRUE), "serve">> \in OrderSteps
      /\ <<"serve", Message("func", "handle_events"), "serve">> \in OrderSteps
      /\ <<"serve", Message("func", "init_expanse"), "init_expanse">> \in OrderSteps
      /\ \A e \in Exp : <<"init_expanse", Message("expanse", e), "serve">> \in OrderSteps
  BY DEF OrderSteps
<1>3. QED
  BY <1>1, <1>2, Labelled

(* create_expanse tells the manager of the new expanse, if there is one.   *)
LEMMA MetCreate ==
  ASSUME StepInv, OwnInv, MetInv, R!create_expanse, UNCHANGED <<bearingVars, shinyVars>>
  PROVE  MetInv'
<1>1. introduced' = introduced /\ em' = em /\ Handles' = Handles \cup {count}
  BY CreateDoes, OwnCreate DEF bearingVars
<1>2. count \in Nat /\ count \notin Handles
  BY DEF StepInv, Typed, OwnInv, Distinct
<1>3. CASE em = None
  BY <1>1, <1>3 DEF MetInv
<1>4. CASE em # None
  <2>1. PICK L : L = Labels(OrderSteps)
    OBVIOUS
  <2>2. PICK s \in Seq(L) : s = wire[OrderCh]
    BY <2>1, OrdersAre
  <2>3. FreshExp \in Exp /\ FreshExp.handle = count
    BY <1>2 DEF FreshExp, Exp
  <2>4. PICK f \in L, x \in L : f = Message("func", "init_expanse") /\ x = Message("expanse", FreshExp)
    BY <2>1, <2>3, OrdersAre
  <2>5. f.type # "expanse" /\ x.type = "expanse" /\ x.val.handle = count
    BY <2>3, <2>4 DEF Message
  <2>6. wire'[OrderCh] = s \o <<f, x>>
    BY <1>4, <2>2, <2>4, CreateDoes
  <2>7. PICK a \in Seq(L), b \in Seq(L) : a = <<f>> /\ b = <<x>>
    <3>1. <<f>> \in Seq(L) /\ <<x>> \in Seq(L)
      OBVIOUS
    <3>2. QED
      BY <3>1
  <2>8. s \o <<f, x>> = (s \o a) \o b /\ s \o a \in Seq(L)
    <3>1. a \o b = <<f, x>>
      BY <2>7, Pair
    <3>2. (s \o a) \o b = s \o (a \o b)
      BY ConcatAssociative
    <3>3. QED
      BY <3>1, <3>2
  <2>9. PICK t \in Seq(L) : t = s \o a
    BY <2>8
  <2>10. MetOnce(s, introduced, Handles)
    BY <1>4, <2>2 DEF MetInv
  <2>11. MetOnce(t, introduced, Handles)
    BY <2>5, <2>7, <2>9, <2>10, MetSent
  <2>12. MetOnce(t \o <<x>>, introduced, Handles \cup {count})
    BY <1>2, <2>5, <2>11, MetSent
  <2>13. wire'[OrderCh] = t \o <<x>>
    BY <2>6, <2>7, <2>8, <2>9
  <2>14. MetOnce(wire'[OrderCh], introduced', Handles')
    BY <1>1, <2>12, <2>13
  <2>15. QED
    BY <1>1, <1>4, <2>14 DEF MetInv
<1>5. QED
  BY <1>3, <1>4

(* What rusk tells the manager when it has registered: the expanses of its *)
(* list, in its order.                                                     *)
LEMMA RegisteredAre ==
  ASSUME expanses \in Seq(Window), NEW n \in Nat, n = Len(expanses), NEW L, L = Labels(OrderSteps),
         \A e \in Exp : Message("func", "init_expanse") \in L /\ Message("expanse", e) \in L
  PROVE  /\ R!em_registered \in Seq(L) /\ Len(R!em_registered) = 2 * n
         /\ \A i \in 1 .. n : /\ R!em_registered[2 * i - 1].type = "func"
                              /\ R!em_registered[2 * i] = Message("expanse", expanses[i].exp)
         /\ \A j \in 1 .. 2 * n : \E i \in 1 .. n : j = 2 * i - 1 \/ j = 2 * i
<1>1. DOMAIN expanses = 1 .. n
  OBVIOUS
<1>2. ASSUME NEW i \in 1 .. n
      PROVE  /\ R!em_init_expanse(expanses[i]) \in Seq(L)
             /\ R!em_init_expanse(expanses[i])
                  = << Message("func", "init_expanse"), Message("expanse", expanses[i].exp) >>
  <2>1. expanses[i] \in Window
    BY <1>1
  <2>2. expanses[i].exp \in Exp
    BY <2>1 DEF Window
  <2>3. PICK f \in L, x \in L : f = Message("func", "init_expanse") /\ x = Message("expanse", expanses[i].exp)
    BY <2>2
  <2>4. R!em_init_expanse(expanses[i]) = <<f, x>>
    BY <2>3, RuskMessages DEF R!em_init_expanse
  <2>5. <<f, x>> \in Seq(L)
    OBVIOUS
  <2>6. QED
    BY <2>3, <2>4, <2>5
<1>3. PICK ss \in Seq(Seq(L)) : ss = [i \in DOMAIN expanses |-> R!em_init_expanse(expanses[i])]
  <2>1. [i \in 1 .. n |-> R!em_init_expanse(expanses[i])] \in [1 .. n -> Seq(L)]
    BY <1>2
  <2>2. [i \in 1 .. n |-> R!em_init_expanse(expanses[i])] \in Seq(Seq(L))
    BY <2>1
  <2>3. QED
    BY <1>1, <2>2
<1>4. Len(ss) = n /\ \A i \in 1 .. n : ss[i] = R!em_init_expanse(expanses[i])
  BY <1>1, <1>3
<1>5. ASSUME NEW i \in 1 .. n
      PROVE  /\ Len(ss[i]) = 2 /\ ss[i][1].type = "func"
             /\ ss[i][2] = Message("expanse", expanses[i].exp)
  <2>1. PICK f, x : f = Message("func", "init_expanse") /\ x = Message("expanse", expanses[i].exp)
    OBVIOUS
  <2>2. ss[i] = <<f, x>>
    BY <1>2, <1>4, <2>1
  <2>3. Len(<<f, x>>) = 2 /\ <<f, x>>[1] = f /\ <<f, x>>[2] = x
    OBVIOUS
  <2>4. f.type = "func"
    BY <2>1 DEF Message
  <2>5. QED
    BY <2>1, <2>2, <2>3, <2>4
<1>6. R!em_registered = FlattenSeq(ss)
  <2>1. R!FlattenSeq(ss) = FlattenSeq(ss)
    BY DEF R!FlattenSeq, FlattenSeq
  <2>2. R!em_registered = R!FlattenSeq(ss)
    BY <1>3 DEF R!em_registered
  <2>3. QED
    BY <2>1, <2>2
<1>7. FlattenSeq(ss) \in Seq(L) /\ Paired(FlattenSeq(ss), ss, n)
  BY <1>4, <1>5, FlattenPairs
<1>8. PICK q \in Seq(L) : q = R!em_registered
  BY <1>6, <1>7
<1>9. Paired(q, ss, n)
  BY <1>6, <1>7, <1>8
<1>10. ASSUME NEW i \in 1 .. n
       PROVE  q[2 * i - 1].type = "func" /\ q[2 * i] = Message("expanse", expanses[i].exp)
  BY <1>5, <1>9 DEF Paired
<1>11. Len(q) = 2 * n /\ \A j \in 1 .. 2 * n : \E i \in 1 .. n : j = 2 * i - 1 \/ j = 2 * i
  BY <1>9 DEF Paired
<1>12. QED
  BY <1>8, <1>10, <1>11

(* register_em tells him of all there are, each once.                      *)
LEMMA MetRegister ==
  ASSUME StepInv, OwnInv, MetInv, R!register_em, UNCHANGED <<bearingVars, shinyVars>>
  PROVE  MetInv'
<1>1. /\ introduced' = introduced /\ em = None /\ em' # None /\ expanses' = expanses
      /\ wire'[OrderCh] = <<>> \o (<< Message("bool", TRUE) >> \o R!em_registered)
  BY RegisterDoes, WireAssumption DEF bearingVars
<1>2. introduced = <<>> /\ Handles' = Handles
  BY <1>1, NotReordered, ReorderedSame DEF MetInv
<1>3. PICK L : L = Labels(OrderSteps)
  OBVIOUS
<1>4. PICK n \in Nat : n = Len(expanses) /\ DOMAIN expanses = 1 .. n
  BY DEF StepInv, Typed
<1>5. /\ \A e \in Exp : Message("func", "init_expanse") \in L /\ Message("expanse", e) \in L
      /\ Message("bool", TRUE) \in L
  BY <1>3, OrdersAre
<1>6. /\ R!em_registered \in Seq(L) /\ Len(R!em_registered) = 2 * n
      /\ \A i \in 1 .. n : /\ R!em_registered[2 * i - 1].type = "func"
                           /\ R!em_registered[2 * i] = Message("expanse", expanses[i].exp)
      /\ \A j \in 1 .. 2 * n : \E i \in 1 .. n : j = 2 * i - 1 \/ j = 2 * i
  BY <1>3, <1>4, <1>5, RegisteredAre DEF StepInv, Typed
<1>7. PICK q \in Seq(L) : q = R!em_registered
  BY <1>6
<1>8. PICK b \in L : b = Message("bool", TRUE)
  BY <1>5
<1>9. PICK r \in Seq(L) : r = <<b>> \o q
  <2>1. <<b>> \in Seq(L)
    OBVIOUS
  <2>2. <<b>> \o q \in Seq(L)
    BY <2>1
  <2>3. QED
    BY <2>2
<1>10. wire'[OrderCh] = r
  <2>1. <<>> \o r = r
    BY ConcatEmptySeq
  <2>2. QED
    BY <1>1, <1>7, <1>8, <1>9, <2>1
<1>11. /\ r[1] = b /\ \A i \in DOMAIN q : i + 1 \in DOMAIN r /\ r[i + 1] = q[i]
       /\ \A k \in DOMAIN r : k = 1 \/ (k - 1 \in DOMAIN q /\ r[k] = q[k - 1])
       /\ DOMAIN r = 1 .. Len(q) + 1
  BY <1>9, Prepended
<1>12. DOMAIN q = 1 .. 2 * n
  BY <1>6, <1>7
<1>13. \A k \in DOMAIN r : k \in Nat
  BY <1>7, <1>11
<1>14. ASSUME NEW i \in 1 .. n
       PROVE  /\ 2 * i + 1 \in Naming(r) /\ r[2 * i + 1].val.handle = expanses[i].exp.handle
              /\ 2 * i \in DOMAIN q /\ 2 * i - 1 \in DOMAIN q
  <2>1. 2 * i \in DOMAIN q /\ 2 * i - 1 \in DOMAIN q
    <3>1. 2 * i \in 1 .. 2 * n /\ 2 * i - 1 \in 1 .. 2 * n
      OBVIOUS
    <3>2. QED
      BY <1>12, <3>1
  <2>2. 2 * i + 1 \in DOMAIN r /\ r[2 * i + 1] = q[2 * i]
    BY <1>11, <2>1
  <2>3. q[2 * i] = Message("expanse", expanses[i].exp)
    BY <1>6, <1>7
  <2>4. q[2 * i].type = "expanse" /\ q[2 * i].val = expanses[i].exp
    BY <2>3 DEF Message
  <2>5. QED
    BY <2>1, <2>2, <2>4 DEF Naming
<1>15. ASSUME NEW k \in Naming(r)
       PROVE  \E i \in 1 .. n : k = 2 * i + 1
  <2>1. k \in DOMAIN r /\ r[k].type = "expanse" /\ k \in Nat
    BY <1>13 DEF Naming
  <2>2. b.type # "expanse"
    BY <1>8 DEF Message
  <2>3. PICK j : j = k - 1 /\ j \in DOMAIN q /\ r[k] = q[j]
    BY <1>11, <2>1, <2>2
  <2>4. PICK i \in 1 .. n : j = 2 * i - 1 \/ j = 2 * i
    BY <1>6, <1>12, <2>3
  <2>5. j # 2 * i - 1
    BY <1>6, <1>7, <2>1, <2>3
  <2>6. k = 2 * i + 1
    BY <2>1, <2>3, <2>4, <2>5
  <2>7. QED
    BY <2>6
<1>16. ASSUME NEW j \in Naming(r), NEW k \in Naming(r), r[j].val.handle = r[k].val.handle
       PROVE  j = k
  <2>1. PICK i \in 1 .. n : j = 2 * i + 1
    BY <1>15
  <2>2. PICK l \in 1 .. n : k = 2 * l + 1
    BY <1>15
  <2>3. expanses[i].exp.handle = expanses[l].exp.handle
    BY <1>14, <1>16, <2>1, <2>2
  <2>4. i = l
    BY <1>4, <2>3 DEF OwnInv, Distinct
  <2>5. QED
    BY <2>1, <2>2, <2>4
<1>17. Told(r) = Handles
  <2>1. ASSUME NEW k \in Naming(r)
        PROVE  r[k].val.handle \in Handles
    <3>1. PICK i \in 1 .. n : k = 2 * i + 1
      BY <1>15
    <3>2. r[k].val.handle = expanses[i].exp.handle
      BY <1>14, <3>1
    <3>3. QED
      BY <1>4, <3>2 DEF Handles
  <2>2. ASSUME NEW i \in 1 .. n
        PROVE  expanses[i].exp.handle \in Told(r)
    BY <1>14 DEF Told
  <2>3. Told(r) \subseteq Handles
    BY <2>1 DEF Told
  <2>4. Handles \subseteq Told(r)
    BY <1>4, <2>2 DEF Handles
  <2>5. QED
    BY <2>3, <2>4
<1>18. DOMAIN <<>> = {} /\ Members(<<>>) = {} /\ <<>> \in Seq(Nat)
  BY DEF Members
<1>19. MetOnce(r, <<>>, Handles)
  BY <1>16, <1>17, <1>18 DEF MetOnce
<1>20. MetOnce(wire'[OrderCh], introduced', Handles')
  BY <1>1, <1>2, <1>10, <1>19
<1>21. QED
  BY <1>1, <1>2, <1>18, <1>20 DEF MetInv

(* That there are events tells of no expanse.                              *)
LEMMA MetRead ==
  ASSUME StepInv, MetInv, R!process_events, UNCHANGED <<bearingVars, shinyVars>>
  PROVE  MetInv'
<1>1. introduced' = introduced /\ em' = em /\ Handles' = Handles
  BY ReadDoes, NotReordered, ReorderedSame DEF bearingVars
<1>2. CASE wire'[OrderCh] = wire[OrderCh]
  BY <1>1, <1>2, MetSame
<1>3. CASE wire'[OrderCh] = wire[OrderCh] \o << Message("func", "handle_events") >>
  <2>1. PICK L : L = Labels(OrderSteps)
    OBVIOUS
  <2>2. PICK s \in Seq(L), f \in L : s = wire[OrderCh] /\ f = Message("func", "handle_events")
    BY <2>1, OrdersAre
  <2>3. f.type # "expanse"
    BY <2>2 DEF Message
  <2>4. CASE em = None
    BY <1>1, <2>4 DEF MetInv
  <2>5. CASE em # None
    <3>1. MetOnce(s, introduced, Handles)
      BY <2>2, <2>5 DEF MetInv
    <3>2. MetOnce(s \o <<f>>, introduced, Handles)
      BY <2>3, <3>1, MetSent
    <3>3. MetOnce(wire'[OrderCh], introduced', Handles')
      BY <1>1, <1>3, <2>2, <3>2
    <3>4. QED
      BY <1>1, <2>5, <3>3 DEF MetInv
  <2>6. QED
    BY <2>4, <2>5
<1>4. QED
  BY <1>2, <1>3, ReadDoes

(* The manager comes to know what he is told, in its order.                *)
LEMMA MetBearing ==
  ASSUME StepInv, MetInv, B!Work, UNCHANGED <<ruskVars, shinyVars>>
  PROVE  MetInv'
<1>1. em' = em /\ Handles' = Handles
  BY BearingDoes, NotReordered, ReorderedSame
<1>2. CASE wire'[OrderCh] = wire[OrderCh] /\ introduced' = introduced
  BY <1>1, <1>2, MetSame
<1>3. ASSUME wire[OrderCh] # <<>>, wire'[OrderCh] = Tail(wire[OrderCh]),
             IF Head(wire[OrderCh]).type = "expanse"
             THEN introduced' = Append(introduced, Head(wire[OrderCh]).val.handle)
             ELSE introduced' = introduced
      PROVE  MetInv'
  <2>1. PICK L : L = Labels(OrderSteps)
    OBVIOUS
  <2>2. PICK s \in Seq(L) : s = wire[OrderCh] /\ s # <<>>
    BY <1>3, <2>1, OrdersAre
  <2>3. em # None
    <3>1. em = None => Path(OrderSteps, Turn, wire[OrderCh], "register")
      BY DEF StepInv, Answering, Ordering
    <3>2. QED
      BY <1>3, <3>1, Unregistered
  <2>4. PICK u : <<Turn, Head(s), u>> \in OrderSteps
    BY <2>2, PathHead DEF StepInv, Answering, Ordering
  <2>5. Head(s).type = "expanse" => Head(s).val.handle \in Nat
    <3>1. Head(s).type = "expanse" => Head(s).val \in Exp
      BY <2>4, OrderStep
    <3>2. QED
      BY <3>1 DEF Exp
  <2>6. introduced \in Seq(Nat) /\ MetOnce(s, introduced, Handles)
    BY <2>2, <2>3 DEF MetInv
  <2>7. MetOnce(Tail(s), IF Head(s).type = "expanse" THEN Append(introduced, Head(s).val.handle)
                         ELSE introduced, Handles)
    BY <2>2, <2>5, <2>6, MetTaken
  <2>8. introduced' = IF Head(s).type = "expanse" THEN Append(introduced, Head(s).val.handle)
                      ELSE introduced
    BY <1>3, <2>2
  <2>9. introduced' \in Seq(Nat)
    BY <2>5, <2>6, <2>8
  <2>10. MetOnce(wire'[OrderCh], introduced', Handles')
    BY <1>1, <1>3, <2>2, <2>7, <2>8
  <2>11. QED
    BY <1>1, <2>3, <2>9, <2>10 DEF MetInv
<1>4. QED
  BY <1>2, <1>3, BearingDoes

(* Every step of rusk keeps the invariant.                                 *)
LEMMA MetRusk ==
  ASSUME StepInv, OwnInv, MetInv, R!Work, UNCHANGED <<bearingVars, shinyVars>>
  PROVE  MetInv'
<1>0. introduced' = introduced
  BY DEF bearingVars
<1>1. ASSUME NEW id \in Programs, R!serve(id)
      PROVE  MetInv'
  BY <1>0, <1>1, ServeDoes, AskApart, ChannelsApart, NotReordered, ReorderedSame, MetSame
<1>2. CASE R!receive_data
  <2>1. UNCHANGED <<expanses, em>> /\ wire'[OrderCh] = wire[OrderCh]
    BY <1>2, ReceiveDoes, AskApart, ChannelsApart, OthersApart
  <2>2. QED
    BY <1>0, <2>1, NotReordered, ReorderedSame, MetSame
<1>3. CASE R!create_expanse
  BY <1>3, MetCreate
<1>4. CASE R!register_em
  BY <1>4, MetRegister
<1>5. CASE R!send_events
  <2>1. UNCHANGED <<expanses, em>> /\ wire'[OrderCh] = wire[OrderCh]
    BY <1>5, SendDoes, ChannelsApart, OthersApart
  <2>2. QED
    BY <1>0, <2>1, NotReordered, ReorderedSame, MetSame
<1>6. CASE R!reg_esys
  <2>1. UNCHANGED <<expanses, em, wire>>
    BY <1>6 DEF R!reg_esys, R!ruskVars
  <2>2. QED
    BY <1>0, <2>1, NotReordered, ReorderedSame, MetSame
<1>7. ASSUME R!remove_expanse \/ R!update_partial \/ R!update_expanse
               \/ R!set_decoration_buffers \/ R!bring_expanse_to_front
      PROVE  MetInv'
  <2>1. UNCHANGED <<wire, em>>
    BY <1>7, QuietDoes
  <2>2. Handles' = Handles
    BY <1>7, OwnRemove, OwnDraw, OwnUpdate, OwnDecorate, OwnFront, ReorderedSame
  <2>3. QED
    BY <1>0, <2>1, <2>2, MetSame
<1>8. QED
  BY <1>1, <1>2, <1>3, <1>4, <1>5, <1>6, <1>7 DEF R!Work, R!Programs, Programs

(* Every step of a program keeps it.                                       *)
LEMMA MetShiny ==
  ASSUME StepInv, OwnInv, MetInv, NEW c \in Clients, S!Work(c), UNCHANGED <<ruskVars, bearingVars>>
  PROVE  MetInv'
<1>1. introduced' = introduced /\ em' = em /\ expanses' = expanses
  BY DEF ruskVars, bearingVars
<1>2. wire'[OrderCh] = wire[OrderCh]
  BY CreatesDoes, HandledDoes, LoopDoes, ClientSends DEF S!Work
<1>3. QED
  BY <1>1, <1>2, NotReordered, ReorderedSame, MetSame

(* Every step of the window system keeps it.                               *)
LEMMA MetStep ==
  ASSUME StepInv, OwnInv, MetInv, [Orderly]_vars
  PROVE  MetInv'
<1>1. CASE RuskWorks
  BY <1>1, MetRusk DEF RuskWorks
<1>2. CASE RuskReads
  BY <1>2, MetRead DEF RuskReads
<1>3. CASE BearingWorks
  BY <1>3, MetBearing DEF BearingWorks
<1>4. ASSUME NEW c \in Clients, ShinyWorks(c)
      PROVE  MetInv'
  BY <1>4, MetShiny DEF ShinyWorks
<1>5. CASE UNCHANGED vars
  <2>1. UNCHANGED <<wire, expanses, em, introduced>>
    BY <1>5 DEF vars, wireVars, ruskVars, bearingVars
  <2>2. QED
    BY <2>1, NotReordered, ReorderedSame, MetSame
<1>6. QED
  BY <1>1, <1>2, <1>3, <1>4, <1>5 DEF Orderly

(* In the beginning the manager knows nobody.                              *)
LEMMA MetStarts == Init => MetInv
BY DEF Init, B!InitBearing, R!InitRusk, MetInv

(* The invariant says what is to be shown.                                 *)
LEMMA MetRight ==
  ASSUME MetInv
  PROVE  IntroducedOnce
<1> SUFFICES ASSUME em # None
             PROVE  /\ IsInjective(introduced)
                    /\ \A i, j \in Coming : Arriving[i].val.handle = Arriving[j].val.handle => i = j
                    /\ \A i \in Coming : Arriving[i].val.handle \notin Range(introduced)
                    /\ Range(introduced) \cup {Arriving[i].val.handle : i \in Coming}
                         = {expanses[i].exp.handle : i \in DOMAIN expanses}
  BY DEF IntroducedOnce
<1>1. Arriving = wire[OrderCh] /\ Coming = Naming(wire[OrderCh])
  BY DEF Arriving, Coming, Waiting, OrderCh, Naming
<1>2. MetOnce(wire[OrderCh], introduced, Handles)
  BY DEF MetInv
<1>3. Range(introduced) = Members(introduced)
  BY DEF Range, Members
<1>4. IsInjective(introduced)
  BY <1>2 DEF IsInjective, MetOnce
<1>5. QED
  BY <1>1, <1>2, <1>3, <1>4 DEF MetOnce, Told, Handles

(* Once the manager is registered, and until rusk first misses an          *)
(* argument, each expanse in the list has been introduced to it or is just *)
(* being introduced, and none is twice, however the registration falls     *)
(* among the creations (create_expanse and register_em of rusk_comm.c,     *)
(* init_expanse of bearing.c).  For any programs, any windows, any number  *)
(* of events.                                                              *)
THEOREM EachIntroducedOnce == Spec => []IntroducedOnce
<1>1. Init => astray \/ (StepInv /\ OwnInv /\ MetInv)
  BY StepStarts, OwnStarts, MetStarts
<1>2. /\ astray \/ (StepInv /\ OwnInv /\ MetInv)
      /\ [Next]_vars
      => astray' \/ (StepInv' /\ OwnInv' /\ MetInv')
  BY AstrayStays, OrderlyUntil, StepKept, OwnStep, MetStep
<1>3. astray \/ (StepInv /\ OwnInv /\ MetInv) => IntroducedOnce
  BY MetRight DEF IntroducedOnce
<1>4. QED
  BY <1>1, <1>2, <1>3, PTL DEF Spec

(***************************************************************************)
(* The order of the events.                                                *)
(***************************************************************************)

(***************************************************************************)
(* The line of the events: those that each program had, followed by those  *)
(* that are still to be given to somebody.                                 *)
(***************************************************************************)

Lined(had, rest, t) ==
  /\ had \in [Clients -> Events] /\ rest \in Events /\ t \in Nat
  /\ \A c \in Clients : /\ Ordered(had[c]) /\ Before(Ids(had[c]), Ids(rest))
                        /\ Ids(had[c]) \subseteq 0 .. t
  /\ Ordered(rest) /\ Ids(rest) \subseteq 0 .. t
  /\ \A c, d \in Clients : c # d => Ids(had[c]) \cap Ids(had[d]) = {}

(* The manager keeps some of them, or there is nobody to give them to.     *)
LEMMA LinedLess ==
  ASSUME NEW had, NEW rest, NEW t, Lined(had, rest, t),
         NEW r \in Events, Ordered(r), Ids(r) \subseteq Ids(rest)
  PROVE  Lined(had, r, t)
<1>1. \A c \in Clients : Before(Ids(had[c]), Ids(r))
  BY DEF Lined, Before
<1>2. Ids(r) \subseteq 0 .. t
  BY DEF Lined
<1>3. QED
  BY <1>1, <1>2 DEF Lined

(* A program is given the first of them.                                   *)
LEMMA LinedGiven ==
  ASSUME NEW had, NEW l \in Events, NEW r \in Events, NEW t, Lined(had, l \o r, t),
         NEW c \in Clients, NEW had2, had2 = [had EXCEPT ![c] = @ \o l]
  PROVE  Lined(had2, r, t)
<1>1. had \in [Clients -> Events] /\ t \in Nat
  BY DEF Lined
<1>2. Ordered(l) /\ Ordered(r) /\ Before(Ids(l), Ids(r)) /\ Ids(l \o r) = Ids(l) \cup Ids(r)
  BY OrderedCat DEF Lined
<1>3. /\ \A d \in Clients : /\ Ordered(had[d]) /\ Before(Ids(had[d]), Ids(l))
                            /\ Before(Ids(had[d]), Ids(r)) /\ Ids(had[d]) \subseteq 0 .. t
      /\ Ids(l) \subseteq 0 .. t /\ Ids(r) \subseteq 0 .. t
  BY <1>2 DEF Lined, Before
<1>4. had[c] \in Events
  BY <1>1
<1>5. PICK g \in Events : /\ g = had[c] \o l /\ Ordered(g) /\ Ids(g) = Ids(had[c]) \cup Ids(l)
  BY <1>2, <1>3, <1>4, OrderedCat
<1>6. /\ had2 \in [Clients -> Events] /\ had2[c] = g
      /\ \A d \in Clients : d # c => had2[d] = had[d]
  BY <1>1, <1>5
<1>7. \A d \in Clients : Ids(had[d]) \cap Ids(l) = {}
  <2>1. ASSUME NEW d \in Clients, NEW x \in Ids(had[d]), x \in Ids(l)
        PROVE  FALSE
    <3>1. x < x
      BY <1>3, <2>1 DEF Before
    <3>2. x \in 0 .. t
      BY <1>3, <2>1
    <3>3. QED
      BY <1>1, <3>1, <3>2
  <2>2. QED
    BY <2>1
<1>8. ASSUME NEW d \in Clients
      PROVE  /\ Ordered(had2[d]) /\ Before(Ids(had2[d]), Ids(r)) /\ Ids(had2[d]) \subseteq 0 .. t
  <2>1. CASE d = c
    <3>1. Before(Ids(had[c]) \cup Ids(l), Ids(r))
      BY <1>2, <1>3 DEF Before
    <3>2. Ids(had[c]) \cup Ids(l) \subseteq 0 .. t
      BY <1>3
    <3>3. QED
      BY <1>5, <1>6, <2>1, <3>1, <3>2
  <2>2. CASE d # c
    BY <1>3, <1>6, <2>2
  <2>3. QED
    BY <2>1, <2>2
<1>9. ASSUME NEW d \in Clients, NEW e \in Clients, d # e
      PROVE  Ids(had2[d]) \cap Ids(had2[e]) = {}
  <2>1. Ids(had[d]) \cap Ids(had[e]) = {}
    BY <1>9 DEF Lined
  <2>2. CASE d = c
    <3>1. had2[e] = had[e]
      BY <1>6, <1>9, <2>2
    <3>2. QED
      BY <1>5, <1>6, <1>7, <2>1, <2>2, <3>1
  <2>3. CASE e = c
    <3>1. had2[d] = had[d]
      BY <1>6, <1>9, <2>3
    <3>2. QED
      BY <1>5, <1>6, <1>7, <2>1, <2>3, <3>1
  <2>4. CASE d # c /\ e # c
    BY <1>6, <2>1, <2>4
  <2>5. QED
    BY <2>2, <2>3, <2>4
<1>10. QED
  BY <1>1, <1>2, <1>3, <1>6, <1>8, <1>9 DEF Lined

(* More is typed.                                                          *)
LEMMA LinedMore ==
  ASSUME NEW had, NEW rest, NEW t, Lined(had, rest, t),
         NEW u \in Nat, t <= u, NEW l \in Events, Ordered(l), Ids(l) \subseteq t + 1 .. u
  PROVE  Lined(had, rest \o l, u) /\ Lined(had, rest, u)
<1>1. had \in [Clients -> Events] /\ t \in Nat /\ rest \in Events
  BY DEF Lined
<1>2. 0 .. t \subseteq 0 .. u /\ t + 1 .. u \subseteq 0 .. u
  BY <1>1
<1>3. \A x \in 0 .. t, y \in t + 1 .. u : x < y
  BY <1>1
<1>4. Before(Ids(rest), Ids(l)) /\ \A c \in Clients : Before(Ids(had[c]), Ids(l))
  BY <1>3 DEF Lined, Before
<1>5. PICK g \in Events : /\ g = rest \o l /\ Ordered(g) /\ Ids(g) = Ids(rest) \cup Ids(l)
  BY <1>1, <1>4, OrderedCat DEF Lined
<1>6. \A c \in Clients : Ids(had[c]) \subseteq 0 .. u
  BY <1>2 DEF Lined
<1>7. Ids(rest) \subseteq 0 .. u /\ Ids(g) \subseteq 0 .. u
  BY <1>2, <1>5 DEF Lined
<1>8. \A c \in Clients : Before(Ids(had[c]), Ids(g))
  BY <1>4, <1>5 DEF Lined, Before
<1>9. QED
  BY <1>1, <1>5, <1>6, <1>7, <1>8 DEF Lined

(* The part in the middle becomes a part of itself.                        *)
LEMMA Sifted ==
  ASSUME NEW a \in Events, NEW l \in Events, NEW r \in Events, NEW m \in Events,
         Ordered(a \o (l \o r)), Ordered(l) => Ordered(m), Ids(m) \subseteq Ids(l)
  PROVE  /\ a \o (m \o r) \in Events /\ Ordered(a \o (m \o r))
         /\ Ids(a \o (m \o r)) \subseteq Ids(a \o (l \o r))
<1>1. PICK g \in Events : g = l \o r /\ Ids(g) = Ids(l) \cup Ids(r)
  BY OrderedCat
<1>2. Ordered(a) /\ Ordered(g) /\ Before(Ids(a), Ids(g)) /\ Ids(a \o g) = Ids(a) \cup Ids(g)
  BY <1>1, OrderedCat
<1>3. Ordered(l) /\ Ordered(r) /\ Before(Ids(l), Ids(r))
  BY <1>1, <1>2, OrderedCat
<1>4. Before(Ids(m), Ids(r))
  BY <1>3 DEF Before
<1>5. PICK k \in Events : k = m \o r /\ Ordered(k) /\ Ids(k) = Ids(m) \cup Ids(r)
  BY <1>3, <1>4, OrderedCat
<1>6. Ids(k) \subseteq Ids(g)
  BY <1>1, <1>5
<1>7. Before(Ids(a), Ids(k))
  BY <1>2, <1>6 DEF Before
<1>8. /\ a \o k \in Events /\ Ordered(a \o k) /\ Ids(a \o k) = Ids(a) \cup Ids(k)
  BY <1>2, <1>5, <1>7, OrderedCat
<1>9. QED
  BY <1>1, <1>2, <1>5, <1>6, <1>8


(***************************************************************************)
(* The invariant.                                                          *)
(***************************************************************************)

Had   == [c \in Clients |-> seen[c] \o EventsIn(wire[GiftCh(c)])]
Later == EventsIn(wire[SortedCh] \o Sorted(out[Bearing]))
Rest  == Taken \o (Later \o EventsIn(wire[ListCh]))

FlowInv ==
  out[Rusk] = <<>> /\ seen \in [Clients -> Events] /\ Lined(Had, Rest, typed)

(* A sequence is its first element and what follows.                       *)
LEMMA Headed ==
  ASSUME NEW L, NEW s \in Seq(L), s # <<>>
  PROVE  Head(s) \in L /\ Tail(s) \in Seq(L) /\ s = <<Head(s)>> \o Tail(s)
<1>1. PICK n \in Nat : n = Len(s) /\ n # 0 /\ DOMAIN s = 1 .. n
  BY EmptySeq
<1>2. PICK h \in L, t \in Seq(L) :
        /\ h = Head(s) /\ h = s[1] /\ t = Tail(s) /\ Len(t) = n - 1 /\ n - 1 \in Nat
        /\ \A i \in 1 .. n - 1 : t[i] = s[i + 1]
  <2>1. /\ Head(s) \in L /\ Tail(s) \in Seq(L) /\ Len(Tail(s)) = n - 1 /\ n - 1 \in Nat
        /\ \A i \in 1 .. n - 1 : Tail(s)[i] = s[i + 1]
    BY <1>1, HeadTailProperties
  <2>2. Head(s) = s[1]
    BY <1>1
  <2>3. QED
    BY <2>1, <2>2
<1>3. PICK u \in Seq(L) : u = <<h>> \o t
  <2>1. <<h>> \o t \in Seq(L)
    OBVIOUS
  <2>2. QED
    BY <2>1
<1>4. Len(u) = n /\ \A i \in 1 .. n : u[i] = IF i <= 1 THEN h ELSE t[i - 1]
  <2>1. <<h>> \in Seq(L) /\ Len(<<h>>) = 1 /\ <<h>>[1] = h
    OBVIOUS
  <2>2. PICK k \in Seq(L) : k = <<h>> /\ Len(k) = 1 /\ k[1] = h
    BY <2>1
  <2>3. Len(k \o t) = 1 + (n - 1) /\ \A i \in 1 .. 1 + (n - 1) : (k \o t)[i] = IF i <= 1 THEN k[i] ELSE t[i - 1]
    BY <1>2, <2>2, ConcatProperties
  <2>4. 1 + (n - 1) = n /\ \A i \in 1 .. n : i <= 1 => i = 1
    OBVIOUS
  <2>5. QED
    BY <1>3, <2>2, <2>3, <2>4
<1>5. ASSUME NEW i \in 1 .. n
      PROVE  u[i] = s[i]
  <2>1. CASE i = 1
    BY <1>2, <1>4, <2>1
  <2>2. CASE i # 1
    <3>1. i - 1 \in 1 .. n - 1 /\ ~(i <= 1) /\ (i - 1) + 1 = i
      BY <2>2
    <3>2. QED
      BY <1>2, <1>4, <3>1
  <2>3. QED
    BY <2>1, <2>2
<1>6. u = s
  BY <1>1, <1>4, <1>5, SeqEqual
<1>7. QED
  BY <1>2, <1>3, <1>6

(* What is in the channels, is posted and was taken.                       *)
LEMMA FlowTyped ==
  ASSUME StepInv
  PROVE  /\ \A c \in Clients : wire[GiftCh(c)] \in Seq(Carriers)
         /\ wire[SortedCh] \in Seq(Carriers) /\ wire[ListCh] \in Seq(Carriers)
         /\ out[Bearing] \in Seq(Posts) /\ Taken \in Events
<1>1. \A c \in Clients : wire[GiftCh(c)] \in Seq(Labels(GivenSteps))
  BY DEF StepInv, Answering, Giving, Path
<1>2. wire[SortedCh] \in Seq(Labels(SortedSteps)) /\ wire[ListCh] \in Seq(Labels(ListSteps))
  BY DEF StepInv, Answering, Listing, Sorting, Path
<1>3. /\ Labels(GivenSteps) \subseteq Carriers /\ Labels(SortedSteps) \subseteq Carriers
      /\ Labels(ListSteps) \subseteq Carriers
  BY DEF Carriers
<1>4. out[Bearing] \in Seq(Posts)
  <2>1. CASE em = None
    <3>1. \/ out[Bearing] = <<>>
          \/ out[Bearing] = << Posting(ES_COMM_PORT, RegisterFunc) >>
      BY <2>1 DEF StepInv, Registering
    <3>2. PICK x \in Posts : x = Posting(ES_COMM_PORT, RegisterFunc)
      BY DEF Posts
    <3>3. <<x>> \in Seq(Posts) /\ <<>> \in Seq(Posts)
      OBVIOUS
    <3>4. QED
      BY <3>1, <3>2, <3>3
  <2>2. CASE em # None
    <3>1. Asks(Bearing, Left(Bearing), wire[AskCh(Bearing)], out[Bearing])
      BY <2>2, ChannelsApart DEF StepInv, Asking
    <3>2. out[Bearing] \in Seq(Labels(OutSteps(Bearing)))
      BY <3>1, AskSeq
    <3>3. Labels(OutSteps(Bearing)) \subseteq Posts
      BY DEF Posts
    <3>4. QED
      BY <3>2, <3>3, SeqMonotonic
  <2>3. QED
    BY <2>1, <2>2
<1>5. Taken \in Events
  <2>1. CASE req.func = "send_events" /\ req.got # <<>>
    <3>1. /\ req.func \in Funcs(req.id) /\ Progress("send_events", req.id, req.want, req.got)
      <4>1. req # R!Idle /\ req # Registration
        BY <2>1 DEF R!Idle, Registration
      <4>2. QED
        BY <2>1, <4>1 DEF StepInv, RequestRight
    <3>2. R!Args["send_events"] = <<"events">> /\ Head(<<"events">>) = "events" /\ Len(<<"events">>) # 2
      BY ArgsSpelled, HeadsSpelled
    <3>3. \E v \in Values(req.id, "events") : req.got = <<v>>
      BY <2>1, <3>1, <3>2 DEF Progress
    <3>4. req.got[1] \in Events
      BY <3>3, ValuesSpelled, HeadsSpelled
    <3>5. QED
      BY <2>1, <3>4 DEF Taken
  <2>2. CASE ~(req.func = "send_events" /\ req.got # <<>>)
    BY <2>2, OrderedShort DEF Taken
  <2>3. QED
    BY <2>1, <2>2
<1>6. QED
  BY <1>1, <1>2, <1>3, <1>4, <1>5, SeqMonotonic

(* The events in the channels.                                             *)
LEMMA FlowEvents ==
  ASSUME StepInv
  PROVE  /\ \A c \in Clients : EventsIn(wire[GiftCh(c)]) \in Events
         /\ Later = EventsIn(wire[SortedCh]) \o EventsIn(Sorted(out[Bearing]))
         /\ EventsIn(wire[SortedCh]) \in Events /\ EventsIn(Sorted(out[Bearing])) \in Events
         /\ Later \in Events /\ EventsIn(wire[ListCh]) \in Events
<1>1. Sorted(out[Bearing]) \in Seq(Carriers)
  BY FlowTyped, SortedCat
<1>2. /\ \A c \in Clients : EventsIn(wire[GiftCh(c)]) \in Events
      /\ EventsIn(wire[SortedCh]) \in Events /\ EventsIn(Sorted(out[Bearing])) \in Events
      /\ EventsIn(wire[ListCh]) \in Events
  BY <1>1, FlowTyped, EventsCat
<1>3. Later = EventsIn(wire[SortedCh]) \o EventsIn(Sorted(out[Bearing]))
  BY <1>1, FlowTyped, EventsCat DEF Later
<1>4. Later \in Events
  BY <1>2, <1>3, OrderedCat
<1>5. QED
  BY <1>2, <1>3, <1>4

(* What is to be left alone for nothing to move.                           *)
LEMMA HadStays ==
  ASSUME seen' = seen, \A c \in Clients : wire'[GiftCh(c)] = wire[GiftCh(c)]
  PROVE  Had' = Had
BY Zenon DEF Had

(* The same for what is still to be given.                                 *)
LEMMA RestStays ==
  ASSUME Taken' = Taken, wire'[SortedCh] = wire[SortedCh], wire'[ListCh] = wire[ListCh],
         out'[Bearing] = out[Bearing]
  PROVE  Rest' = Rest
BY DEF Rest, Later

(* Then the invariant stays too.                                           *)
LEMMA FlowStays ==
  ASSUME FlowInv, out'[Rusk] = <<>>, seen' \in [Clients -> Events], Had' = Had, Rest' = Rest,
         typed' = typed
  PROVE  FlowInv'
BY DEF FlowInv

(* Two messages, of which the second carries events.                       *)
LEMMA SecondCarries ==
  ASSUME NEW s \in Seq(Carriers), s # <<>>, Tail(s) # <<>>, s[1] = Head(s), s[2] = Head(Tail(s)),
         NEW r, r = Tail(Tail(s)), s[1].type # "events", s[2].type = "events"
  PROVE  /\ s[2].val \in Events /\ EventsIn(r) \in Events
         /\ EventsIn(s) = s[2].val \o EventsIn(r)
<1>0. /\ Head(s) \in Carriers /\ Tail(s) \in Seq(Carriers) /\ s = <<Head(s)>> \o Tail(s)
      /\ Head(Tail(s)) \in Carriers /\ Tail(Tail(s)) \in Seq(Carriers)
      /\ Tail(s) = <<Head(Tail(s))>> \o Tail(Tail(s))
  BY Headed, Zenon
<1>1. PICK a \in Carriers, t \in Seq(Carriers) : a = s[1] /\ t = Tail(s) /\ s = <<a>> \o t
  BY <1>0, Zenon
<1>2. PICK b \in Carriers : b = s[2] /\ r \in Seq(Carriers) /\ t = <<b>> \o r
  BY <1>0, <1>1, Zenon
<1>3. <<a>> \in Seq(Carriers) /\ <<b>> \in Seq(Carriers)
  OBVIOUS
<1>4. EventsIn(<<a>>) = <<>> /\ EventsIn(<<b>>) = b.val
  <2>1. EventsOf[a] = <<>> /\ EventsOf[b] = b.val
    BY <1>1, <1>2 DEF EventsOf
  <2>2. QED
    BY <2>1, EventsCat
<1>5. EventsIn(<<b>>) \in Events /\ EventsIn(r) \in Events /\ EventsIn(t) \in Events
  BY <1>2, <1>3, EventsCat
<1>6. EventsIn(s) = <<>> \o EventsIn(t) /\ EventsIn(t) = b.val \o EventsIn(r)
  BY <1>1, <1>2, <1>3, <1>4, EventsCat, Zenon
<1>7. <<>> \o EventsIn(t) = EventsIn(t)
  <2>1. PICK e \in Seq(Typing) : e = EventsIn(t)
    BY <1>5 DEF Events, Typing
  <2>2. <<>> \o e = e
    BY ConcatEmptySeq
  <2>3. QED
    BY <2>1, <2>2
<1>8. QED
  BY <1>2, <1>4, <1>5, <1>6, <1>7


(* Joining lists of events.                                                *)
LEMMA EventsJoin ==
  /\ \A a, b \in Events : a \o b \in Events
  /\ \A a \in Events : <<>> \o a = a /\ a \o <<>> = a
  /\ \A a, b, c \in Events : a \o (b \o c) = (a \o b) \o c
<1>1. PICK T : T = Typing /\ Events = Seq(T)
  BY DEF Events, Typing
<1>2. \A a, b, c \in Seq(T) : a \o (b \o c) = (a \o b) \o c
  BY Regrouped
<1>3. \A a \in Seq(T) : <<>> \o a = a /\ a \o <<>> = a
  BY ConcatEmptySeq
<1>4. \A a, b \in Seq(T) : a \o b \in Seq(T)
  BY ConcatProperties
<1>5. QED
  BY <1>1, <1>2, <1>3, <1>4

(* What the events of an end of a channel are.                             *)
LEMMA PairCarries ==
  ASSUME NEW s \in Seq(Carriers), NEW a \in Carriers, NEW b \in Carriers,
         EventsOf[a] = <<>>
  PROVE  EventsIn(s \o <<a, b>>) = EventsIn(s) \o EventsOf[b]
<1>1. <<a>> \in Seq(Carriers) /\ <<b>> \in Seq(Carriers) /\ <<a, b>> \in Seq(Carriers)
  OBVIOUS
<1>2. <<a, b>> = <<a>> \o <<b>>
  BY Pair
<1>3. EventsIn(<<a, b>>) = <<>> \o EventsOf[b]
  BY <1>1, <1>2, EventsCat, Zenon
<1>4. EventsOf[b] \in Events
  BY CarriersCarry DEF Events, Typing
<1>5. EventsIn(<<a, b>>) = EventsOf[b]
  BY <1>3, <1>4, EventsJoin
<1>6. QED
  BY <1>1, <1>5, EventsCat, Zenon

(* send_events: the events that were taken go to a program, or to nobody.  *)
LEMMA FlowSend ==
  ASSUME StepInv, FlowInv, R!send_events, UNCHANGED <<bearingVars, shinyVars>>
  PROVE  FlowInv'
<1>1. /\ req.want = <<>> /\ req.func = "send_events" /\ req' = R!Idle /\ out' = out
  BY SendDoes
<1>2. seen' = seen /\ typed' = typed
  BY DEF shinyVars, R!send_events, R!Done
<1>3. PICK l \in Events : l = req.got[1] /\ l = Taken
  <2>1. req.got[1] \in Events
    BY <1>1, Arguments DEF StepInv
  <2>2. req.got # <<>>
    <3>1. Progress("send_events", req.id, <<>>, req.got)
      BY <1>1, Asker DEF StepInv
    <3>2. R!Args["send_events"] = <<"events">>
      BY ArgsSpelled
    <3>3. QED
      BY <3>1, <3>2, HeadsSpelled DEF Progress
  <2>3. QED
    BY <1>1, <2>1, <2>2 DEF Taken
<1>4. Taken' = <<>>
  BY <1>1 DEF Taken, R!Idle
<1>5. PICK r \in Events : r = Later \o EventsIn(wire[ListCh])
  BY FlowEvents, EventsJoin
<1>6. Rest = l \o r
  BY <1>3, <1>5 DEF Rest
<1>7. ASSUME wire'[SortedCh] = wire[SortedCh], wire'[ListCh] = wire[ListCh]
      PROVE  Rest' = r
  <2>1. Rest' = <<>> \o r
    BY <1>1, <1>4, <1>5, <1>7 DEF Rest, Later
  <2>2. QED
    BY <2>1, EventsJoin
<1>8. Lined(Had, l \o r, typed) /\ out[Rusk] = <<>> /\ seen \in [Clients -> Events]
  BY <1>6 DEF FlowInv
<1>9. CASE UNCHANGED wire
  <2>1. Had' = Had /\ Rest' = r
    BY <1>2, <1>7, <1>9, HadStays
  <2>2. l \o r \in Events /\ Ordered(r) /\ Ids(r) \subseteq Ids(l \o r)
    BY <1>8, OrderedCat DEF Lined
  <2>3. Lined(Had, r, typed)
    BY <1>8, <2>2, LinedLess
  <2>4. QED
    BY <1>1, <1>2, <1>8, <2>1, <2>3 DEF FlowInv
<1>10. ASSUME NEW c \in Clients, NEW h \in Nat,
              wire'[GiftCh(c)] = wire[GiftCh(c)] \o << Message("handle", h), Message("events", l) >>,
              \A ch \in Channels : ch # GiftCh(c) => wire'[ch] = wire[ch]
       PROVE  FlowInv'
  <2>1. PICK g \in Seq(Carriers) : g = wire[GiftCh(c)]
    BY FlowTyped
  <2>2. PICK a \in Carriers, b \in Carriers :
          a = Message("handle", h) /\ b = Message("events", l) /\ EventsOf[a] = <<>> /\ EventsOf[b] = l
    BY CarriersCarry
  <2>3. EventsIn(wire'[GiftCh(c)]) = EventsIn(g) \o l
    BY <1>10, <2>1, <2>2, PairCarries
  <2>4. EventsIn(g) \in Events /\ seen[c] \in Events
    BY <1>8, <2>1, FlowEvents
  <2>5. seen'[c] \o EventsIn(wire'[GiftCh(c)]) = Had[c] \o l
    <3>1. Had[c] = seen[c] \o EventsIn(g)
      BY <2>1 DEF Had
    <3>2. seen[c] \o (EventsIn(g) \o l) = (seen[c] \o EventsIn(g)) \o l
      BY <2>4, EventsJoin
    <3>3. QED
      BY <1>2, <2>3, <3>1, <3>2
  <2>6. \A d \in Clients : d # c => GiftCh(d) \in Channels /\ wire'[GiftCh(d)] = wire[GiftCh(d)]
    BY <1>10, ChannelsApart, OthersApart
  <2>7. Had' = [Had EXCEPT ![c] = @ \o l]
    <3>1. \A d \in Clients : d # c => seen'[d] \o EventsIn(wire'[GiftCh(d)]) = Had[d]
      BY <1>2, <2>6 DEF Had
    <3>2. DOMAIN Had = Clients
      BY DEF Had
    <3>3. Had' = [d \in Clients |-> seen'[d] \o EventsIn(wire'[GiftCh(d)])]
      BY DEF Had
    <3>4. [Had EXCEPT ![c] = @ \o l] = [d \in Clients |-> IF d = c THEN Had[c] \o l ELSE Had[d]]
      BY <3>2, Zenon
    <3>5. \A d \in Clients : seen'[d] \o EventsIn(wire'[GiftCh(d)]) = IF d = c THEN Had[c] \o l ELSE Had[d]
      BY <2>5, <3>1
    <3>6. QED
      BY <3>3, <3>4, <3>5, Zenon
  <2>8. Rest' = r
    BY <1>7, <1>10, ChannelsApart, OthersApart
  <2>9. Lined(Had', r, typed)
    BY <1>8, <2>7, LinedGiven
  <2>10. QED
    BY <1>1, <1>2, <1>8, <2>8, <2>9 DEF FlowInv
<1>11. \/ UNCHANGED wire
       \/ \E c \in Clients : \E h \in Nat :
            /\ wire'[GiftCh(c)] = wire[GiftCh(c)] \o << Message("handle", h), Message("events", l) >>
            /\ \A ch \in Channels : ch # GiftCh(c) => wire'[ch] = wire[ch]
  <2>1. \A i \in DOMAIN expanses : expanses[i].exp.handle \in Nat
    <3>1. expanses \in Seq(Window)
      BY DEF StepInv, Typed
    <3>2. \A i \in DOMAIN expanses : expanses[i] \in Window
      BY <3>1
    <3>3. QED
      BY <3>2 DEF Window, Exp
  <2>2. CASE UNCHANGED wire
    BY <2>2
  <2>3. \/ UNCHANGED wire
        \/ \E i \in DOMAIN expanses : \E k \in Events :
             /\ expanses[i].pid \in Clients /\ k = req.got[1]
             /\ wire'[GiftCh(expanses[i].pid)] = wire[GiftCh(expanses[i].pid)] \o
                  << Message("handle", expanses[i].exp.handle), Message("events", k) >>
             /\ \A ch \in Channels : ch # GiftCh(expanses[i].pid) => wire'[ch] = wire[ch]
    BY SendDoes, Zenon
  <2>4. ASSUME NEW i \in DOMAIN expanses, NEW k \in Events,
               expanses[i].pid \in Clients, k = req.got[1],
               wire'[GiftCh(expanses[i].pid)] = wire[GiftCh(expanses[i].pid)] \o
                  << Message("handle", expanses[i].exp.handle), Message("events", k) >>,
               \A ch \in Channels : ch # GiftCh(expanses[i].pid) => wire'[ch] = wire[ch]
        PROVE  \E d \in Clients : \E h \in Nat :
                 /\ wire'[GiftCh(d)] = wire[GiftCh(d)] \o << Message("handle", h), Message("events", l) >>
                 /\ \A ch \in Channels : ch # GiftCh(d) => wire'[ch] = wire[ch]
    BY <1>3, <2>1, <2>4
  <2>5. QED
    BY <2>2, <2>3, <2>4, Zenon
<1>12. QED
  BY <1>9, <1>10, <1>11

(* receive_data: the events move from the channel to the request.          *)
LEMMA FlowReceive ==
  ASSUME StepInv, FlowInv, R!receive_data, UNCHANGED <<bearingVars, shinyVars>>, out'[Rusk] = <<>>
  PROVE  FlowInv'
<1>1. seen' = seen /\ typed' = typed /\ seen \in [Clients -> Events]
  BY DEF shinyVars, R!receive_data, FlowInv
<1>2. Bearing \in Askers
  BY ChannelsApart
<1>4. ASSUME req.func = "send_events", req'.func = "send_events", req.got = <<>>,
             wire[SortedCh] # <<>>, req'.got = << Head(wire[SortedCh]).val >>,
             wire'[SortedCh] = Tail(wire[SortedCh]), \A p \in Askers : out'[p] = out[p],
             \A ch \in Channels : ch # SortedCh => wire'[ch] = wire[ch]
      PROVE  FlowInv'
  <2>1. PICK s \in Seq(Carriers) : s = wire[SortedCh] /\ s # <<>>
    BY <1>4, FlowTyped
  <2>2. PICK m \in Carriers, t \in Seq(Carriers) : m = Head(s) /\ t = Tail(s) /\ s = <<m>> \o t
    BY <2>1, Headed, Zenon
  <2>3. PICK l \in Events : m = Message("events", l)
    <3>1. PICK u \in States : <<"events", Head(s), u>> \in SortedSteps
      BY <2>1, PathHead DEF StepInv, Answering, Sorting
    <3>2. PICK l \in Events : <<"events", Head(s), u>> = <<"events", Message("events", l), "events">>
      BY <3>1 DEF SortedSteps
    <3>3. QED
      BY <2>2, <3>2, Triple
  <2>4. EventsOf[m] = l /\ m.val = l
    BY <2>3, CarriersCarry DEF Message
  <2>5. Taken = <<>> /\ Taken' = l
    BY <1>4, <2>1, <2>2, <2>4, HeadsSpelled DEF Taken
  <2>6. PICK y \in Events, o \in Events, e \in Events :
          y = EventsIn(t) /\ o = EventsIn(Sorted(out[Bearing])) /\ e = EventsIn(wire[ListCh])
    BY FlowEvents, EventsCat
  <2>7. EventsIn(s) = l \o y
    <3>1. <<m>> \in Seq(Carriers)
      OBVIOUS
    <3>2. EventsIn(<<m>>) = l
      BY <2>4, EventsCat
    <3>3. EventsIn(<<m>> \o t) = EventsIn(<<m>>) \o EventsIn(t)
      BY <3>1, EventsCat
    <3>4. QED
      BY <2>2, <2>6, <3>2, <3>3
  <2>8. Rest = <<>> \o (((l \o y) \o o) \o e)
    BY <2>1, <2>5, <2>6, <2>7, FlowEvents, Zenon DEF Rest
  <2>9. out'[Bearing] = out[Bearing] /\ wire'[ListCh] = wire[ListCh] /\ wire'[SortedCh] = t
    BY <1>2, <1>4, <2>1, <2>2, ChannelsApart, OthersApart
  <2>10. Later' = y \o o
    <3>1. Later' = EventsIn(t \o Sorted(out[Bearing]))
      BY <2>9, Zenon DEF Later
    <3>2. Sorted(out[Bearing]) \in Seq(Carriers)
      BY FlowTyped, SortedCat
    <3>3. QED
      BY <2>6, <3>1, <3>2, EventsCat, Zenon
  <2>11. Rest' = l \o ((y \o o) \o e)
    BY <2>5, <2>6, <2>9, <2>10, Zenon DEF Rest
  <2>12. <<>> \o (((l \o y) \o o) \o e) = l \o ((y \o o) \o e)
    <3>1. PICK yo \in Events, ly \in Events : yo = y \o o /\ ly = l \o y
      BY EventsJoin
    <3>2. ly \o o = l \o yo
      BY <3>1, EventsJoin
    <3>3. (l \o yo) \o e = l \o (yo \o e) /\ (l \o yo) \o e \in Events
      BY <3>1, EventsJoin
    <3>4. <<>> \o ((l \o yo) \o e) = (l \o yo) \o e
      BY <3>3, EventsJoin
    <3>5. QED
      BY <3>1, <3>2, <3>3, <3>4
  <2>13. Rest' = Rest
    BY <2>8, <2>11, <2>12
  <2>14. Had' = Had
    BY <1>1, <1>4, ChannelsApart, OthersApart, HadStays
  <2>15. QED
    BY <1>1, <2>13, <2>14, FlowStays
<1>5. ASSUME NEW p \in Askers, NEW m, req.func # "send_events", req'.func = req.func,
             \A ch \in Channels : ch # AskCh(p) => wire'[ch] = wire[ch],
             \A q \in Askers : out'[q] = out[q]
      PROVE  FlowInv'
  <2>1. Taken' = Taken
    BY <1>5 DEF Taken
  <2>2. /\ wire'[SortedCh] = wire[SortedCh] /\ wire'[ListCh] = wire[ListCh]
        /\ out'[Bearing] = out[Bearing] /\ \A c \in Clients : wire'[GiftCh(c)] = wire[GiftCh(c)]
    BY <1>2, <1>5, AskApart, ChannelsApart
  <2>3. Had' = Had /\ Rest' = Rest
    BY <1>1, <2>1, <2>2, HadStays, RestStays
  <2>4. QED
    BY <1>1, <2>3, FlowStays
<1>6. \/ /\ req.func = "send_events" /\ req'.func = "send_events" /\ req.got = <<>>
         /\ wire[SortedCh] # <<>> /\ req'.got = << Head(wire[SortedCh]).val >>
         /\ wire'[SortedCh] = Tail(wire[SortedCh]) /\ \A p \in Askers : out'[p] = out[p]
         /\ \A ch \in Channels : ch # SortedCh => wire'[ch] = wire[ch]
      \/ \E p \in Askers : \E m :
         /\ req.func # "send_events"
         /\ req' = [func |-> req.func, id |-> p, want |-> Tail(req.want), got |-> Append(req.got, m.val)]
         /\ \A ch \in Channels : ch # AskCh(p) => wire'[ch] = wire[ch]
         /\ \A q \in Askers : out'[q] = out[q]
  BY ReceiveDoes, Zenon
<1>7. QED
  BY <1>4, <1>5, <1>6


(* process_events: what is typed comes last, or is forgotten.              *)
LEMMA FlowRead ==
  ASSUME StepInv, FlowInv, R!process_events, UNCHANGED <<bearingVars, shinyVars>>
  PROVE  FlowInv'
<1>1. /\ UNCHANGED <<out, expanses, em, req>> /\ seen' = seen
      /\ \A ch \in Channels : ch # OrderCh /\ ch # ListCh => wire'[ch] = wire[ch]
  BY ReadDoes DEF shinyVars
<1>2. /\ DOMAIN wire = Channels /\ em \in {None, Bearing} /\ typed \in Nat /\ expanses \in Seq(Window)
  BY DEF StepInv, Typed
<1>3. PICK n \in 1 .. MaxBatch : \E kinds \in [1 .. n -> Kinds] :
        /\ typed' = typed + n
        /\ R!handle_events([i \in 1 .. n |-> [id |-> typed + i, kind |-> kinds[i]]])
  BY DEF R!process_events
<1>4. PICK kinds \in [1 .. n -> Kinds] :
        /\ typed' = typed + n
        /\ R!handle_events([i \in 1 .. n |-> [id |-> typed + i, kind |-> kinds[i]]])
  BY <1>3
<1>5. n \in Nat /\ typed' \in Nat /\ typed <= typed'
  BY <1>2, <1>4
<1>6. PICK l : l = [i \in 1 .. n |-> [id |-> typed + i, kind |-> kinds[i]]]
  OBVIOUS
<1>7. l \in Events /\ Ordered(l) /\ Ids(l) \subseteq typed + 1 .. typed'
  <2>1. \A i \in 1 .. n : typed + i \in Nat /\ typed + i \in typed + 1 .. typed'
    BY <1>2, <1>4, <1>5
  <2>2. \A i \in 1 .. n : [id |-> typed + i, kind |-> kinds[i]] \in Typing
    BY <2>1 DEF Typing
  <2>3. l \in [1 .. n -> Typing]
    BY <1>6, <2>2
  <2>4. l \in Seq(Typing)
    BY <1>5, <2>3, SeqDef
  <2>5. DOMAIN l = 1 .. n /\ \A i \in 1 .. n : l[i].id = typed + i
    BY <1>6
  <2>6. \A i, j \in 1 .. n : i < j => typed + i < typed + j
    BY <1>2
  <2>7. Ordered(l)
    BY <2>5, <2>6 DEF Ordered
  <2>8. Ids(l) \subseteq typed + 1 .. typed'
    BY <2>1, <2>5 DEF Ids
  <2>9. QED
    BY <2>4, <2>7, <2>8 DEF Events, Typing
<1>8. /\ out'[Rusk] = <<>> /\ seen' \in [Clients -> Events] /\ Lined(Had, Rest, typed)
  BY <1>1 DEF FlowInv
<1>9. Had' = Had
  BY <1>1, ChannelsApart, OthersApart, HadStays
<1>10. Lined(Had, Rest \o l, typed') /\ Lined(Had, Rest, typed')
  BY <1>5, <1>7, <1>8, LinedMore
<1>11. Taken' = Taken /\ Later' = Later
  <2>1. Taken' = Taken
    BY <1>1 DEF Taken
  <2>2. wire'[SortedCh] = wire[SortedCh]
    BY <1>1, ChannelsApart, OthersApart
  <2>3. QED
    BY <1>1, <2>1, <2>2 DEF Later
<1>12. CASE em = None
  <2>1. wire' = wire
    BY <1>4, <1>12 DEF R!handle_events, R!Delivers
  <2>2. Rest' = Rest
    BY <1>1, <1>11, <2>1, RestStays
  <2>3. QED
    BY <1>8, <1>9, <1>10, <2>2 DEF FlowInv
<1>13. CASE em # None
  <2>1. em = Bearing
    BY <1>2, <1>13
  <2>2. PICK list : list = [i \in DOMAIN expanses |-> expanses[i].exp]
    OBVIOUS
  <2>3. list \in Seq(Exp)
    <3>1. \A i \in DOMAIN expanses : expanses[i].exp \in Exp
      <4>1. \A i \in DOMAIN expanses : expanses[i] \in Window
        BY <1>2
      <4>2. QED
        BY <4>1 DEF Window
    <3>2. PICK k \in Nat : k = Len(expanses) /\ DOMAIN expanses = 1 .. k
      BY <1>2
    <3>3. list \in [1 .. k -> Exp]
      BY <2>2, <3>1, <3>2
    <3>4. QED
      BY <3>2, <3>3, SeqDef
  <2>4. PICK s, t : /\ s = << Message("func", "handle_events") >>
                    /\ t = << Message("list", list), Message("events", l) >>
    OBVIOUS
  <2>5. PICK w : w = R!Posted(wire, Rusk, Bearing, ES_COMM_PORT, s)
    OBVIOUS
  <2>6. wire' = R!Posted(w, Rusk, Bearing, EVENT_COMM_PORT, t)
    <3>1. wire' = R!Posted(
                    R!Posted(wire, Rusk, em, R!ES_COMM_PORT, << R!Message("func", "handle_events") >>),
                    Rusk, em, R!EVENT_COMM_PORT, << R!Message("list", list), R!Message("events", l) >>)
      BY <1>4, <1>6, <1>13, <2>2 DEF R!handle_events, R!Delivers
    <3>2. QED
      BY <2>1, <2>4, <2>5, <3>1, RuskMessages
  <2>7. /\ DOMAIN w = Channels
        /\ \A ch \in Channels : ch # OrderCh => w[ch] = wire[ch]
    BY <1>2, <2>5, PostsOrder
  <2>8. wire'[ListCh] = wire[ListCh] \o t
    <3>1. wire'[ListCh] = w[ListCh] \o t
      BY <2>6, <2>7, PostsList
    <3>2. QED
      BY <2>7, <3>1, ChannelsApart, OthersApart
  <2>9. PICK g \in Seq(Carriers), a \in Carriers, b \in Carriers :
          /\ g = wire[ListCh] /\ t = <<a, b>> /\ EventsOf[a] = <<>> /\ EventsOf[b] = l
    <3>1. Message("list", list) \in Carriers /\ EventsOf[Message("list", list)] = <<>>
      BY <2>3, CarriersCarry
    <3>2. Message("events", l) \in Carriers /\ EventsOf[Message("events", l)] = l
      BY <1>7, CarriersCarry
    <3>3. QED
      BY <2>4, <3>1, <3>2, FlowTyped
  <2>10. EventsIn(wire'[ListCh]) = EventsIn(g) \o l
    BY <2>8, <2>9, PairCarries
  <2>11. Taken \in Events /\ Later \in Events /\ EventsIn(g) \in Events
    BY <2>9, FlowTyped, FlowEvents
  <2>12. Rest' = Taken \o (Later \o (EventsIn(g) \o l)) /\ Rest = Taken \o (Later \o EventsIn(g))
    BY <1>11, <2>9, <2>10 DEF Rest
  <2>13. Rest' = Rest \o l
    <3>1. Later \o (EventsIn(g) \o l) = (Later \o EventsIn(g)) \o l
      BY <1>7, <2>11, EventsJoin
    <3>2. PICK x \in Events : x = Later \o EventsIn(g)
      BY <2>11, EventsJoin
    <3>3. Taken \o (x \o l) = (Taken \o x) \o l
      BY <1>7, <2>11, <3>2, EventsJoin
    <3>4. QED
      BY <2>12, <3>1, <3>2, <3>3
  <2>14. QED
    BY <1>8, <1>9, <1>10, <2>13 DEF FlowInv
<1>14. QED
  BY <1>12, <1>13

(* Every other step of rusk leaves the events alone.                       *)
LEMMA FlowRusk ==
  ASSUME StepInv, FlowInv, R!Work, UNCHANGED <<bearingVars, shinyVars>>
  PROVE  FlowInv'
<1>0. seen' = seen /\ seen \in [Clients -> Events] /\ out[Rusk] = <<>> /\ Bearing \in Askers
  BY ChannelsApart DEF shinyVars, FlowInv
<1>1. /\ OrderCh \in Channels /\ ListCh \in Channels /\ SortedCh \in Channels
      /\ \A c \in Clients : GiftCh(c) \in Channels
  BY ChannelsApart
<1>2. ASSUME Taken' = Taken, wire'[SortedCh] = wire[SortedCh], wire'[ListCh] = wire[ListCh],
             out'[Bearing] = out[Bearing], \A c \in Clients : wire'[GiftCh(c)] = wire[GiftCh(c)],
             out'[Rusk] = <<>>, typed' = typed
      PROVE  FlowInv'
  BY <1>0, <1>2, HadStays, RestStays, FlowStays
<1>3. ASSUME req.func # "send_events", req' = R!Idle
      PROVE  Taken' = Taken
  BY <1>3 DEF Taken, R!Idle
<1>4. ASSUME NEW id \in Programs, R!serve(id)
      PROVE  FlowInv'
  <2>1. id \in Askers /\ req = R!Idle /\ req'.got = <<>> /\ \A p \in Askers : out'[p] = out[p]
    BY <1>4, ServeDoes
  <2>2. Taken' = Taken
    BY <2>1 DEF Taken, R!Idle
  <2>3. \A ch \in Channels : ch # AskCh(id) => wire'[ch] = wire[ch]
    BY <1>4, ServeDoes
  <2>4. /\ wire'[SortedCh] = wire[SortedCh] /\ wire'[ListCh] = wire[ListCh]
        /\ \A c \in Clients : wire'[GiftCh(c)] = wire[GiftCh(c)]
    BY <1>1, <2>1, <2>3, AskApart
  <2>5. out'[Rusk] = <<>> /\ typed' = typed
    <3>1. DOMAIN out = Programs /\ Rusk \in Programs
      BY DEF StepInv, Typed, Programs
    <3>2. QED
      BY <1>4, <3>1 DEF R!serve, R!Receives
  <2>6. QED
    BY <1>0, <1>2, <2>1, <2>2, <2>4, <2>5
<1>5. CASE R!receive_data
  <2>1. out'[Rusk] = <<>>
    <3>1. DOMAIN out = Programs /\ Rusk \in Programs
      BY DEF StepInv, Typed, Programs
    <3>2. QED
      BY <1>0, <1>5, <3>1, Zenon DEF R!receive_data, R!Receives
  <2>2. QED
    BY <1>5, <2>1, FlowReceive
<1>6. CASE R!create_expanse
  <2>1. /\ req.id \in Clients /\ req.func = "create" /\ req' = R!Idle /\ out' = out
        /\ \A ch \in Channels : ch # OrderCh /\ ch # ReplyCh(req.id) => wire'[ch] = wire[ch]
    BY <1>6, CreateDoes
  <2>2. typed' = typed
    BY <1>6 DEF R!create_expanse, R!Done
  <2>3. /\ wire'[SortedCh] = wire[SortedCh] /\ wire'[ListCh] = wire[ListCh]
        /\ \A c \in Clients : wire'[GiftCh(c)] = wire[GiftCh(c)]
    <3>1. /\ OrderCh # SortedCh /\ OrderCh # ListCh /\ ReplyCh(req.id) # SortedCh /\ ReplyCh(req.id) # ListCh
          /\ \A c \in Clients : GiftCh(c) # OrderCh /\ GiftCh(c) # ReplyCh(req.id)
      BY <2>1, OthersApart
    <3>2. QED
      BY <1>1, <2>1, <3>1
  <2>4. QED
    BY <1>0, <1>2, <1>3, <2>1, <2>2, <2>3
<1>7. CASE R!register_em
  <2>1. /\ req.func = "register_em" /\ req' = R!Idle /\ out' = out
        /\ \A ch \in Channels : ch # OrderCh => wire'[ch] = wire[ch]
    BY <1>7, RegisterDoes
  <2>2. typed' = typed
    BY <1>7 DEF R!register_em, R!Done
  <2>3. /\ wire'[SortedCh] = wire[SortedCh] /\ wire'[ListCh] = wire[ListCh]
        /\ \A c \in Clients : wire'[GiftCh(c)] = wire[GiftCh(c)]
    BY <1>1, <2>1, OthersApart
  <2>4. QED
    BY <1>0, <1>2, <1>3, <2>1, <2>2, <2>3
<1>8. CASE R!send_events
  BY <1>8, FlowSend
<1>9. CASE R!reg_esys
  <2>1. UNCHANGED <<wire, out, req, typed>>
    BY <1>9 DEF R!reg_esys, R!ruskVars
  <2>2. Taken' = Taken
    BY <2>1 DEF Taken
  <2>3. QED
    BY <1>0, <1>2, <2>1, <2>2
<1>10. ASSUME R!remove_expanse \/ R!update_partial \/ R!update_expanse
                \/ R!set_decoration_buffers \/ R!bring_expanse_to_front
       PROVE  FlowInv'
  <2>1. req' = R!Idle /\ UNCHANGED <<wire, out, typed>> /\ req.func # "send_events"
    BY <1>10 DEF R!remove_expanse, R!update_partial, R!update_expanse, R!set_decoration_buffers,
         R!bring_expanse_to_front, R!Done, R!wireVars, R!Performs
  <2>2. QED
    BY <1>0, <1>2, <1>3, <2>1
<1>11. QED
  BY <1>4, <1>5, <1>6, <1>7, <1>8, <1>9, <1>10 DEF R!Work, R!Programs, Programs


(* handle_events of the manager hands back some of the first events in the *)
(* line.                                                                   *)
LEMMA FlowHandles ==
  ASSUME StepInv, FlowInv, B!handle_events, UNCHANGED <<ruskVars, shinyVars>>
  PROVE  FlowInv'
<1>0. seen' = seen /\ typed' = typed /\ req' = req /\ seen \in [Clients -> Events] /\ out[Rusk] = <<>>
  BY DEF ruskVars, shinyVars, FlowInv
<1>1. PICK s : s = wire[ListCh]
  OBVIOUS
<1>2. PICK list, events : list = s[1].val /\ events = s[2].val
  OBVIOUS
<1>3. out[Bearing] = <<>> /\ Len(s) >= 2
  BY <1>1, BearingMessages DEF B!handle_events, B!Free
<1>4. \/ UNCHANGED <<wire, out>>
      \/ \E hits \in [DOMAIN events -> B!Hits(list)] :
           B!Receives(Bearing, Rusk, EVENT_COMM_PORT, 2,
             B!After(events, list, hits).todo \o
               << B!Func("send_events"),
                  B!To(Rusk, B!EVENT_COMM_PORT, "events", B!After(events, list, hits).new) >>)
  <2>1. B!EVENT_COMM_PORT = EVENT_COMM_PORT /\ B!Waiting(Bearing, Rusk, EVENT_COMM_PORT) = s
    BY <1>1, BearingMessages
  <2>2. QED
    BY <1>2, <2>1, Zenon DEF B!handle_events
<1>5. Taken' = Taken
  BY <1>0 DEF Taken
<1>6. CASE UNCHANGED <<wire, out>>
  <2>1. Had' = Had /\ Rest' = Rest
    BY <1>0, <1>5, <1>6, HadStays, RestStays
  <2>2. QED
    BY <1>0, <1>6, <2>1, FlowStays
<1>7. ASSUME NEW hits \in [DOMAIN events -> B!Hits(list)],
             B!Receives(Bearing, Rusk, EVENT_COMM_PORT, 2,
                      B!After(events, list, hits).todo \o
                        << B!Func("send_events"),
                           B!To(Rusk, B!EVENT_COMM_PORT, "events", B!After(events, list, hits).new) >>)
      PROVE  FlowInv'
  <2>1. PICK a : a = B!After(events, list, hits)
    OBVIOUS
  <2>2. PICK last : last = << B!Func("send_events"), B!To(Rusk, B!EVENT_COMM_PORT, "events", a.new) >>
    OBVIOUS
  <2>3. /\ DOMAIN wire = Channels /\ DOMAIN out = Programs /\ Rusk \in Programs /\ Bearing \in Programs
        /\ Rusk # Bearing /\ mouse_down \in BOOLEAN /\ resize \in BOOLEAN /\ chosen \in Exp
    BY WireAssumption DEF StepInv, Typed, Programs
  <2>4. /\ wire' = [wire EXCEPT ![ListCh] = SubSeq(@, 2 + 1, Len(@))]
        /\ out' = [out EXCEPT ![Bearing] = a.todo \o last]
    BY <1>7, <2>1, <2>2, BearingReceives DEF ListCh
  <2>5. out'[Rusk] = <<>> /\ out'[Bearing] = a.todo \o last
    BY <1>0, <2>3, <2>4
  <2>6. Path(ListSteps, "list", s, "list")
    BY <1>1 DEF StepInv, Answering, Listing
  <2>7. /\ s[1].type = "list" /\ list \in Seq(Exp) /\ s[2].type = "events" /\ events \in Events
    BY <1>2, <1>3, <2>6, Found
  <2>8. /\ s # <<>> /\ Tail(s) # <<>> /\ s[1] = Head(s) /\ s[2] = Head(Tail(s))
        /\ SubSeq(s, 2 + 1, Len(s)) = Tail(Tail(s))
    BY <1>3, <2>6, TakenTwo
  <2>9. PICK r : r = Tail(Tail(s))
    OBVIOUS
  <2>10. wire'[ListCh] = r /\ \A ch \in Channels : ch # ListCh => wire'[ch] = wire[ch]
    BY <1>1, <2>3, <2>4, <2>8, <2>9, ChannelsApart
  <2>11. EventsIn(s) = events \o EventsIn(r) /\ EventsIn(r) \in Events
    <3>1. s \in Seq(Carriers)
      BY <1>1, FlowTyped
    <3>2. QED
      BY <1>2, <2>7, <2>8, <2>9, <3>1, SecondCarries
  <2>12. Had' = Had
    <3>1. \A c \in Clients : wire'[GiftCh(c)] = wire[GiftCh(c)]
      BY <2>10, ChannelsApart, OthersApart
    <3>2. QED
      BY <1>0, <3>1, HadStays
  <2>13. /\ EventsIn(wire[SortedCh]) \in Events /\ Taken \in Events
         /\ wire'[SortedCh] = wire[SortedCh] /\ wire[SortedCh] \in Seq(Carriers)
    BY <2>10, FlowTyped, FlowEvents, ChannelsApart, OthersApart
  <2>14. Later = EventsIn(wire[SortedCh])
    <3>1. Sorted(out[Bearing]) = <<>> /\ EventsIn(<<>>) = <<>>
      BY <1>3, SortedCat, EventsCat, Zenon
    <3>2. Later = EventsIn(wire[SortedCh]) \o <<>>
      BY <3>1, FlowEvents
    <3>3. QED
      BY <2>13, <3>2, EventsJoin
  <2>15. PICK x \in Events : x = Taken \o EventsIn(wire[SortedCh])
    BY <2>13, EventsJoin
  <2>16. Rest = x \o (events \o EventsIn(r))
    <3>1. Rest = Taken \o (EventsIn(wire[SortedCh]) \o (events \o EventsIn(r)))
      BY <1>1, <2>11, <2>14 DEF Rest
    <3>2. PICK y \in Events : y = events \o EventsIn(r)
      BY <2>7, <2>11, EventsJoin
    <3>3. QED
      BY <2>13, <2>15, <3>1, <3>2, EventsJoin
  <2>17. Lined(Had, x \o (events \o EventsIn(r)), typed)
    BY <2>16 DEF FlowInv
  <2>18. Ordered(events)
    <3>1. PICK y \in Events : y = events \o EventsIn(r)
      BY <2>7, <2>11, EventsJoin
    <3>2. Ordered(x \o y)
      BY <2>17, <3>1 DEF Lined
    <3>3. Ordered(y)
      BY <3>2, OrderedCat
    <3>4. QED
      BY <2>7, <2>11, <3>1, <3>3, OrderedCat
  <2>19. a.new \in Events /\ Ordered(a.new) /\ Ids(a.new) \subseteq Ids(events) /\ Silent(a.todo)
    BY <2>1, <2>3, <2>7, <2>18, AfterSorts
  <2>20. Later' = EventsIn(wire[SortedCh]) \o a.new
    <3>1. PICK f \in Posts, e \in Posts :
            /\ last = <<f, e>> /\ f.port = ES_COMM_PORT /\ e = SortedPost(a.new)
            /\ PostedOf[e] = << Message("events", a.new) >>
      <4>1. B!To(Rusk, B!EVENT_COMM_PORT, "events", a.new) = SortedPost(a.new)
        BY DEF B!To, B!EVENT_COMM_PORT, EVENT_COMM_PORT, B!Message, Message, SortedPost, Posting
      <4>2. B!Func("send_events") = Posting(ES_COMM_PORT, Message("func", "send_events"))
        BY DEF B!Func, B!To, B!ES_COMM_PORT, ES_COMM_PORT, B!Message, Message, Posting
      <4>3. Posting(ES_COMM_PORT, Message("func", "send_events")) \in Posts
        <5>1. Whole(Bearing, last)
          BY <2>2, <2>19, BearingRequests
        <5>2. last \in Seq(Labels(OutSteps(Bearing)))
          BY <5>1, PathEnds DEF Whole
        <5>3. PICK L : L = Labels(OutSteps(Bearing))
          OBVIOUS
        <5>4. last[1] \in L
          <6>1. PICK z \in Seq(L) : z = last
            BY <5>2, <5>3
          <6>2. Len(z) = 2
            BY <2>2, <6>1
          <6>3. 1 \in DOMAIN z
            BY <6>2
          <6>4. QED
            BY <6>1, <6>3
        <5>5. last[1] = B!Func("send_events")
          BY <2>2
        <5>6. QED
          BY <4>2, <5>3, <5>4, <5>5 DEF Posts
      <4>4. SortedPost(a.new) \in Posts /\ PostedOf[SortedPost(a.new)] = << Message("events", a.new) >>
        BY <2>19, PostsCarry
      <4>5. Posting(ES_COMM_PORT, Message("func", "send_events")).port = ES_COMM_PORT
        BY DEF Posting
      <4>6. QED
        BY <2>2, <4>1, <4>2, <4>3, <4>4, <4>5
    <3>2. PostedOf[f] = <<>>
      BY <3>1, PostsCarry
    <3>3. PICK m \in Carriers : m = Message("events", a.new) /\ EventsOf[m] = a.new
      BY <2>19, CarriersCarry
    <3>4. Sorted(last) = <<m>>
      <4>1. <<f>> \in Seq(Posts) /\ <<e>> \in Seq(Posts) /\ <<f>> \o <<e>> = <<f, e>>
        BY Pair
      <4>2. Sorted(<<f>> \o <<e>>) = Sorted(<<f>>) \o Sorted(<<e>>)
        BY <4>1, SortedCat
      <4>3. Sorted(<<f>>) = <<>> /\ Sorted(<<e>>) = <<m>>
        BY <3>1, <3>2, <3>3, SortedCat
      <4>4. <<>> \o <<m>> = <<m>>
        <5>1. <<m>> \in Seq(Carriers)
          OBVIOUS
        <5>2. QED
          BY <5>1, ConcatEmptySeq
      <4>5. QED
        BY <3>1, <4>1, <4>2, <4>3, <4>4
    <3>5. Sorted(a.todo \o last) = <<m>>
      <4>1. last \in Seq(Posts)
        BY <3>1
      <4>2. Sorted(a.todo \o last) = Sorted(a.todo) \o Sorted(last)
        BY <2>19, <4>1, SortedCat DEF Silent
      <4>3. Sorted(a.todo) = <<>> /\ <<m>> \in Seq(Carriers)
        BY <2>19 DEF Silent
      <4>4. <<>> \o <<m>> = <<m>>
        BY <4>3, ConcatEmptySeq
      <4>5. QED
        BY <3>4, <4>2, <4>3, <4>4
    <3>6. Later' = EventsIn(wire[SortedCh] \o <<m>>)
      BY <2>5, <2>13, <3>5 DEF Later
    <3>7. <<m>> \in Seq(Carriers) /\ EventsIn(<<m>>) = a.new
      BY <3>3, EventsCat
    <3>8. QED
      BY <2>13, <3>6, <3>7, EventsCat
  <2>21. Rest' = x \o (a.new \o EventsIn(r))
    <3>1. Rest' = Taken \o ((EventsIn(wire[SortedCh]) \o a.new) \o EventsIn(r))
      BY <1>5, <2>10, <2>20 DEF Rest
    <3>2. PICK y \in Events : y = a.new \o EventsIn(r)
      BY <2>11, <2>19, EventsJoin
    <3>3. (EventsIn(wire[SortedCh]) \o a.new) \o EventsIn(r) = EventsIn(wire[SortedCh]) \o y
      BY <2>11, <2>13, <2>19, <3>2, EventsJoin
    <3>4. Taken \o (EventsIn(wire[SortedCh]) \o y) = x \o y
      BY <2>13, <2>15, <3>2, EventsJoin
    <3>5. QED
      BY <3>1, <3>2, <3>3, <3>4
  <2>22. /\ Rest' \in Events /\ Ordered(Rest') /\ Ids(Rest') \subseteq Ids(Rest)
    <3>1. Ordered(x \o (events \o EventsIn(r)))
      BY <2>17 DEF Lined
    <3>2. /\ x \o (a.new \o EventsIn(r)) \in Events /\ Ordered(x \o (a.new \o EventsIn(r)))
          /\ Ids(x \o (a.new \o EventsIn(r))) \subseteq Ids(x \o (events \o EventsIn(r)))
      BY <2>7, <2>11, <2>19, <3>1, Sifted
    <3>3. QED
      BY <2>16, <2>21, <3>2
  <2>23. PICK q \in Events : q = Rest' /\ Ordered(q) /\ Ids(q) \subseteq Ids(Rest)
    BY <2>22
  <2>24. Lined(Had, q, typed)
    BY <2>23, LinedLess DEF FlowInv
  <2>25. QED
    BY <1>0, <2>5, <2>12, <2>23, <2>24 DEF FlowInv
<1>8. QED
  BY <1>4, <1>6, <1>7


(* A system call of the manager moves the events on.                       *)
LEMMA FlowSends ==
  ASSUME StepInv, FlowInv, B!send(Bearing), UNCHANGED <<ruskVars, shinyVars>>
  PROVE  FlowInv'
<1>0. seen' = seen /\ typed' = typed /\ req' = req /\ seen \in [Clients -> Events] /\ out[Rusk] = <<>>
  BY DEF ruskVars, shinyVars, FlowInv
<1>1. /\ DOMAIN wire = Channels /\ DOMAIN out = Programs /\ Rusk \in Programs /\ Bearing \in Programs
      /\ Rusk # Bearing
  BY WireAssumption DEF StepInv, Typed, Programs
<1>2. out[Bearing] # <<>> /\ out[Bearing] \in Seq(Posts)
  BY FlowTyped DEF B!send
<1>3. PICK x \in Posts, o \in Seq(Posts) :
        /\ x = Head(out[Bearing]) /\ o = Tail(out[Bearing]) /\ out[Bearing] = <<x>> \o o
  BY <1>2, Headed, Zenon
<1>4. /\ wire' = [wire EXCEPT ![<<Bearing, x.to, x.port>>] = Append(@, x.msg)]
      /\ out' = [out EXCEPT ![Bearing] = o]
  BY <1>3 DEF B!send
<1>5. out'[Rusk] = <<>> /\ out'[Bearing] = o
  BY <1>0, <1>1, <1>4
<1>6. \/ x.to = Rusk /\ x.port = ES_COMM_PORT /\ PostedOf[x] = <<>>
      \/ \E l \in Events : x = SortedPost(l)
  BY PostsCarry
<1>7. PICK g \in Seq(Carriers), p \in Seq(Carriers) : g = wire[SortedCh] /\ p = PostedOf[x]
  <2>1. PostedOf \in [Posts -> Seq(Carriers)]
    BY PostsCarry
  <2>2. QED
    BY <2>1, FlowTyped
<1>8. /\ wire'[SortedCh] = g \o p
      /\ \A ch \in Channels : ch # SortedCh /\ ch # AskCh(Bearing) => wire'[ch] = wire[ch]
  <2>1. CASE x.to = Rusk /\ x.port = ES_COMM_PORT /\ PostedOf[x] = <<>>
    <3>1. <<Bearing, x.to, x.port>> = AskCh(Bearing) /\ AskCh(Bearing) # SortedCh
      BY <2>1, ChannelsApart, AskApart DEF AskCh
    <3>2. \A ch \in Channels : ch # AskCh(Bearing) => wire'[ch] = wire[ch]
      BY <1>1, <1>4, <3>1
    <3>3. g \o <<>> = g
      BY ConcatEmptySeq
    <3>4. QED
      BY <1>7, <2>1, <3>1, <3>2, <3>3, ChannelsApart
  <2>2. ASSUME NEW l \in Events, x = SortedPost(l)
        PROVE  /\ wire'[SortedCh] = g \o p
               /\ \A ch \in Channels : ch # SortedCh /\ ch # AskCh(Bearing) => wire'[ch] = wire[ch]
    <3>1. <<Bearing, x.to, x.port>> = SortedCh /\ x.msg = Message("events", l)
      BY <2>2 DEF SortedCh, SortedPost, Posting
    <3>2. PICK m \in Carriers : m = x.msg /\ p = <<m>>
      BY <1>7, <2>2, <3>1, PostsCarry, CarriersCarry
    <3>3. Append(g, m) = g \o <<m>>
      BY AppendIsConcat
    <3>4. wire' = [wire EXCEPT ![SortedCh] = Append(@, m)]
      BY <1>4, <3>1, <3>2
    <3>5. /\ wire'[SortedCh] = Append(g, m)
          /\ \A ch \in Channels : ch # SortedCh => wire'[ch] = wire[ch]
      BY <1>1, <1>7, <3>4, ChannelsApart
    <3>6. QED
      BY <3>2, <3>3, <3>5
  <2>3. QED
    BY <1>6, <2>1, <2>2
<1>9. Sorted(out[Bearing]) = p \o Sorted(o) /\ Sorted(o) \in Seq(Carriers)
  <2>1. <<x>> \in Seq(Posts)
    OBVIOUS
  <2>2. Sorted(<<x>> \o o) = Sorted(<<x>>) \o Sorted(o) /\ Sorted(o) \in Seq(Carriers)
    BY <2>1, SortedCat
  <2>3. Sorted(<<x>>) = p
    BY <1>7, SortedCat
  <2>4. QED
    BY <1>3, <2>2, <2>3
<1>10. Later' = Later
  <2>1. PICK k \in Seq(Carriers) : k = Sorted(o)
    BY <1>9
  <2>2. g \o (p \o k) = (g \o p) \o k
    BY Regrouped
  <2>3. Later' = EventsIn((g \o p) \o k)
    BY <1>5, <1>8, <2>1 DEF Later
  <2>4. Later = EventsIn(g \o (p \o k))
    BY <1>7, <1>9, <2>1 DEF Later
  <2>5. QED
    BY <2>2, <2>3, <2>4
<1>11. wire'[ListCh] = wire[ListCh] /\ \A c \in Clients : wire'[GiftCh(c)] = wire[GiftCh(c)]
  BY <1>8, ChannelsApart, AskApart, OthersApart
<1>12. Taken' = Taken
  BY <1>0 DEF Taken
<1>13. Had' = Had /\ Rest' = Rest
  <2>1. Rest' = Rest
    BY <1>10, <1>11, <1>12 DEF Rest
  <2>2. QED
    BY <1>0, <1>11, <2>1, HadStays
<1>14. QED
  BY <1>0, <1>5, <1>13, FlowStays

(* Nothing else that the manager does has to do with events.               *)
LEMMA FlowBearing ==
  ASSUME StepInv, FlowInv, B!Work, UNCHANGED <<ruskVars, shinyVars>>
  PROVE  FlowInv'
<1>0. seen' = seen /\ typed' = typed /\ req' = req /\ seen \in [Clients -> Events] /\ out[Rusk] = <<>>
  BY DEF ruskVars, shinyVars, FlowInv
<1>1. /\ DOMAIN wire = Channels /\ DOMAIN out = Programs /\ Rusk \in Programs /\ Bearing \in Programs
      /\ Rusk # Bearing
  BY WireAssumption DEF StepInv, Typed, Programs
<1>2. ASSUME NEW o, out' = [out EXCEPT ![Bearing] = o], Silent(o), out[Bearing] = <<>>,
             \A ch \in Channels : ch # OrderCh => wire'[ch] = wire[ch]
      PROVE  FlowInv'
  <2>1. out'[Rusk] = <<>> /\ out'[Bearing] = o
    BY <1>0, <1>1, <1>2
  <2>2. Sorted(o) = <<>> /\ Sorted(<<>>) = <<>>
    BY <1>2, SortedCat DEF Silent
  <2>3. /\ wire'[SortedCh] = wire[SortedCh] /\ wire'[ListCh] = wire[ListCh]
        /\ \A c \in Clients : wire'[GiftCh(c)] = wire[GiftCh(c)]
    BY <1>2, ChannelsApart, OthersApart
  <2>4. Later' = Later
    BY <1>2, <2>1, <2>2, <2>3 DEF Later
  <2>5. Taken' = Taken
    BY <1>0 DEF Taken
  <2>6. Had' = Had /\ Rest' = Rest
    <3>1. Rest' = Rest
      BY <2>3, <2>4, <2>5 DEF Rest
    <3>2. QED
      BY <1>0, <2>3, <3>1, HadStays
  <2>7. QED
    BY <1>0, <2>1, <2>6, FlowStays
<1>3. ASSUME NEW o, Silent(o), out[Bearing] = <<>>, B!Receives(Bearing, Rusk, ES_COMM_PORT, 1, o)
      PROVE  FlowInv'
  <2>1. /\ wire' = [wire EXCEPT ![OrderCh] = SubSeq(@, 1 + 1, Len(@))]
        /\ out' = [out EXCEPT ![Bearing] = o]
    BY <1>3, BearingReceives DEF OrderCh
  <2>2. \A ch \in Channels : ch # OrderCh => wire'[ch] = wire[ch]
    BY <1>1, <2>1
  <2>3. QED
    BY <1>2, <1>3, <2>1, <2>2
<1>4. CASE B!register_em
  <2>1. PICK x \in Posts : x = Posting(ES_COMM_PORT, RegisterFunc)
    BY DEF Posts
  <2>2. Silent(<<x>>)
    <3>0. x.port = ES_COMM_PORT
      BY <2>1 DEF Posting
    <3>1. <<x>> \in Seq(Posts) /\ Sorted(<<x>>) = PostedOf[x] /\ PostedOf[x] = <<>>
      BY <3>0, SortedCat, PostsCarry
    <3>2. QED
      BY <3>1 DEF Silent
  <2>3. B!Func("register_em") = x
    BY <2>1, BearingMessages
  <2>4. wire' = wire /\ out' = [out EXCEPT ![Bearing] = <<x>>] /\ out[Bearing] = <<>>
    BY <1>4, <2>3 DEF B!register_em, B!Sends, B!Free
  <2>5. QED
    BY <1>2, <2>2, <2>4
<1>5. CASE B!registered \/ B!serve
  <2>1. B!Receives(Bearing, Rusk, ES_COMM_PORT, 1, <<>>) /\ out[Bearing] = <<>>
    BY <1>5, BearingMessages DEF B!registered, B!serve, B!Free
  <2>2. QED
    BY <1>3, <2>1, BearingSilent
<1>6. CASE B!init_expanse
  <2>1. PICK e : e = [Head(wire[OrderCh]).val EXCEPT !.place = 1]
    OBVIOUS
  <2>2. /\ duty = "init_expanse" /\ wire[OrderCh] # <<>> /\ out[Bearing] = <<>>
        /\ B!Receives(Bearing, Rusk, ES_COMM_PORT, 1, B!update(e) \o B!setup_borders(e, "grey"))
    BY <1>6, <2>1, BearingMessages DEF B!init_expanse, B!Free
  <2>3. Head(wire[OrderCh]).val \in Exp
    <3>1. PICK u \in States : <<Turn, Head(wire[OrderCh]), u>> \in OrderSteps
      BY <2>2, PathHead DEF StepInv, Answering, Ordering
    <3>2. QED
      BY <2>2, <3>1, OrderStep DEF Turn
  <2>4. e \in Exp
    BY <2>1, <2>3 DEF Exp
  <2>5. Silent(B!update(e) \o B!setup_borders(e, "grey"))
    BY <2>4, BearingSilent, SilentCat DEF Colours
  <2>6. QED
    BY <1>3, <2>2, <2>5
<1>7. CASE B!handle_events
  BY <1>7, FlowHandles
<1>8. CASE B!send(Bearing)
  BY <1>8, FlowSends
<1>9. QED
  BY <1>4, <1>5, <1>6, <1>7, <1>8 DEF B!Work

(* A program that is given events had them before only on their way.       *)
LEMMA FlowLoop ==
  ASSUME StepInv, FlowInv, NEW c \in Clients, S!shiny_main_loop(c)
  PROVE  Had' = Had /\ seen' \in [Clients -> Events]
<1>0. seen \in [Clients -> Events]
  BY DEF FlowInv
<1>1. PICK s \in Seq(Carriers) : s = wire[GiftCh(c)] /\ Path(GivenSteps, "handle", s, "handle")
  BY FlowTyped DEF StepInv, Answering, Giving
<1>2. Len(s) >= 2 /\ seen' = [seen EXCEPT ![c] = @ \o s[2].val]
  BY <1>1, ClientMessages DEF S!shiny_main_loop
<1>3. s[1].type = "handle" /\ s[2].type = "events" /\ s[2].val \in Events
  BY <1>1, <1>2, Given
<1>4. /\ s # <<>> /\ Tail(s) # <<>> /\ s[1] = Head(s) /\ s[2] = Head(Tail(s))
      /\ SubSeq(s, 2 + 1, Len(s)) = Tail(Tail(s))
  BY <1>1, <1>2, TakenTwo
<1>5. PICK r : r = Tail(Tail(s))
  OBVIOUS
<1>6. EventsIn(s) = s[2].val \o EventsIn(r) /\ EventsIn(r) \in Events
  BY <1>3, <1>4, <1>5, SecondCarries
<1>7. wire'[GiftCh(c)] = r /\ \A d \in Clients : d # c => wire'[GiftCh(d)] = wire[GiftCh(d)]
  <2>1. 2 + 1 = 3
    OBVIOUS
  <2>2. QED
    BY <1>1, <1>4, <1>5, <2>1, LoopDoes DEF Untouched
<1>8. PICK l \in Events, q \in Events, e \in Events : l = s[2].val /\ q = seen[c] /\ e = EventsIn(r)
  BY <1>0, <1>3, <1>6
<1>9. seen' \in [Clients -> Events] /\ seen'[c] = q \o l /\ \A d \in Clients : d # c => seen'[d] = seen[d]
  <2>1. q \o l \in Events
    BY <1>8, EventsJoin
  <2>2. QED
    BY <1>0, <1>2, <1>8, <2>1
<1>10. seen'[c] \o EventsIn(wire'[GiftCh(c)]) = seen[c] \o EventsIn(wire[GiftCh(c)])
  <2>1. (q \o l) \o e = q \o (l \o e)
    BY <1>8, EventsJoin
  <2>2. QED
    BY <1>1, <1>6, <1>7, <1>8, <1>9, <2>1
<1>11. \A d \in Clients : seen'[d] \o EventsIn(wire'[GiftCh(d)]) = seen[d] \o EventsIn(wire[GiftCh(d)])
  BY <1>7, <1>9, <1>10
<1>12. QED
  BY <1>9, <1>11, Zenon DEF Had

(* Every step of a program leaves the rest of the line alone.              *)
LEMMA FlowShiny ==
  ASSUME StepInv, OwnInv, FlowInv, NEW c \in Clients, S!Work(c), UNCHANGED <<ruskVars, bearingVars>>
  PROVE  FlowInv'
<1>0. typed' = typed /\ req' = req /\ seen \in [Clients -> Events] /\ out[Rusk] = <<>>
  BY DEF ruskVars, FlowInv
<1>1. /\ DOMAIN wire = Channels /\ DOMAIN out = Programs /\ Rusk \in Programs /\ Bearing \in Programs
      /\ c \in Programs /\ c # Rusk /\ c # Bearing /\ c \in Askers
  BY ChannelsApart DEF StepInv, Typed, Programs
<1>2. \E o : out' = [out EXCEPT ![c] = o]
  BY DEF S!Work, S!create_shiny_expanse, S!recieve_handle, S!shiny_main_loop, S!send, S!Sends, S!Receives
<1>3. out'[Rusk] = <<>> /\ out'[Bearing] = out[Bearing]
  BY <1>0, <1>1, <1>2
<1>4. ASSUME NEW ch, ch \in {ReplyCh(c), GiftCh(c), AskCh(c)}, NEW v, wire' = [wire EXCEPT ![ch] = v]
      PROVE  wire'[SortedCh] = wire[SortedCh] /\ wire'[ListCh] = wire[ListCh]
  <2>1. SortedCh # ch /\ ListCh # ch
    BY <1>1, <1>4, AskApart, OthersApart
  <2>2. QED
    BY <1>1, <1>4, <2>1, ChannelsApart
<1>5. wire'[SortedCh] = wire[SortedCh] /\ wire'[ListCh] = wire[ListCh]
  <2>1. CASE S!create_shiny_expanse(c)
    BY <2>1 DEF S!create_shiny_expanse, S!Sends
  <2>2. CASE S!recieve_handle(c)
    <3>1. PICK o : S!Receives(c, Rusk, ES_COMM_PORT, 1, o)
      BY <2>2, ClientMessages, Zenon DEF S!recieve_handle
    <3>2. wire' = [wire EXCEPT ![ReplyCh(c)] = SubSeq(@, 1 + 1, Len(@))]
      BY <3>1, Zenon DEF S!Receives, ReplyCh
    <3>3. QED
      BY <1>4, <3>2
  <2>3. CASE S!shiny_main_loop(c)
    <3>1. PICK o : S!Receives(c, Rusk, EVENT_COMM_PORT, 2, o)
      BY <2>3, ClientMessages, Zenon DEF S!shiny_main_loop
    <3>2. wire' = [wire EXCEPT ![GiftCh(c)] = SubSeq(@, 2 + 1, Len(@))]
      BY <3>1, Zenon DEF S!Receives, GiftCh
    <3>3. QED
      BY <1>4, <3>2
  <2>4. CASE S!send(c) /\ UNCHANGED S!shinyVars
    <3>1. PICK x : x = Head(out[c])
      OBVIOUS
    <3>2. x = Posting(ES_COMM_PORT, x.msg)
      BY <2>4, <3>1, ClientSends
    <3>3. <<c, x.to, x.port>> = AskCh(c)
      BY <3>2 DEF Posting, AskCh
    <3>4. wire' = [wire EXCEPT ![AskCh(c)] = Append(@, x.msg)]
      BY <2>4, <3>1, <3>3 DEF S!send
    <3>5. QED
      BY <1>4, <3>4
  <2>5. QED
    BY <2>1, <2>2, <2>3, <2>4 DEF S!Work
<1>6. Taken' = Taken
  BY <1>0 DEF Taken
<1>7. Rest' = Rest
  BY <1>3, <1>5, <1>6, RestStays
<1>8. Had' = Had /\ seen' \in [Clients -> Events]
  <2>1. CASE S!shiny_main_loop(c)
    BY <2>1, FlowLoop
  <2>2. CASE S!create_shiny_expanse(c) \/ S!recieve_handle(c) \/ (S!send(c) /\ UNCHANGED S!shinyVars)
    <3>1. seen' = seen
      BY <2>2 DEF S!create_shiny_expanse, S!recieve_handle, S!shinyVars
    <3>2. \A d \in Clients : wire'[GiftCh(d)] = wire[GiftCh(d)]
      <4>1. wire'[GiftCh(c)] = wire[GiftCh(c)] /\ \A d \in Clients : d # c => Untouched(d)
        <5>1. S!create_shiny_expanse(c) => wire' = wire
          BY CreatesDoes
        <5>2. QED
          BY <2>2, <5>1, CreatesDoes, HandledDoes, ClientSends
      <4>2. QED
        BY <4>1 DEF Untouched
    <3>3. QED
      BY <1>0, <3>1, <3>2, HadStays
  <2>3. QED
    BY <2>1, <2>2 DEF S!Work
<1>9. QED
  BY <1>0, <1>3, <1>7, <1>8, FlowStays


(* Every step keeps the line of the events.                                *)
LEMMA FlowStep ==
  ASSUME StepInv, OwnInv, FlowInv, [Orderly]_vars
  PROVE  FlowInv'
<1>1. CASE RuskWorks
  BY <1>1, FlowRusk DEF RuskWorks
<1>2. CASE RuskReads
  BY <1>2, FlowRead DEF RuskReads
<1>3. CASE BearingWorks
  BY <1>3, FlowBearing DEF BearingWorks
<1>4. ASSUME NEW c \in Clients, ShinyWorks(c)
      PROVE  FlowInv'
  BY <1>4, FlowShiny DEF ShinyWorks
<1>5. CASE UNCHANGED vars
  <2>1. UNCHANGED <<wire, out, req, typed, seen>>
    BY <1>5 DEF vars, wireVars, ruskVars, shinyVars
  <2>2. Taken' = Taken
    BY <2>1 DEF Taken
  <2>3. Had' = Had /\ Rest' = Rest
    BY <2>1, <2>2, HadStays, RestStays
  <2>4. out'[Rusk] = <<>> /\ seen' \in [Clients -> Events]
    BY <2>1 DEF FlowInv
  <2>5. QED
    BY <2>1, <2>3, <2>4, FlowStays
<1>6. QED
  BY <1>1, <1>2, <1>3, <1>4, <1>5 DEF Orderly

(* Nothing is typed at first.                                              *)
LEMMA FlowStarts == Init => FlowInv
<1> SUFFICES ASSUME Init PROVE FlowInv
  OBVIOUS
<1>1. /\ wire = [ch \in Channels |-> <<>>] /\ out = [p \in Programs |-> <<>>]
      /\ req = R!Idle /\ typed = 0 /\ seen = [c \in Clients |-> <<>>]
  BY DEF Init, InitWire, R!InitRusk, S!InitShiny
<1>2. out[Rusk] = <<>> /\ out[Bearing] = <<>>
  BY <1>1 DEF Programs
<1>3. /\ wire[SortedCh] = <<>> /\ wire[ListCh] = <<>>
      /\ \A c \in Clients : wire[GiftCh(c)] = <<>> /\ seen[c] = <<>>
  BY <1>1, ChannelsApart
<1>4. Taken = <<>>
  BY <1>1 DEF Taken, R!Idle
<1>5. <<>> \in Events /\ Ordered(<<>>) /\ Ids(<<>>) = {}
  BY OrderedShort
<1>6. EventsIn(<<>>) = <<>> /\ Sorted(<<>>) = <<>>
  BY EventsCat, SortedCat
<1>7. <<>> \o <<>> = <<>>
  BY <1>5, EventsJoin
<1>8. Later = <<>>
  BY <1>2, <1>3, <1>6, <1>7, Zenon DEF Later
<1>9. Rest = <<>>
  BY <1>3, <1>4, <1>6, <1>7, <1>8, Zenon DEF Rest
<1>10. Had = [c \in Clients |-> <<>>]
  <2>1. \A c \in Clients : seen[c] \o EventsIn(wire[GiftCh(c)]) = <<>>
    BY <1>3, <1>6, <1>7
  <2>2. QED
    BY <2>1, Zenon DEF Had
<1>11. Lined(Had, Rest, typed)
  <2>1. PICK e : e = <<>>
    OBVIOUS
  <2>2. PICK h : h = [c \in Clients |-> e]
    OBVIOUS
  <2>3. Before({}, {})
    BY DEF Before
  <2>4. h \in [Clients -> Events] /\ \A c \in Clients : h[c] = e
    BY <1>5, <2>1, <2>2
  <2>5. Lined(h, e, 0)
    BY <1>5, <2>1, <2>3, <2>4 DEF Lined
  <2>6. QED
    BY <1>1, <1>9, <1>10, <2>1, <2>2, <2>5
<1>12. seen \in [Clients -> Events]
  BY <1>1, <1>5
<1>13. QED
  BY <1>2, <1>11, <1>12 DEF FlowInv

(* What is under way to a program, in the words of the line.               *)
LEMMA UnderWayIs ==
  ASSUME StepInv, FlowInv, NEW c \in Clients
  PROVE  UnderWay(c) = ((EventsIn(wire[GiftCh(c)]) \o Taken) \o Later) \o EventsIn(wire[ListCh])
<1>1. out[Rusk] = <<>>
  BY DEF FlowInv
<1>2. \A q, port : Addressed(<<>>, q, port) = <<>>
  <2>1. ASSUME NEW q, NEW port
        PROVE  Addressed(<<>>, q, port) = <<>>
    <3>1. PICK e : e = <<>>
      OBVIOUS
    <3>2. [i \in DOMAIN e |-> IF e[i].to = q /\ e[i].port = port THEN << e[i].msg >> ELSE <<>>] = <<>>
      BY <3>1, EmptySeq
    <3>3. Addressed(e, q, port) = FlattenSeq(<<>>)
      BY <3>2, Zenon DEF Addressed
    <3>4. QED
      BY <3>1, <3>3, JoinedShort
  <2>2. QED
    BY <2>1
<1>3. \A s \in Seq(Carriers) : s \o <<>> = s
  BY ConcatEmptySeq
<1>4. Carried(Rusk, c, EVENT_COMM_PORT) = wire[GiftCh(c)]
  <2>1. wire[GiftCh(c)] \in Seq(Carriers)
    BY FlowTyped
  <2>2. Carried(Rusk, c, EVENT_COMM_PORT) = wire[GiftCh(c)] \o <<>>
    BY <1>1, <1>2, Zenon DEF Carried, Waiting, GiftCh
  <2>3. QED
    BY <1>3, <2>1, <2>2
<1>5. Carried(Rusk, Bearing, EVENT_COMM_PORT) = wire[ListCh]
  <2>1. wire[ListCh] \in Seq(Carriers)
    BY FlowTyped
  <2>2. Carried(Rusk, Bearing, EVENT_COMM_PORT) = wire[ListCh] \o <<>>
    BY <1>1, <1>2, Zenon DEF Carried, Waiting, ListCh
  <2>3. QED
    BY <1>3, <2>1, <2>2
<1>6. EventsIn(Carried(Bearing, Rusk, EVENT_COMM_PORT)) = Later
  BY Zenon DEF Carried, Waiting, SortedCh, Later, Sorted
<1>7. QED
  BY <1>4, <1>5, <1>6, Zenon DEF UnderWay

(* Joining lines of events is associative, in the words of an operator.    *)
Regroups(a, b, c) == a \o (b \o c) = (a \o b) \o c
LEMMA EventsRegroup == \A a, b, c \in Events : Regroups(a, b, c)
<1>1. \A a, b, c \in Events : a \o (b \o c) = (a \o b) \o c
  BY EventsJoin
<1>2. QED
  BY <1>1, Zenon DEF Regroups

(* Who is given the line in order is given the events in order.            *)
LEMMA FlowRight ==
  ASSUME StepInv, FlowInv
  PROVE  EventsOrdered
<1>1. seen \in [Clients -> Events] /\ Lined(Had, Rest, typed)
  BY DEF FlowInv
<1>2. ASSUME NEW c \in Clients
      PROVE  Ordered(seen[c] \o UnderWay(c))
  <2>1. PICK s \in Events, g \in Events, t \in Events, l \in Events, e \in Events :
          /\ s = seen[c] /\ g = EventsIn(wire[GiftCh(c)]) /\ t = Taken /\ l = Later
          /\ e = EventsIn(wire[ListCh])
    BY <1>1, FlowTyped, FlowEvents
  <2>2. PICK gt \in Events, le \in Events, sg \in Events :
          gt = g \o t /\ le = l \o e /\ sg = s \o g
    BY EventsJoin
  <2>3. PICK r \in Events : r = t \o le
    BY EventsJoin
  <2>4. UnderWay(c) = (gt \o l) \o e
    BY <2>1, <2>2, UnderWayIs
  <2>5. (gt \o l) \o e = gt \o le
    <3>1. Regroups(gt, l, e)
      BY EventsRegroup
    <3>2. QED
      BY <2>2, <3>1, Zenon DEF Regroups
  <2>6. gt \o le = g \o r
    <3>1. Regroups(g, t, le)
      BY EventsRegroup
    <3>2. QED
      BY <2>2, <2>3, <3>1, Zenon DEF Regroups
  <2>7. s \o (g \o r) = sg \o r
    <3>1. Regroups(s, g, r)
      BY EventsRegroup
    <3>2. QED
      BY <2>2, <3>1, Zenon DEF Regroups
  <2>8. Had[c] = sg /\ Rest = r
    BY <2>1, <2>2, <2>3 DEF Had, Rest
  <2>9. Ordered(sg) /\ Ordered(r) /\ Before(Ids(sg), Ids(r))
    BY <1>1, <2>8 DEF Lined
  <2>10. Ordered(sg \o r)
    BY <2>9, OrderedCat
  <2>11. QED
    BY <2>1, <2>4, <2>5, <2>6, <2>7, <2>10
<1>3. ASSUME NEW c \in Clients
      PROVE  Ids(seen[c]) \subseteq Ids(Had[c])
  <2>1. Had[c] = seen[c] \o EventsIn(wire[GiftCh(c)])
    BY DEF Had
  <2>2. Ids(seen[c] \o EventsIn(wire[GiftCh(c)])) = Ids(seen[c]) \cup Ids(EventsIn(wire[GiftCh(c)]))
    BY <1>1, FlowEvents, OrderedCat
  <2>3. QED
    BY <2>1, <2>2
<1>4. ASSUME NEW c \in Clients, NEW d \in Clients, c # d,
             NEW i \in DOMAIN seen[c], NEW j \in DOMAIN seen[d]
      PROVE  seen[c][i].id # seen[d][j].id
  <2>1. seen[c][i].id \in Ids(seen[c]) /\ seen[d][j].id \in Ids(seen[d])
    BY DEF Ids
  <2>2. Ids(Had[c]) \cap Ids(Had[d]) = {}
    BY <1>1, <1>4 DEF Lined
  <2>3. QED
    BY <1>3, <2>1, <2>2
<1>5. QED
  BY <1>2, <1>4 DEF EventsOrdered

(* Until rusk first misses an argument, every program is given events in   *)
(* the order they were typed, and none is given to two programs or twice   *)
(* to one: process_events of rusk hands what is typed to the manager,      *)
(* whose handle_events (bearing.c) drops what it uses itself and hands the *)
(* others back, and send_events (rusk_comm.c) gives them to the program in *)
(* front at that moment, however the user's clicks change the front        *)
(* meanwhile.  For any programs, any windows, any number of events.        *)
THEOREM EventsInOrder == Spec => []EventsOrdered
<1>1. Init => astray \/ (StepInv /\ OwnInv /\ FlowInv)
  BY StepStarts, OwnStarts, FlowStarts
<1>2. /\ astray \/ (StepInv /\ OwnInv /\ FlowInv)
      /\ [Next]_vars
      => astray' \/ (StepInv' /\ OwnInv' /\ FlowInv')
  BY AstrayStays, OrderlyUntil, StepKept, OwnStep, FlowStep
<1>3. astray \/ (StepInv /\ FlowInv) => EventsOrdered
  BY FlowRight DEF EventsOrdered
<1>4. QED
  BY <1>1, <1>2, <1>3, PTL DEF Spec
=============================================================================
