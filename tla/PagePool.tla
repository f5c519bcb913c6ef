------------------------------ MODULE PagePool ------------------------------
(***************************************************************************)
(* What a page allocator promises, whatever its data structure: memory it  *)
(* hands out is usable memory that nobody else holds and that is no longer *)
(* on offer.  It may refuse a request, and it may lose memory that is      *)
(* given back, but it never offers what was not given up.                  *)
(***************************************************************************)
EXTENDS Naturals

CONSTANTS
  Types,       \* the kinds of memory managed apart
  PageSize,    \* bytes of a page
  Requests,    \* numbers of pages asked for
  Usable       \* the bytes of each kind that may be handed out

VARIABLES
  pool,        \* the bytes of each kind on offer
  held         \* the chunks handed out: [ty, addr, size]

vars == <<pool, held>>

Span(addr, size) == {b \in addr .. addr + size : b < addr + size}

Init ==
  /\ pool = Usable
  /\ held = {}

Alloc(sz, ty) ==
  \E addr \in pool[ty] :
    /\ Span(addr, sz * PageSize) \subseteq pool[ty]
    /\ pool' = [pool EXCEPT ![ty] = @ \ Span(addr, sz * PageSize)]
    /\ held' = held \cup {[ty |-> ty, addr |-> addr, size |-> sz * PageSize]}

(* A request for nothing is answered with some address and no memory.      *)
AllocNothing ==
  /\ \E h \in held' : h.size = 0 /\ held' = held \cup {h}
  /\ UNCHANGED pool

Free(h) ==
  /\ h \in held
  /\ held' = held \ {h}
  /\ \E back \in SUBSET Span(h.addr, h.size) :
       pool' = [pool EXCEPT ![h.ty] = @ \cup back]

Lose(ty) ==
  /\ pool' = [pool EXCEPT ![ty] = {}]
  /\ held' \in SUBSET held

Next ==
  \/ \E sz \in Requests, ty \in Types : Alloc(sz, ty)
  \/ AllocNothing
  \/ \E h \in held : Free(h)
  \/ \E ty \in Types : Lose(ty)

Spec == Init /\ [][Next]_vars
=============================================================================
