------------------------------ MODULE MCInput ------------------------------
(* Model-checking instance of Input: a ring of four cells, keys whose codes *)
(* look like the start of a packet, and a letter whose code does not.      *)
EXTENDS Input

MCRingSize == 4
MCKeys     == {SHIFT, SHIFT + UP, CTRL, 16}
MCMoves    == {[x |-> 1, y |-> -2]}
MCPresses  == {0, 1, 6}
MCSizes    == {2}

Loose   == MCKeys \cup 8 .. 15 \cup {d.x % 256 : d \in MCMoves} \cup {d.y % 256 : d \in MCMoves}
MCBytes == {0} \cup Loose \cup ButtonCodes
MCChunks ==
  {<<>>} \cup {<<b>> : b \in Loose} \cup {<<b, c>> : b, c \in Loose}
    \cup UNION {[1 .. n -> ButtonCodes] : n \in 1 .. 3}
=============================================================================
