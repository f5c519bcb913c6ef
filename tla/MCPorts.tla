------------------------------ MODULE MCPorts ------------------------------
(* Model-checking instances of Ports.                                      *)
EXTENDS Ports, TLC

CONSTANTS client, other, server

Chan(p, q) == [from |-> p, to |-> q, port |-> 1]

MCChannels == {Chan(client, server), Chan(other, server)}
MCSizes    == {2, 5, 6}
MCPageSize == 8

(* The two clients are interchangeable. *)
MCSymmetry == Permutations({client, other})
=============================================================================
