----------------------------- MODULE MCPresence -----------------------------
(***************************************************************************)
(* Three connections, two of them of one user, on a server with two places.*)
(***************************************************************************)
EXTENDS Presence

CONSTANTS first, second, again, alice, bob

Connections == {first, second, again}
Users       == {alice, bob}
MCUserOf    == [c \in Conn |-> IF c = second THEN bob ELSE alice]

OneConnection  == {first}
TwoConnections == {first, second}
=============================================================================
