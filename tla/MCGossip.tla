------------------------------ MODULE MCGossip ------------------------------
(* Three nodes; a builder at one of them.                                     *)
EXTENDS Gossip

CONSTANTS A, B, C, p, q

MCNode == {A, B, C}
MCLine == {{A, B}, {B, C}}
MCTriangle == {{A, B}, {B, C}, {A, C}}

Fb(id, i) == [payload_id |-> id, index |-> i, oversize |-> FALSE]

\* A late joiner may arrive before q, between its flashblocks, or after.
MCJob == <<Fb(p, 0), Fb(q, 0), Fb(q, 1)>>
MCShortJob == <<Fb(p, 0), Fb(q, 0)>>

\* What the theorems about trees assume holds of the line and not of the triangle.
ASSUME TreeAssumption == Tree <=> Edge = MCLine

=============================================================================
