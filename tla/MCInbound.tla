------------------------------ MODULE MCInbound ------------------------------
(* Small instances of Inbound for TLC. *)
EXTENDS Inbound, TLC

CONSTANTS alice, bob, node1, node2, p1, p2, c1, c2

\* p1 writes to a user by address and through an alias; p2 has paid for the
\* first of its two recipients only.
MCRcptsOf == (p1 :> <<alice, node1>>) @@ (p2 :> <<bob, node1>>)
MCStamped == (p1 :> {alice, node1}) @@ (p2 :> {bob})

=============================================================================
