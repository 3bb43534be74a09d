----------------------------- MODULE MCDirectory -----------------------------
(* A small instance of Directory for TLC. *)
EXTENDS Directory

CONSTANTS alice, bob, node1, c1, c2

MCAddresses == {alice, bob}

=============================================================================
