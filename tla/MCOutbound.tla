------------------------------ MODULE MCOutbound ------------------------------
(* Small instances of Outbound for TLC. *)
EXTENDS Outbound, TLC

CONSTANTS s1, s2, r1, r2, me, nobody, d1, d2

\* me is a user of this node: a delivery to me that is refused is queued for
\* d2, the address in me's host part.  nobody's address has no route.
MCDestOf == (r1 :> d1) @@ (r2 :> d1) @@ (me :> d2) @@ (nobody :> NoDest)

\* Two nodes, and every kind of recipient.
MCEnvelope == (s1 :> <<r1>>) @@ (s2 :> <<me, nobody>>)

=============================================================================
