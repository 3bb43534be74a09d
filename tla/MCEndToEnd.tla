----------------------------- MODULE MCEndToEnd -----------------------------
(* Small instances of EndToEnd for TLC. *)
EXTENDS EndToEnd, TLC

CONSTANTS s1, r1, r2, d1, c1

\* One mail to a user of the other node, by an alias of that user.
MCDestOf == r2 :> d1
MCEnvelope == s1 :> <<r2>>

=============================================================================
