------------------------------ MODULE MCPostage ------------------------------
(* Small instances of Postage for TLC. *)
EXTENDS Postage, TLC

CONSTANTS s1, r1, r2, d1

\* One session that writes to two recipients of the same node, so that the
\* second mail finds the runner of the first busy, past its snapshot, or
\* stopped, or is in the queue behind one that has expired.
SameNodeDestOf == (r1 :> d1) @@ (r2 :> d1)
SameNodeEnvelope == s1 :> <<r1, r2>>

=============================================================================
