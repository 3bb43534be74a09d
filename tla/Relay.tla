-------------------------------- MODULE Relay --------------------------------
(***************************************************************************)
(* What a node promises for mail to other nodes, without tables, runners   *)
(* or faults: at-least-once delivery.  The node takes responsibility for a *)
(* mail, hands it over one or more times, and only then may let it go.     *)
(***************************************************************************)

CONSTANT Mails

VARIABLES
    kept,       \* mails the node is responsible for
    arrived     \* mails their destination has

relayVars == <<kept, arrived>>

RelayTypeOK == kept \subseteq Mails /\ arrived \subseteq Mails

RelayInit == kept = {} /\ arrived = {}

Accept(m) == kept' = kept \cup {m} /\ UNCHANGED arrived

\* Mails of several destinations may arrive at once.
HandOver(M) ==
    /\ M \subseteq kept
    /\ arrived' = arrived \cup M
    /\ UNCHANGED kept

Release(m) ==
    /\ m \in kept \cap arrived
    /\ kept' = kept \ {m}
    /\ UNCHANGED arrived

RelayNext ==
    \/ \E m \in Mails : Accept(m) \/ Release(m)
    \/ \E M \in SUBSET kept : HandOver(M)

RelaySpec == RelayInit /\ [][RelayNext]_relayVars

=============================================================================
