------------------------------ MODULE MCMailView ------------------------------
(* Small instances of MailView for TLC. *)
EXTENDS MailView, TLC

CONSTANTS inbox, sent, a, b, t1, t2

MCNames == {inbox}
MCTwoNames == {inbox, sent}
MCMails == {a, b}
MCThreads == {t1, t2}

\* "1:*", and "*"
MCAll == {[start |-> 1, stop |-> 0]}
MCSets == MCAll \cup {[start |-> 0, stop |-> 0]}

Symmetry == Permutations(MCMails) \cup Permutations(MCThreads)
                \cup Permutations(MCTwoNames)

\* What the tables do after the client's last FETCH they do without it, too.
StillLooking ==
    \/ looks < MaxLooks
    \/ fetch # NoFetch
    \/ \E n \in Names : reported[n].next > 1

=============================================================================
