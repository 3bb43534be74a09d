-------------------------------- MODULE MCImap --------------------------------
(* Small instances of Imap for TLC. *)
EXTENDS Imap, TLC

CONSTANTS inbox, trash, a, b, c, t1, t2

MCNames == {inbox, trash}
MCProtected == {inbox}
MCMails == {a, b}
MCThreads == {t1, t2}

\* A mail, another one and its copy; one connection.
MCThreeMails == {a, b, c}
MCOneThread == {t1}

\* 1:*
MCAll == {[start |-> 1, stop |-> 0]}

\* 2
MCSecond == {[start |-> 2, stop |-> 2]}

Symmetry == Permutations(MCMails) \cup Permutations(MCThreads)

\* Two commands, or one and a fault or an EXPUNGE that removes something.
Disturbed == issued + faults + (IF gone = {} THEN 0 ELSE 1)

\* No further once a name has changed its meaning or a COPY has written
\* \Deleted, which is not what DeletedWasAsked is about.
FewFaults == Disturbed <= 2 /\ (Disturbed = 2 => stable /\ ~copied)

=============================================================================
