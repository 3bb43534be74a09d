----------------------------- MODULE MCMailStore -----------------------------
(* Small instances of MailStore for TLC. *)
EXTENDS MailStore, TLC

CONSTANTS inbox, trash, a, b, t1, t2

MCNames == {inbox, trash}
MCProtected == {inbox}
MCMails == {a, b}
MCThreads == {t1, t2}

Symmetry == Permutations(MCMails) \cup Permutations(MCThreads)

=============================================================================
