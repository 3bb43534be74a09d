------------------------------ MODULE Mailboxes ------------------------------
(***************************************************************************)
(* What a mail store promises, without tables, uids or goroutines: folders *)
(* that hold sets of mails and change in one step.  A mail handed over is  *)
(* put into a folder at one moment between the call and its answer, is in  *)
(* one folder only, moves as a whole, and leaves when its owner removes it *)
(* or drops the folder, never to come back.  An answer says whether the    *)
(* mail was put, except that each fault may excuse one.                    *)
(***************************************************************************)
EXTENDS Integers

CONSTANTS
    Names,
    Protected,  \* folders that stay
    Mails

VARIABLES
    folders,    \* of each folder there is: its mails
    removed,    \* mails removed for good
    answer,     \* what the caller that handed a mail over was told
    faults

boxVars == <<folders, removed, answer, faults>>

Held == UNION {folders[n] : n \in DOMAIN folders}

BoxInit ==
    /\ folders = [n \in {} |-> {}]
    /\ removed = {}
    /\ answer = [m \in Mails |-> "nothing"]
    /\ faults = 0

Answered(m, a) ==
    /\ answer[m] = "pending"
    /\ answer' = [answer EXCEPT ![m] = a]
    /\ UNCHANGED <<folders, removed>>

HandOver(m) ==
    /\ answer[m] = "nothing"
    /\ answer' = [answer EXCEPT ![m] = "pending"]
    /\ UNCHANGED <<folders, removed, faults>>

Put(m, n) ==
    /\ answer[m] = "pending"
    /\ m \notin Held \cup removed
    /\ folders' = [folders EXCEPT ![n] = @ \cup {m}]
    /\ UNCHANGED <<removed, answer, faults>>

Confirm(m) == m \in Held \cup removed /\ Answered(m, "ok")

Refuse(m) == m \notin Held \cup removed /\ Answered(m, "error")

\* A fault: a mail may be put and its caller told of an error, or not told.
Disturb ==
    /\ faults' = faults + 1
    /\ \/ \E m \in Mails : Confirm(m) \/ Answered(m, "error")
       \/ UNCHANGED <<folders, removed, answer>>

Transfer(m, n, k) ==
    /\ m \in folders[n]
    /\ folders' = [folders EXCEPT ![n] = @ \ {m}, ![k] = @ \cup {m}]
    /\ UNCHANGED <<removed, answer, faults>>

Discard(M, n) ==
    /\ folders' = [folders EXCEPT ![n] = @ \ M]
    /\ removed' = removed \cup M
    /\ UNCHANGED <<answer, faults>>

Create(n) ==
    /\ n \notin DOMAIN folders
    /\ folders' = [k \in DOMAIN folders \cup {n} |-> IF k = n THEN {} ELSE folders[k]]
    /\ UNCHANGED <<removed, answer, faults>>

Drop(n) ==
    /\ n \notin Protected
    /\ folders' = [k \in DOMAIN folders \ {n} |-> folders[k]]
    /\ removed' = removed \cup folders[n]
    /\ UNCHANGED <<answer, faults>>

Rename(n, new) ==
    /\ n \notin Protected
    /\ new \notin DOMAIN folders
    /\ folders' = [k \in (DOMAIN folders \ {n}) \cup {new} |->
                      IF k = new THEN folders[n] ELSE folders[k]]
    /\ UNCHANGED <<removed, answer, faults>>

BoxNext ==
    \/ \E m \in Mails :
          \/ HandOver(m)
          \/ (Confirm(m) \/ Refuse(m)) /\ UNCHANGED faults
    \/ \E n \in DOMAIN folders :
          \/ \E m \in Mails : Put(m, n)
          \/ \E m \in folders[n], k \in DOMAIN folders : Transfer(m, n, k)
          \/ \E M \in SUBSET folders[n] : Discard(M, n)
          \/ Drop(n)
          \/ \E new \in Names : Rename(n, new)
    \/ \E n \in Names : Create(n)
    \/ Disturb

BoxSpec == BoxInit /\ [][BoxNext]_boxVars

=============================================================================
