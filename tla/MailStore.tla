------------------------------ MODULE MailStore ------------------------------
(***************************************************************************)
(* The mailbox and message tables of the MariaDB storage engine            *)
(* (internal/storage/mariadb/mariadb.go, schema.sql), under concurrent     *)
(* callers.                                                                *)
(*                                                                         *)
(* Every goroutine that stores a mail (an IMAP APPEND or COPY through      *)
(* MailCreate, an SMTP delivery through DeliverToUser, the sender's        *)
(* DeliverToSent) runs three autocommitted statements: read uid_next,      *)
(* INSERT at that uid, increment uid_next.  They are three steps here.     *)
(* MailMove runs in a transaction: one step for its snapshot read, one for *)
(* the two UPDATEs and the commit, whose row locks make them appear        *)
(* together.  All other methods are one statement and one step.            *)
(*                                                                         *)
(* Mailboxes of different users never meet in a statement, so Names are    *)
(* the (user, folder) pairs.  A mail is an opaque body; of its flags only  *)
(* \Deleted matters to what the tables keep.                               *)
(***************************************************************************)
EXTENDS Integers

CONSTANTS
    Names,      \* folder names, UNIQUE (user_id, name)
    Protected,  \* the folders IMAP refuses to delete or rename
    Mails,      \* bodies; each is handed to the store once
    Threads,    \* goroutines calling the storage
    MaxBox,     \* bound: rows ever inserted into mailboxes
    MaxUid,     \* bound: no new statement sequence starts above this uid
    MaxFaults   \* bound: lost statements and process crashes

ASSUME BoundsAssumption ==
    /\ MaxBox \in Nat
    /\ MaxUid \in Nat
    /\ MaxFaults \in Nat
    /\ Protected \subseteq Names

VARIABLES
    box,        \* Names -> id of the mailbox row, 0 when there is none
    nextId,     \* AUTO_INCREMENT of mailboxes.id
    uidNext,    \* mailbox id -> uid_next
    messages,   \* rows of messages: mailbox id, uid, body, \Deleted
    pc,         \* where each goroutine stands between two statements
    job,        \* the call's arguments
    target,     \* mailbox id its SELECT returned
    slot,       \* uid_next its SELECT returned
    told,       \* what the caller of each mail's delivery was answered
    gone,       \* mails removed on behalf of their owner
    faults

store == <<box, nextId, uidNext, messages>>
calls == <<pc, job, target, slot>>
seen  == <<told, gone>>
vars  == <<store, calls, seen, faults>>

BoxIds == 1 .. MaxBox

NoJob == [idle |-> TRUE]

\* Calls of MailCreate, and of DeliverToUser and DeliverToSent, which differ
\* from it in what they do about a failed UPDATE.
Deliveries == [mail : Mails, via : {"MailCreate", "Deliver"}]

Moves == [from : Names, uid : Nat]

TypeOK ==
    /\ box \in [Names -> 0 .. MaxBox]
    /\ nextId \in 1 .. MaxBox + 1
    /\ uidNext \in [BoxIds -> Nat \ {0}]
    /\ messages \subseteq
          [box : BoxIds, uid : Nat \ {0}, mail : Mails, deleted : BOOLEAN]
    /\ pc \in [Threads -> {"idle", "insert", "bump", "move"}]
    /\ job \in [Threads -> Deliveries \cup Moves \cup {NoJob}]
    /\ target \in [Threads -> 0 .. MaxBox]
    /\ slot \in [Threads -> Nat]
    /\ told \in [Mails -> {"nothing", "pending", "ok", "error"}]
    /\ gone \subseteq Mails
    /\ faults \in 0 .. MaxFaults

Live == {box[n] : n \in Names} \ {0}

Stored(b) == {x \in messages : x.box = b}

\* UNIQUE KEY (mailbox_id, uid) and the foreign key on mailbox_id.
CanInsert(b, u) == b \in Live /\ \A x \in Stored(b) : x.uid # u

MailsOf(rows) == {x.mail : x \in rows}

Init ==
    /\ box = [n \in Names |-> 0]
    /\ nextId = 1
    /\ uidNext = [b \in BoxIds |-> 1]
    /\ messages = {}
    /\ pc = [t \in Threads |-> "idle"]
    /\ job = [t \in Threads |-> NoJob]
    /\ target = [t \in Threads |-> 0]
    /\ slot = [t \in Threads |-> 0]
    /\ told = [m \in Mails |-> "nothing"]
    /\ gone = {}
    /\ faults = 0

Return(t) ==
    /\ pc' = [pc EXCEPT ![t] = "idle"]
    /\ job' = [job EXCEPT ![t] = NoJob]
    /\ target' = [target EXCEPT ![t] = 0]
    /\ slot' = [slot EXCEPT ![t] = 0]

Answer(m, a) == told' = [told EXCEPT ![m] = a]

\* Mutant: the UPDATE of uid_next sets the value it found.
IncrementLost(b) == uidNext' = [uidNext EXCEPT ![b] = @]

Increment(b) == uidNext' = [uidNext EXCEPT ![b] = @ + 1]

-----------------------------------------------------------------------------
(* MailCreate, DeliverToUser, DeliverToSent                                *)

\* SELECT id, uid_next.  A missing mailbox is an error that changes nothing.
ReadNext(t, n, m, via) ==
    /\ pc[t] = "idle"
    /\ told[m] = "nothing"
    /\ box[n] # 0
    /\ uidNext[box[n]] <= MaxUid
    /\ pc' = [pc EXCEPT ![t] = "insert"]
    /\ job' = [job EXCEPT ![t] = [mail |-> m, via |-> via]]
    /\ target' = [target EXCEPT ![t] = box[n]]
    /\ slot' = [slot EXCEPT ![t] = uidNext[box[n]]]
    /\ Answer(m, "pending")
    /\ UNCHANGED <<store, gone, faults>>

\* INSERT INTO messages.
Insert(t) ==
    /\ pc[t] = "insert"
    /\ CanInsert(target[t], slot[t])
    /\ messages' = messages \cup {[box |-> target[t], uid |-> slot[t],
                                   mail |-> job[t].mail, deleted |-> FALSE]}
    /\ pc' = [pc EXCEPT ![t] = "bump"]
    /\ UNCHANGED <<box, nextId, uidNext, job, target, slot, seen, faults>>

Fault == faults < MaxFaults /\ faults' = faults + 1

\* Mutant: the method counts the uid it was refused.
InsertRejectedCounted(t) ==
    /\ pc[t] = "insert"
    /\ \/ ~CanInsert(target[t], slot[t]) /\ UNCHANGED faults
       \/ Fault
    /\ Increment(target[t])
    /\ Answer(job[t].mail, "error")
    /\ Return(t)
    /\ UNCHANGED <<box, nextId, messages, gone>>

\* The INSERT violates a key, or fails: the method returns its error.
InsertRejected(t) ==
    /\ pc[t] = "insert"
    /\ \/ ~CanInsert(target[t], slot[t]) /\ UNCHANGED faults
       \/ Fault
    /\ Answer(job[t].mail, "error")
    /\ Return(t)
    /\ UNCHANGED <<store, gone>>

\* Mutant: a writer that finds the counter moved reports a conflict.
BumpChecked(t) ==
    /\ pc[t] = "bump"
    /\ IF target[t] \in Live THEN Increment(target[t]) ELSE UNCHANGED uidNext
    /\ Answer(job[t].mail, IF uidNext[target[t]] = slot[t] THEN "ok" ELSE "error")
    /\ Return(t)
    /\ UNCHANGED <<box, nextId, messages, gone, faults>>

\* UPDATE mailboxes SET uid_next = uid_next + 1; no row if the box is gone.
Bump(t) ==
    /\ pc[t] = "bump"
    /\ IF target[t] \in Live THEN Increment(target[t]) ELSE UNCHANGED uidNext
    /\ Answer(job[t].mail, "ok")
    /\ Return(t)
    /\ UNCHANGED <<box, nextId, messages, gone, faults>>

\* The UPDATE fails: MailCreate ignores it, the two Deliver methods report it.
BumpLost(t) ==
    /\ pc[t] = "bump"
    /\ Fault
    /\ Answer(job[t].mail, IF job[t].via = "MailCreate" THEN "ok" ELSE "error")
    /\ Return(t)
    /\ UNCHANGED <<store, gone>>

-----------------------------------------------------------------------------
(* MailMove                                                                *)

\* The transaction's SELECT of the destination's id and uid_next.
MoveRead(t, n, u, dest) ==
    /\ pc[t] = "idle"
    /\ box[n] # 0 /\ box[dest] # 0
    /\ uidNext[box[dest]] <= MaxUid
    /\ pc' = [pc EXCEPT ![t] = "move"]
    /\ job' = [job EXCEPT ![t] = [from |-> n, uid |-> u]]
    /\ target' = [target EXCEPT ![t] = box[dest]]
    /\ slot' = [slot EXCEPT ![t] = uidNext[box[dest]]]
    /\ UNCHANGED <<store, seen, faults>>

\* The rows the UPDATE of messages matches: the folder name is resolved now.
Moving(t) == {x \in messages : x.box = box[job[t].from] /\ x.uid = job[t].uid}

\* Mutant: the moved row gets the last uid given out, not the next one.
AtLast(x, b, u) == [box |-> b, uid |-> u - 1, mail |-> x.mail, deleted |-> x.deleted]

At(x, b, u) == [box |-> b, uid |-> u, mail |-> x.mail, deleted |-> x.deleted]

\* The keys allow the UPDATE; one that matches no row is not an error.
CanMove(t) ==
    \/ Moving(t) = {}
    \/ CanInsert(target[t], slot[t])
    \/ \E x \in Moving(t) : x.box = target[t] /\ x.uid = slot[t]

Moved(t) == {At(x, target[t], slot[t]) : x \in Moving(t)}

\* Mutant: the move is a copy.
MoveRowsByCopy(t) == messages' = messages \cup Moved(t)

MoveRows(t) == messages' = (messages \ Moving(t)) \cup Moved(t)

\* Mutant: the transaction commits before the second UPDATE.
MoveCommitEarly(t) ==
    /\ pc[t] = "move"
    /\ CanMove(t)
    /\ MoveRows(t)
    /\ Return(t)
    /\ UNCHANGED <<box, nextId, uidNext, seen, faults>>

\* UPDATE messages, UPDATE uid_next, COMMIT.
MoveCommit(t) ==
    /\ pc[t] = "move"
    /\ CanMove(t)
    /\ MoveRows(t)
    /\ IF target[t] \in Live THEN Increment(target[t]) ELSE UNCHANGED uidNext
    /\ Return(t)
    /\ UNCHANGED <<box, nextId, seen, faults>>

\* Mutant: the source rows are deleted first and stay deleted.
MoveAbortedHalfway(t) ==
    /\ pc[t] = "move"
    /\ messages' = messages \ Moving(t)
    /\ Return(t)
    /\ UNCHANGED <<box, nextId, uidNext, seen, faults>>

\* A key violation, or the victim of a lock deadlock: Rollback.
MoveAborted(t) ==
    /\ pc[t] = "move"
    /\ Return(t)
    /\ UNCHANGED <<store, seen, faults>>

-----------------------------------------------------------------------------
(* Single statements                                                       *)

Flagged(x, d) == [box |-> x.box, uid |-> x.uid, mail |-> x.mail, deleted |-> d]

\* MailUpdateFlags overwrites the flags of one row.
UpdateFlags(n, u, d) ==
    /\ \E x \in Stored(box[n]) : x.uid = u /\ x.deleted # d
    /\ messages' = {Flagged(x, IF x.box = box[n] /\ x.uid = u THEN d ELSE x.deleted) :
                       x \in messages}
    /\ UNCHANGED <<box, nextId, uidNext, calls, seen, faults>>

Remove(rows) ==
    /\ rows # {}
    /\ messages' = messages \ rows
    /\ gone' = gone \cup MailsOf(rows)
    /\ UNCHANGED <<nextId, uidNext, calls, told, faults>>

MailDelete(n, u) ==
    /\ Remove({x \in Stored(box[n]) : x.uid = u})
    /\ UNCHANGED box

MailExpunge(n) ==
    /\ Remove({x \in Stored(box[n]) : x.deleted})
    /\ UNCHANGED box

\* INSERT IGNORE INTO mailboxes: a fresh id, uid_next = 1, uid_validity = 1.
MailboxCreate(n) ==
    /\ box[n] = 0
    /\ nextId <= MaxBox
    /\ box' = [box EXCEPT ![n] = nextId]
    /\ nextId' = nextId + 1
    /\ UNCHANGED <<uidNext, messages, calls, seen, faults>>

\* DELETE FROM mailboxes, ON DELETE CASCADE to the messages.
MailboxDelete(n) ==
    /\ n \notin Protected
    /\ box[n] # 0
    /\ box' = [box EXCEPT ![n] = 0]
    /\ messages' = messages \ Stored(box[n])
    /\ gone' = gone \cup MailsOf(Stored(box[n]))
    /\ UNCHANGED <<nextId, uidNext, calls, told, faults>>

\* Mutant: a name in use is taken from its folder.
MailboxRenameOver(old, new) ==
    /\ old \notin Protected
    /\ box[old] # 0
    /\ box' = [box EXCEPT ![old] = 0, ![new] = box[old]]
    /\ UNCHANGED <<nextId, uidNext, messages, calls, seen, faults>>

\* UPDATE mailboxes SET name; UNIQUE (user_id, name) refuses a name in use.
MailboxRename(old, new) ==
    /\ old \notin Protected
    /\ box[old] # 0 /\ box[new] = 0
    /\ box' = [box EXCEPT ![old] = 0, ![new] = box[old]]
    /\ UNCHANGED <<nextId, uidNext, messages, calls, seen, faults>>

\* SIGTERM or a crash: main returns at once, every goroutine stops between
\* two statements and open transactions roll back.
Crash ==
    /\ Fault
    /\ \E t \in Threads : pc[t] # "idle"
    /\ pc' = [t \in Threads |-> "idle"]
    /\ job' = [t \in Threads |-> NoJob]
    /\ target' = [t \in Threads |-> 0]
    /\ slot' = [t \in Threads |-> 0]
    /\ UNCHANGED <<store, seen>>

-----------------------------------------------------------------------------

Next ==
    \/ \E t \in Threads :
          \/ \E n \in Names, m \in Mails, via \in {"MailCreate", "Deliver"} :
                ReadNext(t, n, m, via)
          \/ Insert(t)
          \/ InsertRejected(t)
          \/ Bump(t)
          \/ BumpLost(t)
          \/ \E n, dest \in Names, u \in 1 .. MaxUid : MoveRead(t, n, u, dest)
          \/ MoveCommit(t)
          \/ MoveAborted(t)
    \/ \E n \in Names, u \in 1 .. MaxUid :
          \/ \E d \in BOOLEAN : UpdateFlags(n, u, d)
          \/ MailDelete(n, u)
    \/ \E n \in Names :
          \/ MailExpunge(n)
          \/ MailboxCreate(n)
          \/ MailboxDelete(n)
          \/ \E new \in Names : MailboxRename(n, new)
    \/ Crash

Spec == Init /\ [][Next]_vars

-----------------------------------------------------------------------------
(* What the tables promise                                                 *)

\* Goroutine t has inserted at b's current uid_next and owes the increment.
Owes(t, b) == pc[t] = "bump" /\ target[t] = b /\ slot[t] = uidNext[b]

\* No message sits at or above uid_next, except one at uid_next itself whose
\* writer is between its INSERT and its UPDATE (mariadb.go:169-175).
\* MailMove and the other writers race on the same counter; a lost UPDATE or
\* a crash breaks it for good, so it is claimed of fault-free runs.
UidBelowNext ==
    faults = 0 =>
        \A x \in messages :
            \/ x.uid < uidNext[x.box]
            \/ x.uid = uidNext[x.box] /\ \E t \in Threads : Owes(t, x.box)

\* However calls interleaved, once nobody owes an increment to a mailbox the
\* next delivery into it is not refused by UNIQUE (mailbox_id, uid).
QuiescentAccepts ==
    faults = 0 =>
        \A b \in Live : (\A t \in Threads : ~Owes(t, b)) => CanInsert(b, uidNext[b])

\* A mail whose delivery returned success is in a mailbox until its owner
\* deletes or expunges it or drops the folder: moves, renames, refused
\* inserts, rollbacks and crashes never lose it.
AcknowledgedKept ==
    \A m \in Mails : told[m] = "ok" => m \in MailsOf(messages) \cup gone

\* A delivery that returned an error left nothing behind, so a caller that
\* tries another route (sender.go:108, session_ygg.go:156) makes no duplicate.
\* The error of a lost UPDATE is the exception, hence fault-free runs.
RefusedNotStored ==
    faults = 0 => \A m \in Mails : told[m] = "error" => m \notin MailsOf(messages)

\* No interleaving of moves with anything else duplicates a mail.
OneCopy == \A x, y \in messages : x.mail = y.mail => x = y

\* The tables as folders that hold mails.
Atomic == INSTANCE Mailboxes WITH
    folders <- [n \in {k \in Names : box[k] # 0} |-> MailsOf(Stored(box[n]))],
    removed <- gone,
    answer  <- told

\* The statements of concurrent calls, refused, lost or cut off by a crash, add
\* up to folders that change in one step: each delivery takes effect at its
\* INSERT, each move at its commit, and a mail that was removed stays so.
ImplementsMailboxes == Atomic!BoxSpec

\* What the comment on DeliverToUser says without exception: it delivers to
\* the INBOX of a local user.  An UPDATE whose failure MailCreate ignores
\* (mariadb.go:175) refutes it, and so would a crash in its place: every later
\* delivery, DeliverToUser's included, reads the occupied uid and is refused.
IdleMailboxAccepts ==
    \A b \in Live :
        (\A t \in Threads : pc[t] = "idle") => CanInsert(b, uidNext[b])

=============================================================================
