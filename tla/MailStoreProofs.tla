--------------------------- MODULE MailStoreProofs ---------------------------
(***************************************************************************)
(* Proofs about MailStore for any number of goroutines, folders, mails and *)
(* faults.  The invariant is built in four layers, each proved from the    *)
(* ones below it: types, the uid counter, the fate of every mail, folders. *)
(* From the last one follows the refinement of Mailboxes.                  *)
(***************************************************************************)
EXTENDS MailStore, TLAPS

-----------------------------------------------------------------------------
(* Layer 1: types                                                          *)

\* Between two statements a goroutine holds the arguments of the method it is
\* in, and the uid it read is at most the counter it read it from.
CallsOK ==
    \A t \in Threads :
        /\ pc[t] \in {"insert", "bump"} => job[t] \in Deliveries
        /\ pc[t] = "move" => job[t] \in Moves
        /\ pc[t] # "idle" => /\ target[t] \in BoxIds
                             /\ slot[t] \in 1 .. uidNext[target[t]]

TypeInv == TypeOK /\ CallsOK

\* uid_next of every mailbox stays or grows in this step.
CounterGrows ==
    /\ uidNext' \in [BoxIds -> Nat \ {0}]
    /\ \A b \in BoxIds : uidNext[b] <= uidNext'[b]

\* The UPDATE of uid_next moves one counter and moves it up.
LEMMA Incremented ==
  ASSUME uidNext \in [BoxIds -> Nat \ {0}], NEW b \in BoxIds, Increment(b)
  PROVE  CounterGrows
  BY DEF Increment, CounterGrows

\* The initial tables are well typed and no call is in progress.
LEMMA TypeInit == Init => TypeInv
  BY BoundsAssumption DEF Init, TypeInv, TypeOK, CallsOK, BoxIds

\* Every statement keeps the tables and the calls in progress well typed.
LEMMA TypeStep == TypeInv /\ [Next]_vars => TypeInv'
<1> SUFFICES ASSUME TypeInv, [Next]_vars PROVE TypeInv'
  OBVIOUS
<1> USE BoundsAssumption DEF TypeInv, TypeOK, CallsOK, BoxIds, store, calls, seen
<1>1. ASSUME NEW t \in Threads, NEW n \in Names, NEW m \in Mails,
             NEW via \in {"MailCreate", "Deliver"}, ReadNext(t, n, m, via)
      PROVE  TypeInv'
  BY <1>1 DEF ReadNext, Answer, Deliveries
<1>2. ASSUME NEW t \in Threads, Insert(t) PROVE TypeInv'
  <2>1. [box |-> target[t], uid |-> slot[t], mail |-> job[t].mail, deleted |-> FALSE]
           \in [box : BoxIds, uid : Nat \ {0}, mail : Mails, deleted : BOOLEAN]
    BY <1>2 DEF Insert, Deliveries
  <2>2. TypeOK'
    BY <1>2, <2>1 DEF Insert
  <2>3. CallsOK'
    BY <1>2 DEF Insert
  <2> QED
    BY <2>2, <2>3
<1>3. ASSUME NEW t \in Threads, InsertRejected(t) PROVE TypeInv'
  BY <1>3 DEF InsertRejected, Answer, Return, Deliveries, Fault
<1>4. ASSUME NEW t \in Threads, Bump(t) PROVE TypeInv'
  <2>1. target[t] \in BoxIds /\ job[t].mail \in Mails
    BY <1>4 DEF Bump, Deliveries
  <2>2. CounterGrows
    BY <1>4, <2>1, Incremented DEF Bump, CounterGrows
  <2>3. TypeOK'
    <3>1. told' \in [Mails -> {"nothing", "pending", "ok", "error"}]
      BY <1>4, <2>1 DEF Bump, Answer
    <3>2. /\ pc' \in [Threads -> {"idle", "insert", "bump", "move"}]
          /\ job' \in [Threads -> Deliveries \cup Moves \cup {NoJob}]
          /\ target' \in [Threads -> 0 .. MaxBox]
          /\ slot' \in [Threads -> Nat]
      BY <1>4 DEF Bump, Return
    <3> QED
      BY <1>4, <2>2, <3>1, <3>2 DEF Bump, CounterGrows
  <2>4. CallsOK'
    BY <1>4, <2>2 DEF Bump, Return, CounterGrows
  <2> QED
    BY <2>3, <2>4
<1>5. ASSUME NEW t \in Threads, BumpLost(t) PROVE TypeInv'
  BY <1>5 DEF BumpLost, Answer, Return, Deliveries, Fault
<1>6. ASSUME NEW t \in Threads, NEW n \in Names, NEW dest \in Names,
             NEW u \in 1 .. MaxUid, MoveRead(t, n, u, dest)
      PROVE  TypeInv'
  BY SMTT(30), <1>6 DEF MoveRead, Moves
<1>7. ASSUME NEW t \in Threads, MoveCommit(t) PROVE TypeInv'
  <2>1. target[t] \in BoxIds /\ slot[t] \in Nat \ {0}
    BY <1>7 DEF MoveCommit
  <2>2. CounterGrows
    BY <1>7, <2>1, Incremented DEF MoveCommit, CounterGrows
  <2>3. messages' \subseteq
           [box : BoxIds, uid : Nat \ {0}, mail : Mails, deleted : BOOLEAN]
    BY <1>7, <2>1 DEF MoveCommit, MoveRows, Moved, Moving, At
  <2>4. TypeOK'
    BY SMTT(30), <1>7, <2>2, <2>3 DEF MoveCommit, Return, CounterGrows
  <2>5. CallsOK'
    BY <1>7, <2>2 DEF MoveCommit, Return, CounterGrows
  <2> QED
    BY <2>4, <2>5
<1>8. ASSUME NEW t \in Threads, MoveAborted(t) PROVE TypeInv'
  BY <1>8 DEF MoveAborted, Return
<1>9. ASSUME NEW n \in Names, NEW u \in 1 .. MaxUid, NEW d \in BOOLEAN,
             UpdateFlags(n, u, d)
      PROVE  TypeInv'
  BY <1>9 DEF UpdateFlags, Flagged
<1>10. ASSUME NEW n \in Names, NEW u \in 1 .. MaxUid, MailDelete(n, u)
       PROVE  TypeInv'
  BY <1>10 DEF MailDelete, Remove, MailsOf, Stored
<1>11. ASSUME NEW n \in Names, MailExpunge(n) PROVE TypeInv'
  BY <1>11 DEF MailExpunge, Remove, MailsOf, Stored
<1>12. ASSUME NEW n \in Names, MailboxCreate(n) PROVE TypeInv'
  BY <1>12 DEF MailboxCreate
<1>13. ASSUME NEW n \in Names, MailboxDelete(n) PROVE TypeInv'
  BY <1>13 DEF MailboxDelete, MailsOf, Stored
<1>14. ASSUME NEW n \in Names, NEW new \in Names, MailboxRename(n, new)
       PROVE  TypeInv'
  BY <1>14 DEF MailboxRename
<1>15. ASSUME Crash PROVE TypeInv'
  BY <1>15 DEF Crash, Fault
<1>16. ASSUME UNCHANGED vars PROVE TypeInv'
  BY <1>16 DEF vars
<1> HIDE DEF TypeInv
<1> QED
  BY <1>1, <1>2, <1>3, <1>4, <1>5, <1>6, <1>7, <1>8, <1>9, <1>10, <1>11, <1>12,
     <1>13, <1>14, <1>15, <1>16 DEF Next

\* The tables and every call in progress stay well typed (mariadb.go).
THEOREM TypeCorrect == Spec => []TypeOK
<1>1. TypeInv => TypeOK
  BY DEF TypeInv
<1> QED
  BY TypeInit, TypeStep, <1>1, PTL DEF Spec

-----------------------------------------------------------------------------
(* Layer 2: the uid counter                                                *)

ForeignKey == \A x \in messages : x.box \in Live

CounterInv == ForeignKey /\ UidBelowNext

\* There are no messages yet.
LEMMA CounterInit == Init => CounterInv
  BY DEF Init, CounterInv, ForeignKey, UidBelowNext

\* No statement leaves a message without its mailbox.
LEMMA ForeignKeyStep == TypeInv /\ ForeignKey /\ [Next]_vars => ForeignKey'
<1> SUFFICES ASSUME TypeInv, ForeignKey, [Next]_vars PROVE ForeignKey'
  OBVIOUS
<1> USE DEF ForeignKey, Live
<1>1. ASSUME NEW t \in Threads, Insert(t) PROVE ForeignKey'
  BY <1>1 DEF Insert, CanInsert
<1>2. ASSUME NEW t \in Threads, MoveCommit(t) PROVE ForeignKey'
  BY <1>2 DEF MoveCommit, MoveRows, CanMove, Moved, CanInsert, Moving, At
<1>3. ASSUME NEW n \in Names, NEW u \in 1 .. MaxUid, NEW d \in BOOLEAN,
             UpdateFlags(n, u, d)
      PROVE  ForeignKey'
  BY <1>3 DEF UpdateFlags, Flagged
<1>4. ASSUME NEW n \in Names, NEW u \in 1 .. MaxUid, MailDelete(n, u)
      PROVE  ForeignKey'
  BY <1>4 DEF MailDelete, Remove
<1>5. ASSUME NEW n \in Names, MailExpunge(n) PROVE ForeignKey'
  BY <1>5 DEF MailExpunge, Remove
<1>6. ASSUME NEW n \in Names, MailboxCreate(n) PROVE ForeignKey'
  BY <1>6 DEF MailboxCreate, TypeInv, TypeOK
<1>7. ASSUME NEW n \in Names, MailboxDelete(n) PROVE ForeignKey'
  BY <1>7 DEF MailboxDelete, Stored, TypeInv, TypeOK
<1>8. ASSUME NEW n \in Names, NEW new \in Names, MailboxRename(n, new)
      PROVE  ForeignKey'
  BY <1>8 DEF MailboxRename, TypeInv, TypeOK
<1>9. ASSUME UNCHANGED <<box, messages>> PROVE ForeignKey'
  BY <1>9
<1> HIDE DEF ForeignKey, Live
<1> QED
  BY <1>1, <1>2, <1>3, <1>4, <1>5, <1>6, <1>7, <1>8, <1>9
  DEF Next, vars, store, ReadNext, InsertRejected, Bump, BumpLost, MoveRead,
      MoveAborted, Crash

\* A counter may be behind a message only while that message's writer still
\* owes the increment; a fault excuses everything.
LEMMA CounterStep ==
  TypeInv /\ ForeignKey /\ UidBelowNext /\ [Next]_vars => UidBelowNext'
<1> SUFFICES ASSUME TypeInv, ForeignKey, UidBelowNext, [Next]_vars, faults' = 0
             PROVE  \A x \in messages' :
                       \/ x.uid < uidNext'[x.box]
                       \/ x.uid = uidNext'[x.box] /\ \E t \in Threads : Owes(t, x.box)'
  BY DEF UidBelowNext
<1> DEFINE Below(x) ==
      \/ x.uid < uidNext[x.box]
      \/ x.uid = uidNext[x.box] /\ \E t \in Threads : Owes(t, x.box)
<1>0. ASSUME faults = 0 PROVE \A x \in messages : Below(x)
  BY <1>0 DEF UidBelowNext
<1>t. /\ uidNext \in [BoxIds -> Nat \ {0}]
      /\ pc \in [Threads -> {"idle", "insert", "bump", "move"}]
      /\ target \in [Threads -> 0 .. MaxBox]
      /\ slot \in [Threads -> Nat]
      /\ \A x \in messages : x.box \in BoxIds /\ x.uid \in Nat
  BY DEF TypeInv, TypeOK
<1>s. \A t \in Threads : pc[t] # "idle" =>
         /\ target[t] \in BoxIds
         /\ slot[t] \in Nat
         /\ slot[t] <= uidNext[target[t]]
  BY <1>t DEF TypeInv, CallsOK
<1>f. faults \in Nat
  BY BoundsAssumption DEF TypeInv, TypeOK
<1> USE DEF Owes
<1>1. ASSUME NEW t \in Threads, NEW n \in Names, NEW m \in Mails,
             NEW via \in {"MailCreate", "Deliver"}, ReadNext(t, n, m, via)
      PROVE  \A x \in messages' : Below(x)'
  BY <1>1, <1>0, <1>t, <1>s DEF ReadNext, store
<1>2. ASSUME NEW t \in Threads, Insert(t) PROVE \A x \in messages' : Below(x)'
  <2>1. Owes(t, target[t])' \/ slot[t] < uidNext'[target[t]]
    BY <1>2, <1>t, <1>s DEF Insert
  <2>2. ASSUME NEW x \in messages PROVE Below(x)'
    BY <1>2, <1>0, <1>t, <1>s DEF Insert
  <2> QED
    BY <1>2, <1>t, <2>1, <2>2 DEF Insert
<1>3. ASSUME NEW t \in Threads, InsertRejected(t)
      PROVE  \A x \in messages' : Below(x)'
  BY <1>3, <1>0, <1>t, <1>s, <1>f DEF InsertRejected, Return, store, Fault
<1>4. ASSUME NEW t \in Threads, Bump(t) PROVE \A x \in messages' : Below(x)'
  <2>1. CASE target[t] \in Live
    <3>1. ASSUME NEW x \in messages, x.box = target[t] PROVE x.uid < uidNext'[x.box]
      BY <1>4, <1>0, <1>t, <1>s, <2>1, <3>1 DEF Bump, Increment
    <3>2. ASSUME NEW x \in messages, x.box # target[t] PROVE Below(x)'
      BY <1>4, <1>0, <1>t, <1>s, <2>1, <3>2 DEF Bump, Return, Increment
    <3> QED
      BY <1>4, <3>1, <3>2 DEF Bump
  <2>2. CASE target[t] \notin Live
    BY <1>4, <1>0, <1>t, <1>s, <2>2 DEF Bump, Return, ForeignKey
  <2> QED
    BY <2>1, <2>2
<1>5. ASSUME NEW t \in Threads, NEW n \in Names, NEW dest \in Names,
             NEW u \in 1 .. MaxUid, MoveRead(t, n, u, dest)
      PROVE  \A x \in messages' : Below(x)'
  BY <1>5, <1>0, <1>t, <1>s DEF MoveRead, store
<1>6. ASSUME NEW t \in Threads, MoveCommit(t)
      PROVE  \A x \in messages' : Below(x)'
  <2>1. CASE target[t] \in Live
    <3>1. ASSUME NEW x \in messages, x.box = target[t] PROVE x.uid < uidNext'[x.box]
      BY <1>6, <1>0, <1>t, <1>s, <2>1, <3>1 DEF MoveCommit, Increment
    <3>2. ASSUME NEW x \in messages, x.box # target[t] PROVE Below(x)'
      BY <1>6, <1>0, <1>t, <1>s, <2>1, <3>2 DEF MoveCommit, Return, Increment
    <3>3. slot[t] < uidNext'[target[t]]
      BY <1>6, <1>t, <1>s, <2>1 DEF MoveCommit, Increment
    <3> QED
      BY <1>6, <3>1, <3>2, <3>3 DEF MoveCommit, MoveRows, Moved, At
  <2>2. CASE target[t] \notin Live
    BY <1>6, <1>0, <1>t, <1>s, <2>2 DEF MoveCommit, MoveRows, CanMove, Moved, Moving, CanInsert, Return, ForeignKey
  <2> QED
    BY <2>1, <2>2
<1>7. ASSUME NEW t \in Threads, MoveAborted(t)
      PROVE  \A x \in messages' : Below(x)'
  BY <1>7, <1>0, <1>t, <1>s DEF MoveAborted, Return, store
<1>8. ASSUME NEW n \in Names, NEW u \in 1 .. MaxUid, NEW d \in BOOLEAN,
             UpdateFlags(n, u, d)
      PROVE  \A x \in messages' : Below(x)'
  BY <1>8, <1>0, <1>t, <1>s DEF UpdateFlags, Flagged, calls
<1>9. ASSUME UNCHANGED <<uidNext, calls, faults>>, messages' \subseteq messages
      PROVE  \A x \in messages' : Below(x)'
  BY <1>9, <1>0, <1>t, <1>s DEF calls
<1>10. ASSUME NEW t \in Threads, BumpLost(t) PROVE FALSE
  BY <1>10, <1>f DEF BumpLost, Fault
<1>11. ASSUME Crash PROVE FALSE
  BY <1>11, <1>f DEF Crash, Fault
<1> HIDE DEF Owes, Below
<1>12. \A x \in messages' : Below(x)'
  BY <1>1, <1>2, <1>3, <1>4, <1>5, <1>6, <1>7, <1>8, <1>9, <1>10, <1>11
  DEF Next, vars, store, calls, MailDelete, MailExpunge, Remove, MailboxCreate,
      MailboxDelete, MailboxRename
<1> QED
  BY <1>12 DEF Below

\* In every reachable state no message is ahead of its mailbox's counter,
\* unless its writer is about to move the counter or a fault has happened.
THEOREM CounterCorrect == Spec => []UidBelowNext
<1>1. TypeInv /\ CounterInv /\ [Next]_vars => (TypeInv /\ CounterInv)'
  BY TypeStep, ForeignKeyStep, CounterStep DEF CounterInv
<1>2. CounterInv => UidBelowNext
  BY DEF CounterInv
<1> QED
  BY TypeInit, CounterInit, <1>1, <1>2, PTL DEF Spec

\* What the counter is for: without faults, a mailbox nobody is writing to
\* never refuses the next delivery.
LEMMA CounterAccepts == TypeInv /\ UidBelowNext => QuiescentAccepts
<1> SUFFICES ASSUME TypeInv, UidBelowNext, faults = 0, NEW b \in Live,
                    \A t \in Threads : ~Owes(t, b),
                    NEW x \in messages, x.box = b, x.uid = uidNext[b]
             PROVE  FALSE
  BY DEF QuiescentAccepts, CanInsert, Stored
<1>1. x.uid < uidNext[b]
  BY DEF UidBelowNext
<1>2. b \in BoxIds /\ uidNext[b] \in Nat
  BY BoundsAssumption DEF TypeInv, TypeOK, Live, BoxIds
<1> QED
  BY <1>1, <1>2

\* However MailCreate, DeliverToUser, DeliverToSent and MailMove interleave,
\* a quiet mailbox accepts the next mail (mariadb.go:160-177, 272-308).
THEOREM QuietMailboxAccepts == Spec => []QuiescentAccepts
<1>1. TypeInv /\ CounterInv /\ [Next]_vars => (TypeInv /\ CounterInv)'
  BY TypeStep, ForeignKeyStep, CounterStep DEF CounterInv
<1>2. TypeInv /\ CounterInv => QuiescentAccepts
  BY CounterAccepts DEF CounterInv
<1> QED
  BY TypeInit, CounterInit, <1>1, <1>2, PTL DEF Spec

\* UNIQUE KEY (mailbox_id, uid).
UniqueUids == \A x, y \in messages : x.box = y.box /\ x.uid = y.uid => x = y

\* INSERT and the two UPDATEs that change a row keep (mailbox_id, uid) a key;
\* a MOVE matches at most one row and writes it at a free uid or in its place.
LEMMA UniqueUidsStep == TypeInv /\ UniqueUids /\ Next => UniqueUids'
<1> SUFFICES ASSUME TypeInv, UniqueUids, Next PROVE UniqueUids'
  OBVIOUS
<1>1. ASSUME NEW t \in Threads, Insert(t) PROVE UniqueUids'
  <2>1. \A x \in messages : x.box = target[t] => x.uid # slot[t]
    BY <1>1 DEF Insert, CanInsert, Stored
  <2>2. \A x, y \in messages' : x \notin messages /\ y \notin messages => x = y
    BY <1>1 DEF Insert
  <2>3. \A x \in messages' : x \notin messages => x.box = target[t] /\ x.uid = slot[t]
    BY <1>1 DEF Insert
  <2> QED
    BY <2>1, <2>2, <2>3 DEF UniqueUids
<1>2. ASSUME NEW t \in Threads, MoveCommit(t) PROVE UniqueUids'
  <2>1. \A x, y \in Moving(t) : x = y
    BY DEF Moving, UniqueUids
  <2>2. \A x \in messages \ Moving(t) :
           Moving(t) # {} => ~(x.box = target[t] /\ x.uid = slot[t])
    BY <1>2, <2>1 DEF MoveCommit, CanMove, CanInsert, Stored, UniqueUids, Moving
  <2>3. /\ \A y \in Moved(t) : Moving(t) # {} /\ y.box = target[t] /\ y.uid = slot[t]
        /\ \A y, z \in Moved(t) : y = z
    BY <2>1 DEF Moved, At
  <2>4. messages' = (messages \ Moving(t)) \cup Moved(t)
    BY <1>2 DEF MoveCommit, MoveRows
  <2> QED
    BY <2>2, <2>3, <2>4 DEF UniqueUids
<1>3. ASSUME NEW n \in Names, NEW u \in 1 .. MaxUid, NEW d \in BOOLEAN,
             UpdateFlags(n, u, d)
      PROVE  UniqueUids'
  BY <1>3 DEF UpdateFlags, Flagged, UniqueUids
<1>4. ASSUME messages' \subseteq messages PROVE UniqueUids'
  BY <1>4 DEF UniqueUids
<1> QED
  BY <1>1, <1>2, <1>3, <1>4
  DEF Next, store, ReadNext, InsertRejected, Bump, BumpLost, MoveRead,
      MoveAborted, MailDelete, MailExpunge, Remove, MailboxCreate,
      MailboxDelete, MailboxRename, Crash

-----------------------------------------------------------------------------
(* Layer 3: the fate of every mail                                         *)

\* Each mail is in at most one call, which has not been answered; before its
\* INSERT the mail is nowhere, after it the mail is stored or was removed.
CarriedOnce ==
    \A t \in Threads : pc[t] \in {"insert", "bump"} =>
        /\ told[job[t].mail] = "pending"
        /\ pc[t] = "insert" => job[t].mail \notin MailsOf(messages)
        /\ pc[t] = "bump" => job[t].mail \in MailsOf(messages) \cup gone
        /\ \A u \in Threads :
              pc[u] \in {"insert", "bump"} /\ job[u].mail = job[t].mail => u = t

NotYetStored ==
    \A m \in Mails : told[m] = "nothing" => m \notin MailsOf(messages)

MailInv ==
    /\ CarriedOnce
    /\ NotYetStored
    /\ AcknowledgedKept
    /\ RefusedNotStored
    /\ OneCopy

\* No mail has been handed to the store.
LEMMA MailInit == Init => MailInv
  BY DEF Init, MailInv, CarriedOnce, NotYetStored, AcknowledgedKept,
         RefusedNotStored, OneCopy, MailsOf

\* Rows that carry the same mails store the same mails.
LEMMA SameMails ==
  ASSUME NEW old, NEW new,
         \A x \in old : \E y \in new : y.mail = x.mail,
         \A y \in new : \E x \in old : y.mail = x.mail
  PROVE  MailsOf(new) = MailsOf(old)
  BY DEF MailsOf

\* INSERT INTO messages stores one mail and disturbs no other.
LEMMA InsertedMail ==
  ASSUME NEW t \in Threads, Insert(t)
  PROVE  MailsOf(messages') = MailsOf(messages) \cup {job[t].mail}
<1> DEFINE row == [box |-> target[t], uid |-> slot[t], mail |-> job[t].mail,
                   deleted |-> FALSE]
<1>1. messages' = messages \cup {row} /\ row.mail = job[t].mail
  BY DEF Insert
<1> HIDE DEF row
<1> QED
  BY <1>1 DEF MailsOf

\* MailMove changes where a mail is, never which mails there are.
LEMMA MovedMails ==
  ASSUME NEW t \in Threads, MoveCommit(t)
  PROVE  MailsOf(messages') = MailsOf(messages)
<1> DEFINE moved == {At(x, target[t], slot[t]) : x \in Moving(t)}
<1>1. messages' = (messages \ Moving(t)) \cup moved
  BY DEF MoveCommit, MoveRows, Moved
<1>2. \A x \in Moving(t) : x \in messages /\ At(x, target[t], slot[t]).mail = x.mail
  BY DEF Moving, At
<1>3. \A x \in messages : \E y \in messages' : y.mail = x.mail
  BY <1>1, <1>2
<1>4. \A y \in messages' : \E x \in messages : y.mail = x.mail
  BY <1>1, <1>2
<1> QED
  BY <1>3, <1>4, SameMails

\* Nor does MailUpdateFlags.
LEMMA FlaggedMails ==
  ASSUME NEW n, NEW u, NEW d, UpdateFlags(n, u, d)
  PROVE  MailsOf(messages') = MailsOf(messages)
<1> DEFINE row(x) ==
       Flagged(x, IF x.box = box[n] /\ x.uid = u THEN d ELSE x.deleted)
<1>1. messages' = {row(x) : x \in messages}
  BY DEF UpdateFlags
<1>2. \A x \in messages : row(x).mail = x.mail
  BY DEF Flagged
<1> HIDE DEF row
<1>3. \A x \in messages : \E y \in messages' : y.mail = x.mail
  BY <1>1, <1>2
<1>4. \A y \in messages' : \E x \in messages : y.mail = x.mail
  BY <1>1, <1>2
<1> QED
  BY <1>3, <1>4, SameMails

\* Removing rows, moving a row and rewriting its flags copy no mail.
LEMMA OneCopyStep ==
  TypeInv /\ CarriedOnce /\ OneCopy /\ [Next]_vars => OneCopy'
<1> SUFFICES ASSUME TypeInv, CarriedOnce, OneCopy, [Next]_vars PROVE OneCopy'
  OBVIOUS
<1> USE DEF OneCopy
<1>1. ASSUME NEW t \in Threads, Insert(t) PROVE OneCopy'
  <2>1. \A x \in messages : x.mail # job[t].mail
    BY <1>1 DEF Insert, CarriedOnce, MailsOf
  <2>2. ASSUME NEW x \in messages', x \notin messages PROVE x.mail = job[t].mail
    BY <1>1, <2>2 DEF Insert
  <2>3. \A x, y \in messages' : x \notin messages /\ y \notin messages => x = y
    BY <1>1 DEF Insert
  <2> QED
    BY <2>1, <2>2, <2>3
<1>2. ASSUME NEW t \in Threads, MoveCommit(t) PROVE OneCopy'
  BY <1>2 DEF MoveCommit, MoveRows, Moved, Moving, At
<1>3. ASSUME NEW n \in Names, NEW u \in 1 .. MaxUid, NEW d \in BOOLEAN,
             UpdateFlags(n, u, d)
      PROVE  OneCopy'
  BY <1>3 DEF UpdateFlags, Flagged
<1>4. ASSUME messages' \subseteq messages PROVE OneCopy'
  BY <1>4
<1> HIDE DEF OneCopy
<1> QED
  BY <1>1, <1>2, <1>3, <1>4
  DEF Next, vars, store, ReadNext, InsertRejected, Bump, BumpLost, MoveRead,
      MoveAborted, MailDelete, MailExpunge, Remove, MailboxCreate,
      MailboxDelete, MailboxRename, Crash

Fate == CarriedOnce /\ NotYetStored /\ AcknowledgedKept /\ RefusedNotStored

\* Statements outside the delivery methods keep every mail or record who
\* removed it.
LEMMA FateKept ==
  ASSUME Fate, UNCHANGED <<calls, told, faults>>,
         MailsOf(messages') \subseteq MailsOf(messages),
         MailsOf(messages) \cup gone \subseteq MailsOf(messages') \cup gone'
  PROVE  Fate'
  BY DEF Fate, CarriedOnce, NotYetStored, AcknowledgedKept, RefusedNotStored,
         calls, MailsOf

\* MailDelete, MailExpunge, MailboxDelete: rows go, and their mails are noted.
LEMMA FateRemoved ==
  ASSUME Fate, UNCHANGED <<calls, told, faults>>, NEW rows,
         messages' = messages \ rows, gone' = gone \cup MailsOf(rows)
  PROVE  Fate'
<1>1. MailsOf(messages') \subseteq MailsOf(messages)
  BY DEF MailsOf
<1>2. MailsOf(messages) \cup gone \subseteq MailsOf(messages') \cup gone'
  BY DEF MailsOf
<1> QED
  BY <1>1, <1>2, FateKept

\* Every step of a delivery answers for the mail it carries and no other.
LEMMA FateStep == TypeInv /\ Fate /\ [Next]_vars => Fate'
<1> SUFFICES ASSUME TypeInv, Fate, [Next]_vars PROVE Fate'
  OBVIOUS
<1>t. /\ pc \in [Threads -> {"idle", "insert", "bump", "move"}]
      /\ job \in [Threads -> Deliveries \cup Moves \cup {NoJob}]
      /\ told \in [Mails -> {"nothing", "pending", "ok", "error"}]
  BY DEF TypeInv, TypeOK
<1>j. \A t \in Threads : pc[t] \in {"insert", "bump"} => job[t].mail \in Mails
  BY DEF TypeInv, CallsOK, Deliveries
<1>f. faults \in Nat
  BY BoundsAssumption DEF TypeInv, TypeOK
<1> USE DEF Fate, CarriedOnce, NotYetStored, AcknowledgedKept, RefusedNotStored
<1>1. ASSUME NEW t \in Threads, NEW n \in Names, NEW m \in Mails,
             NEW via \in {"MailCreate", "Deliver"}, ReadNext(t, n, m, via)
      PROVE  Fate'
  BY <1>1, <1>t, <1>j DEF ReadNext, Answer, store, MailsOf
<1>2. ASSUME NEW t \in Threads, Insert(t) PROVE Fate'
  <2>1. MailsOf(messages') = MailsOf(messages) \cup {job[t].mail}
    BY <1>2, InsertedMail
  <2>2. /\ pc[t] = "insert" /\ pc' = [pc EXCEPT ![t] = "bump"]
        /\ job' = job /\ told' = told /\ gone' = gone /\ faults' = faults
        /\ job[t].mail \in Mails /\ told[job[t].mail] = "pending"
    BY <1>2, <1>j DEF Insert, seen
  <2>3. CarriedOnce'
    BY <2>1, <2>2, <1>t DEF MailsOf
  <2>4. NotYetStored' /\ AcknowledgedKept' /\ RefusedNotStored'
    BY <2>1, <2>2 DEF MailsOf
  <2> QED
    BY <2>3, <2>4
<1>3. ASSUME NEW t \in Threads, InsertRejected(t) PROVE Fate'
  BY <1>3, <1>t, <1>j, <1>f DEF InsertRejected, Answer, Return, store, MailsOf, Fault
<1>4. ASSUME NEW t \in Threads, Bump(t) PROVE Fate'
  BY <1>4, <1>t, <1>j DEF Bump, Answer, Return, MailsOf
<1>5. ASSUME NEW t \in Threads, BumpLost(t) PROVE Fate'
  BY <1>5, <1>t, <1>j, <1>f DEF BumpLost, Answer, Return, store, MailsOf, Fault
<1>6. ASSUME NEW t \in Threads, NEW n \in Names, NEW dest \in Names,
             NEW u \in 1 .. MaxUid, MoveRead(t, n, u, dest)
      PROVE  Fate'
  BY <1>6, <1>t, <1>j DEF MoveRead, store, seen, MailsOf
<1>7. ASSUME NEW t \in Threads, MoveCommit(t) PROVE Fate'
  <2>1. MailsOf(messages') = MailsOf(messages)
    BY <1>7, MovedMails
  <2> QED
    BY <1>7, <2>1, <1>t, <1>j DEF MoveCommit, Return, seen
<1>8. ASSUME NEW t \in Threads, MoveAborted(t) PROVE Fate'
  BY <1>8, <1>t, <1>j DEF MoveAborted, Return, store, seen, MailsOf
<1>9. ASSUME Crash PROVE Fate'
  BY <1>9, <1>f DEF Crash, store, seen, MailsOf, Fault
<1> HIDE DEF Fate
<1>10. ASSUME NEW n \in Names, NEW u \in 1 .. MaxUid, NEW d \in BOOLEAN,
              UpdateFlags(n, u, d)
       PROVE  Fate'
  <2>1. MailsOf(messages') = MailsOf(messages)
    BY <1>10, FlaggedMails
  <2> QED
    BY <1>10, <2>1, FateKept DEF UpdateFlags, seen
<1>11. ASSUME NEW n \in Names, NEW u \in 1 .. MaxUid, MailDelete(n, u) PROVE Fate'
  BY <1>11, FateRemoved DEF MailDelete, Remove
<1>12. ASSUME NEW n \in Names, MailExpunge(n) PROVE Fate'
  BY <1>12, FateRemoved DEF MailExpunge, Remove
<1>13. ASSUME NEW n \in Names, MailboxDelete(n) PROVE Fate'
  BY <1>13, FateRemoved DEF MailboxDelete
<1>14. ASSUME UNCHANGED <<messages, calls, seen, faults>> PROVE Fate'
  BY <1>14, FateKept DEF seen
<1> QED
  BY <1>1, <1>2, <1>3, <1>4, <1>5, <1>6, <1>7, <1>8, <1>9, <1>10, <1>11, <1>12,
     <1>13, <1>14
  DEF Next, vars, store, MailboxCreate, MailboxRename

\* The layer is inductive over the types.
LEMMA MailStep == TypeInv /\ MailInv /\ [Next]_vars => MailInv'
  BY OneCopyStep, FateStep DEF MailInv, Fate

\* No mail a delivery acknowledged is lost, through any interleaving of moves,
\* renames, refused inserts, lost statements and crashes.
THEOREM NoAcknowledgedMailLost == Spec => []AcknowledgedKept
<1>1. MailInv => AcknowledgedKept
  BY DEF MailInv
<1> QED
  BY TypeInit, TypeStep, MailInit, MailStep, <1>1, PTL DEF Spec

\* Without faults an error answer means the mail was not stored, so a caller
\* may try elsewhere.
THEOREM ErrorsAreClean == Spec => []RefusedNotStored
<1>1. MailInv => RefusedNotStored
  BY DEF MailInv
<1> QED
  BY TypeInit, TypeStep, MailInit, MailStep, <1>1, PTL DEF Spec

\* A mail handed to the store once is never in two places.
THEOREM NoDuplicates == Spec => []OneCopy
<1>1. MailInv => OneCopy
  BY DEF MailInv
<1> QED
  BY TypeInit, TypeStep, MailInit, MailStep, <1>1, PTL DEF Spec

-----------------------------------------------------------------------------
(* Layer 4: folders                                                        *)

\* UNIQUE KEY (user_id, name), and ids that are not used again.
OneName ==
    /\ \A n \in Names : box[n] < nextId
    /\ \A n, k \in Names : box[n] = box[k] /\ box[n] # 0 => n = k

\* A removed mail is nowhere and no call will store it.
RemovedForGood ==
    \A m \in gone :
        /\ m \notin MailsOf(messages)
        /\ told[m] # "nothing"
        /\ \A t \in Threads : pc[t] = "insert" => job[t].mail # m

FolderInv == OneName /\ UniqueUids /\ RemovedForGood

TablesInv == TypeInv /\ CounterInv /\ MailInv /\ FolderInv

\* There are no folders and no mails.
LEMMA TablesInit == Init => TablesInv
<1>1. Init => FolderInv
  BY DEF Init, FolderInv, OneName, UniqueUids, RemovedForGood
<1> QED
  BY <1>1, TypeInit, CounterInit, MailInit DEF TablesInv

\* A mailbox gets a fresh id, keeps it when renamed and takes it away with it.
LEMMA OneNameStep == TypeInv /\ OneName /\ [Next]_vars => OneName'
<1> SUFFICES ASSUME TypeInv, OneName, [Next]_vars PROVE OneName'
  OBVIOUS
<1>t. box \in [Names -> 0 .. MaxBox] /\ nextId \in Nat \ {0} /\ MaxBox \in Nat
  BY BoundsAssumption DEF TypeInv, TypeOK
<1>1. ASSUME NEW n \in Names, MailboxCreate(n) PROVE OneName'
  BY <1>1, <1>t DEF MailboxCreate, OneName
<1>2. ASSUME NEW n \in Names, MailboxDelete(n) PROVE OneName'
  BY <1>2, <1>t DEF MailboxDelete, OneName
<1>3. ASSUME NEW n \in Names, NEW new \in Names, MailboxRename(n, new) PROVE OneName'
  BY <1>3, <1>t DEF MailboxRename, OneName
<1>4. ASSUME UNCHANGED <<box, nextId>> PROVE OneName'
  BY <1>4 DEF OneName
<1> QED
  BY <1>1, <1>2, <1>3, <1>4
  DEF Next, vars, store, ReadNext, Insert, InsertRejected, Bump, BumpLost, MoveRead,
      MoveCommit, MoveAborted, UpdateFlags, MailDelete, MailExpunge, Remove, Crash

\* DELETE and the cascade take mails that are nowhere else.
LEMMA RemovedMails ==
  ASSUME OneCopy, NEW rows, rows \subseteq messages, messages' = messages \ rows
  PROVE  MailsOf(messages') = MailsOf(messages) \ MailsOf(rows)
  BY DEF OneCopy, MailsOf

\* Nobody stores a mail that was removed: its call has stored it already.
LEMMA RemovedStep ==
  TypeInv /\ MailInv /\ RemovedForGood /\ [Next]_vars => RemovedForGood'
<1> SUFFICES ASSUME TypeInv, MailInv, RemovedForGood, [Next]_vars
             PROVE  RemovedForGood'
  OBVIOUS
<1>t. /\ pc \in [Threads -> {"idle", "insert", "bump", "move"}]
      /\ job \in [Threads -> Deliveries \cup Moves \cup {NoJob}]
      /\ told \in [Mails -> {"nothing", "pending", "ok", "error"}]
      /\ \A t \in Threads : pc[t] \in {"insert", "bump"} => job[t].mail \in Mails
      /\ gone \subseteq Mails
  BY DEF TypeInv, TypeOK, CallsOK, Deliveries
<1>c. CarriedOnce /\ NotYetStored /\ OneCopy
  BY DEF MailInv
<1>1. ASSUME NEW t \in Threads, NEW n \in Names, NEW m \in Mails,
             NEW via \in {"MailCreate", "Deliver"}, ReadNext(t, n, m, via)
      PROVE  RemovedForGood'
  BY <1>1, <1>t DEF ReadNext, Answer, store, RemovedForGood, MailsOf
<1>2. ASSUME NEW t \in Threads, Insert(t) PROVE RemovedForGood'
  <2>1. MailsOf(messages') = MailsOf(messages) \cup {job[t].mail}
    BY <1>2, InsertedMail
  <2> QED
    BY <1>2, <2>1, <1>t DEF Insert, seen, RemovedForGood, MailsOf
<1>3. ASSUME NEW t \in Threads, InsertRejected(t) \/ Bump(t) \/ BumpLost(t)
      PROVE  RemovedForGood'
  <2>1. /\ gone' = gone /\ messages' = messages
        /\ \A u \in Threads : pc'[u] = "insert" => pc[u] = "insert" /\ job'[u] = job[u]
        /\ \A m \in Mails : told[m] # "nothing" => told'[m] # "nothing"
    BY <1>3, <1>t DEF InsertRejected, Bump, BumpLost, Answer, Return, store
  <2> QED
    BY <2>1, <1>t DEF RemovedForGood, MailsOf
<1>4. ASSUME NEW t \in Threads, NEW n \in Names, NEW dest \in Names,
             NEW u \in 1 .. MaxUid, MoveRead(t, n, u, dest)
      PROVE  RemovedForGood'
  BY <1>4, <1>t DEF MoveRead, store, seen, RemovedForGood, MailsOf
<1>5. ASSUME NEW t \in Threads, MoveCommit(t) PROVE RemovedForGood'
  <2>1. MailsOf(messages') = MailsOf(messages)
    BY <1>5, MovedMails
  <2> QED
    BY <1>5, <2>1, <1>t DEF MoveCommit, Return, seen, RemovedForGood, MailsOf
<1>6. ASSUME NEW t \in Threads, MoveAborted(t) PROVE RemovedForGood'
  BY <1>6, <1>t DEF MoveAborted, Return, store, seen, RemovedForGood, MailsOf
<1>7. ASSUME NEW n \in Names, NEW u \in 1 .. MaxUid, NEW d \in BOOLEAN,
             UpdateFlags(n, u, d)
      PROVE  RemovedForGood'
  <2>1. MailsOf(messages') = MailsOf(messages)
    BY <1>7, FlaggedMails
  <2> QED
    BY <1>7, <2>1 DEF UpdateFlags, calls, seen, RemovedForGood, MailsOf
<1>8. ASSUME NEW rows, rows \subseteq messages, messages' = messages \ rows,
             gone' = gone \cup MailsOf(rows), UNCHANGED <<calls, told>>
      PROVE  RemovedForGood'
  <2>1. MailsOf(messages') = MailsOf(messages) \ MailsOf(rows)
    BY <1>8, <1>c, RemovedMails
  <2>2. MailsOf(rows) \subseteq MailsOf(messages) /\ MailsOf(rows) \subseteq Mails
    BY <1>8 DEF MailsOf, TypeInv, TypeOK
  <2>3. \A m \in MailsOf(rows) :
           told[m] # "nothing" /\ \A t \in Threads : pc[t] = "insert" => job[t].mail # m
    BY <2>2, <1>c DEF NotYetStored, CarriedOnce
  <2> QED
    BY <1>8, <2>1, <2>3 DEF RemovedForGood, calls, MailsOf
<1>9. ASSUME NEW n \in Names, NEW u \in 1 .. MaxUid, MailDelete(n, u)
      PROVE  RemovedForGood'
  <2>1. {x \in Stored(box[n]) : x.uid = u} \subseteq messages
    BY DEF Stored
  <2> QED
    BY <1>8, <1>9, <2>1 DEF MailDelete, Remove
<1>10. ASSUME NEW n \in Names, MailExpunge(n) PROVE RemovedForGood'
  <2>1. {x \in Stored(box[n]) : x.deleted} \subseteq messages
    BY DEF Stored
  <2> QED
    BY <1>8, <1>10, <2>1 DEF MailExpunge, Remove
<1>11. ASSUME NEW n \in Names, MailboxDelete(n) PROVE RemovedForGood'
  <2>1. Stored(box[n]) \subseteq messages
    BY DEF Stored
  <2> QED
    BY <1>8, <1>11, <2>1 DEF MailboxDelete
<1>12. ASSUME Crash PROVE RemovedForGood'
  BY <1>12 DEF Crash, store, seen, RemovedForGood, MailsOf
<1>13. ASSUME UNCHANGED <<messages, calls, seen>> PROVE RemovedForGood'
  BY <1>13 DEF calls, seen, RemovedForGood, MailsOf
<1> QED
  BY <1>1, <1>2, <1>3, <1>4, <1>5, <1>6, <1>7, <1>9, <1>10, <1>11, <1>12, <1>13
  DEF Next, vars, store, MailboxCreate, MailboxRename

\* All four layers are inductive together.
LEMMA TablesStep == TablesInv /\ [Next]_vars => TablesInv'
<1>1. UniqueUids /\ UNCHANGED vars => UniqueUids'
  BY DEF vars, store, UniqueUids
<1> QED
  BY <1>1, TypeStep, ForeignKeyStep, CounterStep, MailStep, OneNameStep, UniqueUidsStep,
     RemovedStep
  DEF TablesInv, CounterInv, FolderInv

-----------------------------------------------------------------------------
(* Refinement of Mailboxes                                                 *)

Existing == {n \in Names : box[n] # 0}

Folders == [n \in Existing |-> MailsOf(Stored(box[n]))]

\* Every mail of the tables is in a folder with a name.
LEMMA HeldIsStored ==
  ASSUME TypeInv, ForeignKey PROVE Atomic!Held = MailsOf(messages)
<1>1. Atomic!Held = UNION {Folders[n] : n \in Existing}
  BY DEF Atomic!Held, Folders, Existing
<1>2. ASSUME NEW x \in messages PROVE \E n \in Existing : x.mail \in Folders[n]
  <2>1. PICK n \in Names : box[n] = x.box /\ box[n] # 0
    BY DEF ForeignKey, Live
  <2> QED
    BY <2>1 DEF Existing, Folders, MailsOf, Stored
<1>3. \A n \in Existing : Folders[n] \subseteq MailsOf(messages)
  BY DEF Existing, Folders, MailsOf, Stored
<1> QED
  BY <1>1, <1>2, <1>3 DEF MailsOf

\* Folders whose mailboxes keep their mails have not changed.
LEMMA SameFolders ==
  ASSUME box' = box, \A b \in Live : MailsOf(Stored(b)') = MailsOf(Stored(b))
  PROVE  Folders' = Folders
<1>1. Existing' = Existing
  BY DEF Existing
<1>2. \A n \in Existing : MailsOf(Stored(box[n]))' = MailsOf(Stored(box[n]))
  <2> SUFFICES ASSUME NEW n \in Existing
               PROVE  MailsOf(Stored(box[n]))' = MailsOf(Stored(box[n]))
    OBVIOUS
  <2>1. PICK b \in Live : b = box[n]
    BY DEF Existing, Live
  <2> QED
    BY <2>1 DEF MailsOf, Stored
<1> QED
  BY <1>1, <1>2 DEF Folders

\* The INSERT of a delivery puts its mail into the folder that has the mailbox.
LEMMA InsertPuts ==
  ASSUME TablesInv, NEW t \in Threads, Insert(t)
  PROVE  Atomic!BoxNext
<1> DEFINE m == job[t].mail
<1>1. PICK n \in Existing : box[n] = target[t]
  BY DEF Insert, CanInsert, Live, Existing
<1>2. /\ m \in Mails /\ told[m] = "pending"
      /\ m \notin MailsOf(messages) \cup gone
  BY DEF Insert, TablesInv, TypeInv, CallsOK, Deliveries, MailInv, CarriedOnce,
         FolderInv, RemovedForGood
<1>3. \A k \in Existing \ {n} : box[k] # target[t]
  BY <1>1 DEF TablesInv, FolderInv, OneName, Existing
<1>4. Folders' = [Folders EXCEPT ![n] = @ \cup {m}]
  <2> DEFINE row == [box |-> target[t], uid |-> slot[t], mail |-> m, deleted |-> FALSE]
  <2>1. messages' = messages \cup {row} /\ row.box = target[t] /\ row.mail = m /\ box' = box
    BY DEF Insert
  <2> HIDE DEF row, m
  <2>2. MailsOf(Stored(box[n]))' = MailsOf(Stored(box[n])) \cup {m}
    BY <1>1, <2>1 DEF MailsOf, Stored
  <2>3. \A k \in Existing \ {n} : MailsOf(Stored(box[k]))' = MailsOf(Stored(box[k]))
    BY <1>3, <2>1 DEF MailsOf, Stored
  <2> QED
    BY <2>1, <2>2, <2>3 DEF Folders, Existing
<1>5. UNCHANGED <<gone, told, faults>>
  BY DEF Insert, seen
<1>6. Atomic!Held = MailsOf(messages)
  BY HeldIsStored DEF TablesInv, CounterInv
<1> HIDE DEF m
<1>7. Atomic!Put(m, n)
  BY <1>2, <1>4, <1>5, <1>6 DEF Atomic!Put, Folders, Existing
<1> QED
  BY <1>1, <1>2, <1>7 DEF Atomic!BoxNext, Existing

\* What a caller is told is what happened, unless a fault came in between.
LEMMA AnswersAreTrue ==
  ASSUME TablesInv, NEW t \in Threads,
         InsertRejected(t) \/ Bump(t) \/ BumpLost(t)
  PROVE  Atomic!BoxNext
<1> DEFINE m == job[t].mail
<1>1. /\ m \in Mails /\ told[m] = "pending"
      /\ pc[t] = "insert" => m \notin MailsOf(messages) \cup gone
      /\ pc[t] = "bump" => m \in MailsOf(messages) \cup gone
  BY DEF InsertRejected, Bump, BumpLost, TablesInv, TypeInv, CallsOK, Deliveries,
         MailInv, CarriedOnce, FolderInv, RemovedForGood
<1>2. box' = box /\ messages' = messages /\ gone' = gone
  BY DEF InsertRejected, Bump, BumpLost, store
<1>3. Folders' = Folders
  BY <1>2, SameFolders DEF Stored
<1>4. Atomic!Held = MailsOf(messages)
  BY HeldIsStored DEF TablesInv, CounterInv
<1> HIDE DEF m
<1>5. ASSUME NEW a \in {"ok", "error"}, Answer(m, a)
      PROVE  Atomic!Answered(m, a)
  BY <1>1, <1>2, <1>3, <1>5 DEF Atomic!Answered, Answer, Folders, Existing
<1>6. ASSUME InsertRejected(t) PROVE Atomic!BoxNext
  <2>1. Answer(m, "error") /\ pc[t] = "insert"
    BY <1>6 DEF InsertRejected, m
  <2>2. Atomic!Refuse(m)
    BY <1>1, <1>4, <1>5, <2>1 DEF Atomic!Refuse
  <2>3. UNCHANGED faults \/ faults' = faults + 1
    BY <1>6 DEF InsertRejected, Fault
  <2> QED
    BY <1>1, <1>5, <2>1, <2>2, <2>3 DEF Atomic!BoxNext, Atomic!Disturb
<1>7. ASSUME Bump(t) PROVE Atomic!BoxNext
  <2>1. Answer(m, "ok") /\ pc[t] = "bump" /\ UNCHANGED faults
    BY <1>7 DEF Bump, m
  <2>2. Atomic!Confirm(m)
    BY <1>1, <1>4, <1>5, <2>1 DEF Atomic!Confirm
  <2> QED
    BY <1>1, <2>1, <2>2 DEF Atomic!BoxNext
<1>8. ASSUME BumpLost(t) PROVE Atomic!BoxNext
  <2>1. /\ Answer(m, "ok") \/ Answer(m, "error")
        /\ pc[t] = "bump" /\ faults' = faults + 1
    BY <1>8 DEF BumpLost, Fault, m
  <2>2. Atomic!Confirm(m) \/ Atomic!Answered(m, "error")
    BY <1>1, <1>4, <1>5, <2>1 DEF Atomic!Confirm
  <2> QED
    BY <1>1, <2>1, <2>2 DEF Atomic!BoxNext, Atomic!Disturb
<1> QED
  BY <1>6, <1>7, <1>8

\* The commit of a MOVE takes one mail from a folder to another, or nothing.
LEMMA MoveTransfers ==
  ASSUME TablesInv, NEW t \in Threads, MoveCommit(t)
  PROVE  Atomic!BoxNext \/ UNCHANGED Atomic!boxVars
<1>1. box' = box /\ UNCHANGED <<gone, told, faults>>
  BY DEF MoveCommit, seen
<1>2. CASE Moving(t) = {}
  <2>1. messages' = messages
    BY <1>2 DEF MoveCommit, MoveRows, Moved
  <2>2. Folders' = Folders
    BY <1>1, <2>1, SameFolders DEF Stored
  <2> QED
    BY <1>1, <2>2 DEF Atomic!boxVars, Folders, Existing
<1>3. CASE Moving(t) # {}
  <2>1. PICK x \in Moving(t) : TRUE
    BY <1>3
  <2>2. Moving(t) = {x}
    BY <2>1 DEF Moving, TablesInv, FolderInv, UniqueUids
  <2> DEFINE n == job[t].from
             y == At(x, target[t], slot[t])
  <2>3. /\ n \in Names /\ x \in messages /\ x.box = box[n] /\ box[n] # 0
        /\ x.mail \in Mails
    BY <2>1, BoundsAssumption
    DEF MoveCommit, TablesInv, TypeInv, CallsOK, TypeOK, Moves, Moving, BoxIds
  <2>4. target[t] \in Live
    BY <1>3, <2>1 DEF MoveCommit, CanMove, CanInsert, Moving, TablesInv, CounterInv, ForeignKey
  <2>5. PICK k \in Existing : box[k] = target[t]
    BY <2>4 DEF Live, Existing
  <2>6. messages' = (messages \ {x}) \cup {y} /\ y.box = box[k] /\ y.mail = x.mail
    BY <2>2, <2>5 DEF MoveCommit, MoveRows, Moved, At
  <2>7. \A z \in messages : z.mail = x.mail => z = x
    BY <2>3 DEF TablesInv, MailInv, OneCopy
  <2>8. \A p, q \in Existing : box[p] = box[q] => p = q
    BY DEF TablesInv, FolderInv, OneName, Existing
  <2> HIDE DEF n, y
  <2>9. n \in Existing
    BY <2>3 DEF Existing
  <2>10. Folders' = [Folders EXCEPT ![n] = @ \ {x.mail}, ![k] = @ \cup {x.mail}]
    <3>1. ASSUME NEW p \in Existing
          PROVE  MailsOf(Stored(box[p]))' =
                    (MailsOf(Stored(box[p])) \ (IF p = n THEN {x.mail} ELSE {}))
                       \cup (IF p = k THEN {x.mail} ELSE {})
      <4>1. \A z : z \in Stored(box[p])' <=>
               (z \in Stored(box[p]) /\ z # x) \/ (z = y /\ p = k)
        BY <1>1, <2>5, <2>6, <2>8 DEF Stored
      <4>2. x \in Stored(box[p]) <=> p = n
        BY <2>3, <2>8, <2>9 DEF Stored
      <4>3. \A z \in Stored(box[p]) : z.mail = x.mail => z = x
        BY <2>7 DEF Stored
      <4> QED
        BY <2>6, <4>1, <4>2, <4>3 DEF MailsOf
    <3>2. Existing' = Existing
      BY <1>1 DEF Existing
    <3>3. Folders' = [p \in Existing |->
                        (Folders[p] \ (IF p = n THEN {x.mail} ELSE {}))
                           \cup (IF p = k THEN {x.mail} ELSE {})]
      BY <3>1, <3>2 DEF Folders
    <3>4. DOMAIN Folders = Existing
      BY DEF Folders
    <3> QED
      BY <2>5, <2>9, <3>3, <3>4
  <2>11. x.mail \in Folders[n]
    BY <2>3, <2>9 DEF Folders, MailsOf, Stored
  <2>12. Atomic!Transfer(x.mail, n, k)
    BY <1>1, <2>10, <2>11 DEF Atomic!Transfer, Folders, Existing
  <2> QED
    BY <2>5, <2>9, <2>11, <2>12 DEF Atomic!BoxNext, Folders, Existing
<1> QED
  BY <1>2, <1>3

\* DELETE and EXPUNGE discard mails of one folder.
LEMMA RemoveDiscards ==
  ASSUME TablesInv, NEW n \in Names, NEW rows \in SUBSET Stored(box[n]),
         Remove(rows), box' = box
  PROVE  Atomic!BoxNext
<1> DEFINE M == MailsOf(rows)
<1>1. rows \subseteq messages /\ rows # {} /\ messages' = messages \ rows
  BY DEF Remove, Stored
<1>2. n \in Existing
  BY <1>1, BoundsAssumption DEF Stored, TablesInv, TypeInv, TypeOK, Existing, BoxIds
<1>3. \A p, q \in Existing : box[p] = box[q] => p = q
  BY DEF TablesInv, FolderInv, OneName, Existing
<1>4. M \subseteq Folders[n]
  BY <1>2 DEF Folders, MailsOf
<1>5. Folders' = [Folders EXCEPT ![n] = @ \ M]
  <2>1. ASSUME NEW p \in Existing
        PROVE  MailsOf(Stored(box[p]))' =
                  MailsOf(Stored(box[p])) \ (IF p = n THEN M ELSE {})
    <3>1. Stored(box[p])' = Stored(box[p]) \ rows
      BY <1>1 DEF Stored
    <3>2. p # n => Stored(box[p])' = Stored(box[p])
      BY <1>1, <1>2, <1>3 DEF Stored
    <3>3. p = n => MailsOf(Stored(box[p])') = MailsOf(Stored(box[p])) \ M
      BY <3>1 DEF MailsOf, Stored, TablesInv, MailInv, OneCopy
    <3> QED
      BY <3>2, <3>3 DEF MailsOf
  <2>2. Existing' = Existing
    BY DEF Existing
  <2>3. Folders' = [p \in Existing |-> Folders[p] \ (IF p = n THEN M ELSE {})]
    BY <2>1, <2>2 DEF Folders
  <2>4. DOMAIN Folders = Existing
    BY DEF Folders
  <2> QED
    BY <1>2, <2>3, <2>4
<1>6. gone' = gone \cup M /\ told' = told /\ faults' = faults
  BY DEF Remove
<1> HIDE DEF M
<1>7. Atomic!Discard(M, n)
  BY <1>5, <1>6 DEF Atomic!Discard, Folders, Existing
<1> QED
  BY <1>2, <1>4, <1>7 DEF Atomic!BoxNext, Folders, Existing

\* CREATE, DELETE and RENAME of folders.
LEMMA FolderCommands ==
  ASSUME TablesInv, NEW n \in Names, NEW new \in Names,
         MailboxCreate(n) \/ MailboxDelete(n) \/ MailboxRename(n, new)
  PROVE  Atomic!BoxNext
<1>t. box \in [Names -> 0 .. MaxBox] /\ nextId \in Nat \ {0} /\ MaxBox \in Nat
  BY BoundsAssumption DEF TablesInv, TypeInv, TypeOK
<1>d. DOMAIN Folders = Existing
  BY DEF Folders
<1>1. ASSUME MailboxCreate(n) PROVE Atomic!BoxNext
  <2>1. /\ box[n] = 0 /\ box' = [box EXCEPT ![n] = nextId]
        /\ UNCHANGED <<messages, gone, told, faults>>
    BY <1>1 DEF MailboxCreate, seen
  <2>2. Existing' = Existing \cup {n} /\ n \notin Existing
    BY <1>t, <2>1 DEF Existing
  <2>3. \A x \in messages : x.box # nextId
    BY <1>t DEF TablesInv, CounterInv, ForeignKey, Live, FolderInv, OneName
  <2>4. MailsOf(Stored(box[n]))' = {}
    BY <1>t, <2>1, <2>3 DEF MailsOf, Stored
  <2>5. \A k \in Existing : MailsOf(Stored(box[k]))' = MailsOf(Stored(box[k]))
    BY <1>t, <2>1 DEF MailsOf, Stored, Existing
  <2>6. Folders' = [k \in DOMAIN Folders \cup {n} |-> IF k = n THEN {} ELSE Folders[k]]
    BY <1>d, <2>2, <2>4, <2>5 DEF Folders
  <2>7. Atomic!Create(n)
    BY <1>d, <2>1, <2>2, <2>6 DEF Atomic!Create, Folders, Existing
  <2> QED
    BY <2>7 DEF Atomic!BoxNext
<1>2. ASSUME MailboxDelete(n) PROVE Atomic!BoxNext
  <2>1. /\ n \notin Protected /\ box[n] # 0 /\ box' = [box EXCEPT ![n] = 0]
        /\ messages' = messages \ Stored(box[n])
        /\ gone' = gone \cup MailsOf(Stored(box[n]))
        /\ UNCHANGED <<told, faults>>
    BY <1>2 DEF MailboxDelete
  <2>2. Existing' = Existing \ {n} /\ n \in Existing
    BY <1>t, <2>1 DEF Existing
  <2>3. \A k \in Existing \ {n} : box'[k] = box[k] /\ box[k] # box[n]
    BY <1>t, <2>1, <2>2 DEF TablesInv, FolderInv, OneName, Existing
  <2>4. \A k \in Existing \ {n} : MailsOf(Stored(box[k]))' = MailsOf(Stored(box[k]))
    BY <2>1, <2>3 DEF MailsOf, Stored
  <2>5. Folders' = [k \in DOMAIN Folders \ {n} |-> Folders[k]]
    BY <1>d, <2>2, <2>4 DEF Folders
  <2>6. Folders[n] = MailsOf(Stored(box[n]))
    BY <2>2 DEF Folders
  <2>7. Atomic!Drop(n)
    BY <1>d, <2>1, <2>5, <2>6 DEF Atomic!Drop, Folders, Existing
  <2> QED
    BY <1>d, <2>2, <2>7 DEF Atomic!BoxNext, Folders, Existing
<1>3. ASSUME MailboxRename(n, new) PROVE Atomic!BoxNext
  <2>1. /\ n \notin Protected /\ box[n] # 0 /\ box[new] = 0
        /\ box' = [box EXCEPT ![n] = 0, ![new] = box[n]]
        /\ UNCHANGED <<messages, gone, told, faults>>
    BY <1>3 DEF MailboxRename, seen
  <2>2. Existing' = (Existing \ {n}) \cup {new} /\ n \in Existing /\ new \notin Existing
    BY <1>t, <2>1 DEF Existing
  <2>3. box'[new] = box[n] /\ \A k \in Existing \ {n} : box'[k] = box[k]
    BY <1>t, <2>1, <2>2 DEF Existing
  <2>4. /\ MailsOf(Stored(box[new]))' = MailsOf(Stored(box[n]))
        /\ \A k \in Existing \ {n} : MailsOf(Stored(box[k]))' = MailsOf(Stored(box[k]))
    BY <2>1, <2>3 DEF MailsOf, Stored
  <2>5. Folders' = [k \in (DOMAIN Folders \ {n}) \cup {new} |->
                       IF k = new THEN Folders[n] ELSE Folders[k]]
    BY <1>d, <2>2, <2>4 DEF Folders
  <2>6. Atomic!Rename(n, new)
    BY <1>d, <2>1, <2>2, <2>5 DEF Atomic!Rename, Folders, Existing
  <2> QED
    BY <1>d, <2>2, <2>6 DEF Atomic!BoxNext, Folders, Existing
<1> QED
  BY <1>1, <1>2, <1>3

\* Every statement is a step of the folders or invisible to their owner.
LEMMA BoxStep == TablesInv /\ [Next]_vars => [Atomic!BoxNext]_(Atomic!boxVars)
<1> SUFFICES ASSUME TablesInv, [Next]_vars
             PROVE  Atomic!BoxNext \/ UNCHANGED Atomic!boxVars
  OBVIOUS
<1>1. ASSUME NEW t \in Threads, NEW n \in Names, NEW m \in Mails,
             NEW via \in {"MailCreate", "Deliver"}, ReadNext(t, n, m, via)
      PROVE  Atomic!BoxNext
  <2>1. /\ box' = box /\ messages' = messages /\ gone' = gone /\ faults' = faults
        /\ told[m] = "nothing" /\ told' = [told EXCEPT ![m] = "pending"]
    BY <1>1 DEF ReadNext, Answer, store
  <2>2. Folders' = Folders
    BY <2>1, SameFolders DEF Stored
  <2>3. Atomic!HandOver(m)
    BY <2>1, <2>2 DEF Atomic!HandOver, Folders, Existing
  <2> QED
    BY <2>3 DEF Atomic!BoxNext
<1>2. ASSUME NEW t \in Threads, NEW n \in Names, NEW dest \in Names,
             NEW u \in 1 .. MaxUid, MoveRead(t, n, u, dest)
      PROVE  UNCHANGED <<box, messages, seen, faults>>
  BY <1>2 DEF MoveRead, store
<1>3. ASSUME NEW t \in Threads, MoveAborted(t)
      PROVE  UNCHANGED <<box, messages, seen, faults>>
  BY <1>3 DEF MoveAborted, store
<1>4. ASSUME NEW n \in Names, NEW u \in 1 .. MaxUid, NEW d \in BOOLEAN,
             UpdateFlags(n, u, d)
      PROVE  UNCHANGED Atomic!boxVars
  <2>1. ASSUME NEW b \in Live PROVE MailsOf(Stored(b)') = MailsOf(Stored(b))
    <3> DEFINE row(x) ==
           Flagged(x, IF x.box = box[n] /\ x.uid = u THEN d ELSE x.deleted)
    <3>1. messages' = {row(x) : x \in messages}
      BY <1>4 DEF UpdateFlags
    <3>2. \A x \in messages : row(x).mail = x.mail /\ row(x).box = x.box
      BY DEF Flagged
    <3> HIDE DEF row
    <3>3. \A x \in Stored(b) : \E y \in Stored(b)' : y.mail = x.mail
      BY <3>1, <3>2 DEF Stored
    <3>4. \A y \in Stored(b)' : \E x \in Stored(b) : y.mail = x.mail
      BY <3>1, <3>2 DEF Stored
    <3> QED
      BY <3>3, <3>4, SameMails
  <2>2. Folders' = Folders
    BY <1>4, <2>1, SameFolders DEF UpdateFlags
  <2> QED
    BY <1>4, <2>2 DEF UpdateFlags, seen, Atomic!boxVars, Folders, Existing
<1>5. ASSUME NEW n \in Names, NEW u \in 1 .. MaxUid, MailDelete(n, u)
      PROVE  Atomic!BoxNext
  BY <1>5, RemoveDiscards DEF MailDelete
<1>6. ASSUME NEW n \in Names, MailExpunge(n) PROVE Atomic!BoxNext
  BY <1>6, RemoveDiscards DEF MailExpunge
<1>7. ASSUME Crash PROVE Atomic!BoxNext
  <2>1. UNCHANGED <<box, messages, seen>> /\ faults' = faults + 1
    BY <1>7 DEF Crash, Fault, store
  <2>2. Folders' = Folders
    BY <2>1, SameFolders DEF Stored
  <2>3. Atomic!Disturb
    BY <2>1, <2>2 DEF seen, Atomic!Disturb, Folders, Existing
  <2> QED
    BY <2>3 DEF Atomic!BoxNext
<1>8. ASSUME UNCHANGED <<box, messages, seen, faults>>
      PROVE  UNCHANGED Atomic!boxVars
  <2>1. Folders' = Folders
    BY <1>8, SameFolders DEF Stored
  <2> QED
    BY <1>8, <2>1 DEF seen, Atomic!boxVars, Folders, Existing
<1>9. ASSUME Next PROVE Atomic!BoxNext \/ UNCHANGED Atomic!boxVars
  BY <1>1, <1>2, <1>3, <1>4, <1>5, <1>6, <1>7, <1>8, <1>9, InsertPuts, AnswersAreTrue,
     MoveTransfers, FolderCommands
  DEF Next
<1> QED
  BY <1>8, <1>9 DEF vars, store

\* Concurrent calls of the storage methods, interrupted anywhere, add up to
\* folders with atomic delivery, move and removal (mariadb.go).
THEOREM TablesAreFolders == Spec => ImplementsMailboxes
<1>1. Init => Atomic!BoxInit
  <2> SUFFICES ASSUME Init PROVE Atomic!BoxInit
    OBVIOUS
  <2>1. {k \in Names : box[k] # 0} = {}
    BY DEF Init
  <2>2. [n \in {k \in Names : box[k] # 0} |-> MailsOf(Stored(box[n]))] = [n \in {} |-> {}]
    BY <2>1
  <2> QED
    BY <2>2 DEF Init, Atomic!BoxInit
<1> QED
  BY TablesInit, TablesStep, <1>1, BoxStep, PTL
  DEF Spec, ImplementsMailboxes, Atomic!BoxSpec

=============================================================================
